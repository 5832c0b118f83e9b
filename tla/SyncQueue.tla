------------------------------- MODULE SyncQueue -------------------------------
(***************************************************************************)
(* The offline queue of the Flutter client: SyncQueueService.enqueue,       *)
(* ScalarioSyncWorker and the statements of SyncQueueDao (core/sync and     *)
(* core/vault/dao).  The table outlives the process; the worker's fields do *)
(* not.  Each await of the drain loop is a step of its own, so that events  *)
(* (enqueue, connectivity, pause, a killed process) fall between them.      *)
(*                                                                         *)
(* What the server answers is left open here: OfflineSync closes the loop.  *)
(* Time is abstracted: created_at is a number of seconds that does not run  *)
(* backwards, and a backoff is "waiting" until it is "due" (RetryPolicy has *)
(* the durations).                                                         *)
(***************************************************************************)
EXTENDS Naturals, FiniteSets

CONSTANTS
    Mutations,   \* mutation ids, numbers: their order is the UUIDs' order
    BatchLimit,  \* the LIMIT of fetchEligible (20)
    MaxRetries,  \* ScalarioSyncWorker.maxRetries (10)
    MaxSeconds,  \* bound: created_at ranges over 0 .. MaxSeconds
    MaxKills,    \* bound: how many times the process is killed
    FaultModels  \* which sets of "localStore" and "malformed" are looked at

ASSUME QueueAssumption ==
    /\ Mutations \subseteq Nat
    /\ IsFiniteSet(Mutations)
    /\ BatchLimit \in Nat \ {0}
    /\ MaxRetries \in Nat \ {0}
    /\ MaxSeconds \in Nat
    /\ MaxKills \in Nat
    /\ FaultModels \subseteq SUBSET {"localStore", "malformed"}

VARIABLES
    status,     \* status[m]: column status, "absent" before enqueue
    retries,    \* retries[m]: column retry_count
    retryAt,    \* retryAt[m]: column next_retry_at: "null", "waiting" or "due"
    createdAt,  \* createdAt[m]: column created_at, in seconds
    now,        \* the second that the next row is created in
    phase,      \* where the drain loop is; "idle": not draining; "down": no process
    active,     \* _isActive
    batch,      \* the rows of the current batch
    results,    \* the response's results not applied yet
    fault,      \* how the request failed
    unmarked,   \* the rows of a failed batch not marked yet
    permanent,  \* history: the rows that markPermanentError was called on
    kills,      \* how many times the process was killed
    faults      \* what can go wrong in this behaviour: a statement of the local
                \* store throws, a response lacks results

table == <<status, retries, retryAt, createdAt, permanent>>
worker == <<phase, active, batch, results, fault, unmarked>>
queueVars == <<table, worker, now, kills, faults>>

Status == {"absent", "pending", "sending", "success", "conflict", "error"}

ResultStatus == {"success", "conflict", "error"}

Phase == {"down", "idle", "fetch", "claim", "post", "settle", "fail", "cooldown"}

Fault == {"none", "retryable", "conflict", "fatal"}

NoResults == [m \in {} |-> "success"]

TypeOK ==
    /\ status \in [Mutations -> Status]
    /\ retries \in [Mutations -> 0 .. MaxRetries - 1]
    /\ retryAt \in [Mutations -> {"null", "waiting", "due"}]
    /\ createdAt \in [Mutations -> 0 .. MaxSeconds]
    /\ now \in 0 .. MaxSeconds
    /\ phase \in Phase
    /\ active \in BOOLEAN
    /\ batch \in SUBSET Mutations
    /\ \E answered \in SUBSET batch : results \in [answered -> ResultStatus]
    /\ fault \in Fault
    /\ unmarked \in SUBSET batch
    /\ permanent \in SUBSET Mutations
    /\ kills \in 0 .. MaxKills
    /\ faults \in FaultModels

Init ==
    /\ status = [m \in Mutations |-> "absent"]
    /\ retries = [m \in Mutations |-> 0]
    /\ retryAt = [m \in Mutations |-> "null"]
    /\ createdAt = [m \in Mutations |-> 0]
    /\ now = 0
    /\ phase = "down"
    /\ active = TRUE
    /\ batch = {}
    /\ results = NoResults
    /\ fault = "none"
    /\ unmarked = {}
    /\ permanent = {}
    /\ kills = 0
    /\ faults \in FaultModels

-------------------------------------------------------------------------------
(* The DAO. *)

\* The WHERE of fetchEligible.
Eligible(m) ==
    \/ status[m] = "pending"
    \/ status[m] = "error" /\ retryAt[m] = "due"

\* ORDER BY created_at ASC, mutation_id ASC.
Before(k, m) ==
    \/ createdAt[k] < createdAt[m]
    \/ createdAt[k] = createdAt[m] /\ k < m

First(S, m) == m \in S /\ \A k \in S \ {m} : Before(m, k)

FetchEligible ==
    LET eligible == {m \in Mutations : Eligible(m)}
    IN  {m \in eligible : Cardinality({k \in eligible : Before(k, m)}) < BatchLimit}

SetStatus(S, s) == status' = [m \in Mutations |-> IF m \in S THEN s ELSE status[m]]

MarkErrorWithBackoff(m) ==
    /\ SetStatus({m}, "error")
    /\ retries' = [retries EXCEPT ![m] = @ + 1]
    /\ retryAt' = [retryAt EXCEPT ![m] = "waiting"]
    /\ UNCHANGED permanent

\* next_retry_at keeps whatever value it has.
MarkPermanentError(m) ==
    /\ SetStatus({m}, "error")
    /\ permanent' = permanent \cup {m}
    /\ UNCHANGED <<retries, retryAt>>

\* markSuccess or markConflict.
MarkEnded(m, s) ==
    /\ SetStatus({m}, s)
    /\ UNCHANGED <<retries, retryAt, permanent>>

-------------------------------------------------------------------------------
(* The events. *)

\* _drain() is entered unless a drain is under way or the worker is paused.
Trigger(isActive) == phase' = IF phase = "idle" /\ isActive THEN "fetch" ELSE phase

\* SyncQueueService.enqueue, and the worker's listener on onEnqueued.
Enqueue(m) ==
    /\ phase # "down"
    /\ status[m] = "absent"
    /\ SetStatus({m}, "pending")
    /\ createdAt' = [createdAt EXCEPT ![m] = now]
    /\ Trigger(active)
    /\ UNCHANGED <<retries, retryAt, permanent, now, active, batch, results, fault, unmarked, kills, faults>>

\* The wall clock moves to the next second.
NextSecond ==
    /\ now < MaxSeconds
    /\ now' = now + 1
    /\ UNCHANGED <<table, worker, kills, faults>>

\* The backoff of a row is over.
BackoffElapses(m) ==
    /\ retryAt[m] = "waiting"
    /\ retryAt' = [retryAt EXCEPT ![m] = "due"]
    /\ UNCHANGED <<status, retries, createdAt, permanent, worker, now, kills, faults>>

\* Mutant: the rows left in flight are not recovered.
StartWithoutRecovery ==
    /\ phase = "down"
    /\ phase' = "fetch"
    /\ active' = TRUE
    /\ UNCHANGED <<table, batch, results, fault, unmarked, now, kills, faults>>

\* Mutant: everything that is not a success is queued again.
StartRequeuesConflicts ==
    /\ phase = "down"
    /\ SetStatus({m \in Mutations : status[m] \in {"sending", "conflict"}}, "pending")
    /\ phase' = "fetch"
    /\ active' = TRUE
    /\ UNCHANGED <<retries, retryAt, createdAt, permanent, batch, results, fault, unmarked, now, kills, faults>>

\* A new process: recoverInFlight, then the first drain.
Start ==
    /\ phase = "down"
    /\ SetStatus({m \in Mutations : status[m] = "sending"}, "pending")
    /\ phase' = "fetch"
    /\ active' = TRUE
    /\ UNCHANGED <<retries, retryAt, createdAt, permanent, batch, results, fault, unmarked, now, kills, faults>>

\* The process is killed at any point of the drain.
Kill ==
    /\ phase # "down"
    /\ kills < MaxKills
    /\ kills' = kills + 1
    /\ phase' = "down"
    /\ batch' = {}
    /\ results' = NoResults
    /\ fault' = "none"
    /\ unmarked' = {}
    /\ UNCHANGED <<table, active, now, faults>>

ConnectivityRestored ==
    /\ phase # "down"
    /\ Trigger(active)
    /\ UNCHANGED <<table, active, batch, results, fault, unmarked, now, kills, faults>>

Pause ==
    /\ phase # "down"
    /\ active
    /\ active' = FALSE
    /\ UNCHANGED <<table, phase, batch, results, fault, unmarked, now, kills, faults>>

Resume ==
    /\ phase # "down"
    /\ ~ active
    /\ active' = TRUE
    /\ Trigger(TRUE)
    /\ UNCHANGED <<table, batch, results, fault, unmarked, now, kills, faults>>

-------------------------------------------------------------------------------
(* The drain loop. *)

Leave(next) ==
    /\ phase' = next
    /\ batch' = {}
    /\ results' = NoResults
    /\ fault' = "none"
    /\ unmarked' = {}

\* while (_isActive) and the query.
Fetch ==
    /\ phase = "fetch"
    /\ IF active
       THEN phase' = "claim" /\ batch' = FetchEligible /\ UNCHANGED <<results, fault, unmarked>>
       ELSE Leave("idle")
    /\ UNCHANGED <<table, active, now, kills, faults>>

\* An empty batch ends the drain, any other is marked 'sending'.
Claim ==
    /\ phase = "claim"
    /\ IF batch = {}
       THEN Leave("idle") /\ UNCHANGED status
       ELSE /\ phase' = "post"
            /\ SetStatus(batch, "sending")
            /\ UNCHANGED <<batch, results, fault, unmarked>>
    /\ UNCHANGED <<retries, retryAt, createdAt, permanent, active, now, kills, faults>>

\* postMutations returns the results rs.
Receive(rs) ==
    /\ phase = "post"
    /\ phase' = "settle"
    /\ results' = rs
    /\ UNCHANGED <<table, active, batch, fault, unmarked, now, kills, faults>>

\* postMutations throws: "retryable" for a network error, a timeout, 408, 429
\* and 5xx; "conflict" for 409; "fatal" for every other status.
RequestFails(f) ==
    /\ phase = "post"
    /\ phase' = "fail"
    /\ fault' = f
    /\ unmarked' = batch
    /\ UNCHANGED <<table, active, batch, results, now, kills, faults>>

\* One turn of the loop over response.results.
SettleOne(m) ==
    /\ phase = "settle"
    /\ First(DOMAIN results, m)
    /\ IF results[m] = "error" THEN MarkPermanentError(m) ELSE MarkEnded(m, results[m])
    /\ results' = [k \in DOMAIN results \ {m} |-> results[k]]
    /\ UNCHANGED <<createdAt, phase, active, batch, fault, unmarked, now, kills, faults>>

\* A statement of the loop throws: the catch block treats it as a network
\* error of the whole batch.
SettleThrows ==
    /\ "localStore" \in faults
    /\ phase = "settle"
    /\ DOMAIN results # {}
    /\ phase' = "fail"
    /\ fault' = "retryable"
    /\ unmarked' = batch
    /\ results' = NoResults
    /\ UNCHANGED <<table, active, batch, now, kills, faults>>

SettleDone ==
    /\ phase = "settle"
    /\ DOMAIN results = {}
    /\ Leave("cooldown")
    /\ UNCHANGED <<table, active, now, kills, faults>>

\* One turn of the loop of the catch block.
FailOne(m) ==
    /\ phase = "fail"
    /\ First(unmarked, m)
    /\ IF fault = "retryable" /\ retries[m] + 1 < MaxRetries
       THEN MarkErrorWithBackoff(m)
       ELSE IF fault = "conflict" THEN MarkEnded(m, "conflict") ELSE MarkPermanentError(m)
    /\ unmarked' = unmarked \ {m}
    /\ UNCHANGED <<createdAt, phase, active, batch, results, fault, now, kills, faults>>

FailDone ==
    /\ phase = "fail"
    /\ unmarked = {}
    /\ Leave(IF fault = "retryable" THEN "idle" ELSE "cooldown")
    /\ UNCHANGED <<table, active, now, kills, faults>>

\* A statement outside the inner try throws: the drain ends, its rows stay.
DrainThrows ==
    /\ "localStore" \in faults
    /\ phase \in {"fetch", "claim", "fail"}
    /\ Leave("idle")
    /\ UNCHANGED <<table, active, now, kills, faults>>

CooldownEnds ==
    /\ phase = "cooldown"
    /\ phase' = "fetch"
    /\ UNCHANGED <<table, active, batch, results, fault, unmarked, now, kills, faults>>

-------------------------------------------------------------------------------

\* The worker's own steps once it drains, the request excepted.
Drain ==
    \/ Fetch
    \/ Claim
    \/ \E m \in Mutations : SettleOne(m) \/ FailOne(m)
    \/ SettleThrows
    \/ SettleDone
    \/ FailDone
    \/ DrainThrows
    \/ CooldownEnds

\* The request ends: the server answers each mutation (or, "malformed", with a
\* body that lacks results), or it fails.
RequestEnds ==
    \/ \E rs \in [batch -> ResultStatus] : Receive(rs)
    \/ "malformed" \in faults /\ \E some \in SUBSET batch, rs \in [batch -> ResultStatus] :
                                    Receive([m \in some |-> rs[m]])
    \/ \E f \in Fault \ {"none"} : RequestFails(f)

Environment ==
    \/ \E m \in Mutations : Enqueue(m) \/ BackoffElapses(m)
    \/ NextSecond
    \/ Start
    \/ Kill
    \/ ConnectivityRestored
    \/ Pause
    \/ Resume

Next == Drain \/ RequestEnds \/ Environment

Spec == Init /\ [][Next]_queueVars

\* The app runs its microtasks, requests end (the client has a timeout), the
\* clock advances, and a killed or paused app comes back.
Fairness ==
    /\ WF_queueVars(Drain)
    /\ WF_queueVars(RequestEnds)
    /\ WF_queueVars(Start)
    /\ WF_queueVars(Resume)
    /\ \A m \in Mutations : WF_queueVars(BackoffElapses(m))

FairSpec == Spec /\ Fairness

\* In addition connectivity events keep coming, as on a phone on the move.
MobileSpec == FairSpec /\ SF_queueVars(phase = "idle" /\ active /\ ConnectivityRestored)

-------------------------------------------------------------------------------
(* Properties. *)

\* Unless a local statement throws or a response lacks results, a row is
\* 'sending' only while the worker holds it in the batch it is busy with, or no
\* process runs (Start recovers it): no early return, pause, kill or failed
\* request of the drain loop strands a row in flight.
InFlightIsHeld ==
    faults = {} => \A m \in Mutations : status[m] = "sending" =>
        \/ phase = "down"
        \/ phase = "post" /\ m \in batch
        \/ phase = "settle" /\ m \in DOMAIN results
        \/ phase = "fail" /\ m \in unmarked

\* As long as the local statements work, a mutation the server has answered
\* "success" or "conflict" is never queued again: no retry, recovery or
\* failure path of the worker touches its row.
AnsweredIsFinal ==
    [][\A m \in Mutations :
          "localStore" \notin faults /\ status[m] \in {"success", "conflict"}
              => status'[m] = status[m]]_queueVars

\* Among rows that never failed, one created in an earlier second is never
\* left behind when a later one is sent (fetchEligible's ORDER BY and LIMIT).
OlderPendingGoesFirst ==
    phase = "post" =>
        \A m \in batch, k \in Mutations \ batch :
            status[k] = "pending" => createdAt[k] >= createdAt[m]

\* The rows leave the queue in an orderly way: none is stranded in flight, none
\* is overtaken by one of a later second.
RowsGoInOrder == InFlightIsHeld /\ OlderPendingGoesFirst

\* The app is not paused over and over.
Foreground == <>[]active

\* The rows given up with a next_retry_at: they stay eligible, are sent again
\* and can fill a batch.
Poison == {m \in permanent : retryAt[m] # "null"}

\* While events keep coming and nothing goes wrong locally, every enqueued
\* mutation is eventually answered or given up, whatever kills, early returns
\* and lost wakeups there are: only given-up rows that fill the batch can keep
\* it waiting.
EventuallySettled ==
    faults = {} /\ Foreground => \A m \in Mutations :
        status[m] = "pending" ~>
            \/ status[m] \in {"success", "conflict"}
            \/ m \in permanent
            \/ Cardinality(Poison) >= BatchLimit

===============================================================================
