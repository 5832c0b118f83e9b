------------------------------ MODULE OfflineSync ------------------------------
(***************************************************************************)
(* The phone's queue (SyncQueue) and the server (SyncServer) joined by the  *)
(* HTTP requests of SyncApiClient.postMutations.  The phone awaits one       *)
(* request at a time, but a request it gave up on (timeout, killed process)  *)
(* may still reach the server, or be running there, when the next one comes. *)
(***************************************************************************)
EXTENDS Naturals, FiniteSets, Sequences

CONSTANTS
    Mutations, BatchLimit, MaxRetries, MaxSeconds, MaxKills,    \* of SyncQueue
    Calls,              \* the requests that can be under way at once
    WorkflowMutations, NoMutation, MaxDispatches,               \* of ActionDispatcher
    NoCall,             \* what the phone awaits when it awaits nothing
    RefusalModels,      \* which sets of reasons for a refusal are looked at: "token"
                        \* (the access token has expired: 401), "header" (no
                        \* X-Client-Mutation-Id: 400)
    MaxCrashes          \* bound: how many times the server process ends

ASSUME OfflineAssumption ==
    /\ Mutations \subseteq Nat /\ IsFiniteSet(Mutations)
    /\ BatchLimit \in Nat \ {0} /\ MaxRetries \in Nat \ {0} /\ MaxSeconds \in Nat /\ MaxKills \in Nat
    /\ WorkflowMutations \subseteq Mutations /\ NoMutation \notin Mutations /\ MaxDispatches \in Nat
    /\ NoCall \notin Calls
    /\ RefusalModels \subseteq SUBSET {"token", "header"}
    /\ MaxCrashes \in Nat

VARIABLES
    status, retries, retryAt, createdAt, now, phase, active, batch,
    results, fault, unmarked, permanent, kills,       \* the phone
    row, applied, erred, pc, subject, reply, dispatches,
    stage, todo, answers,                                       \* the server
    transit,    \* transit[r]: the body of request r on its way, <<>> if none
    awaited,    \* the request the phone waits for
    disputed,   \* history: the mutations whose handler threw a conflict
    crashes,    \* how many times the server process ended
    refusals    \* why requests are refused in this behaviour

Phone == INSTANCE SyncQueue WITH FaultModels <- {{}}, faults <- {}

Server == INSTANCE SyncServer

phoneVars == <<status, retries, retryAt, createdAt, now, phase, active, batch,
               results, fault, unmarked, permanent, kills>>
serverVars == <<row, applied, erred, pc, subject, reply, dispatches, stage, todo, answers>>
netVars == <<transit, awaited>>
vars == <<phoneVars, serverVars, netVars, disputed, crashes, refusals>>

TypeOK ==
    /\ Phone!TypeOK
    /\ Server!ServerTypeOK
    /\ transit \in [Calls -> Seq(Mutations)]
    /\ awaited \in Calls \cup {NoCall}
    /\ awaited # NoCall <=> phase = "post"
    /\ disputed \in SUBSET Mutations
    /\ crashes \in 0 .. MaxCrashes
    /\ refusals \in RefusalModels

Init ==
    /\ Phone!Init
    /\ Server!ServerInit
    /\ transit = [r \in Calls |-> <<>>]
    /\ awaited = NoCall
    /\ disputed = {}
    /\ crashes = 0
    /\ refusals \in RefusalModels

\* The rows of S as fetchEligible orders them.
InOrder(S) ==
    [i \in 1 .. Cardinality(S) |->
        CHOOSE m \in S : Cardinality({k \in S : Phone!Before(k, m)}) = i - 1]

Free(r) == transit[r] = <<>> /\ stage[r] = "free"

StopWaiting == awaited' = NoCall

-------------------------------------------------------------------------------
(* The phone. *)

\* A claimed batch leaves as the body of a request.
Post(r) ==
    /\ Free(r)
    /\ batch # {}
    /\ Phone!Claim
    /\ transit' = [transit EXCEPT ![r] = InOrder(batch)]
    /\ awaited' = r
    /\ UNCHANGED <<serverVars, disputed, crashes, refusals>>

\* Every step of the worker that sends nothing.
Work ==
    /\ \/ phase # "claim" /\ Phone!Drain
       \/ batch = {} /\ Phone!Claim
    /\ UNCHANGED <<serverVars, netVars, disputed, crashes, refusals>>

\* The events of the phone; a killed process waits for nothing.
Event ==
    /\ Phone!Environment
    /\ IF phase' = "down" THEN StopWaiting ELSE UNCHANGED awaited
    /\ UNCHANGED <<serverVars, transit, disputed, crashes, refusals>>

\* connectTimeout or receiveTimeout, or the connection breaks.
GiveUp ==
    /\ Phone!RequestFails("retryable")
    /\ StopWaiting
    /\ UNCHANGED <<serverVars, transit, disputed, crashes, refusals>>

-------------------------------------------------------------------------------
(* The network and the server. *)

\* The interceptor insists on a header that SyncApiClient does not send: unless
\* something on the way adds it, no request gets through.
Deliver(r) ==
    /\ "header" \notin refusals
    /\ transit[r] # <<>>
    /\ Server!Accept(r, transit[r])
    /\ transit' = [transit EXCEPT ![r] = <<>>]
    /\ UNCHANGED <<phoneVars, awaited, disputed, crashes, refusals>>

\* A guard or the interceptor answers 401 or 400, which is not retryable.
Refuse(r) ==
    /\ refusals # {}
    /\ transit[r] # <<>>
    /\ transit' = [transit EXCEPT ![r] = <<>>]
    /\ IF awaited = r
       THEN Phone!RequestFails("fatal") /\ StopWaiting
       ELSE UNCHANGED <<phoneVars, awaited>>
    /\ UNCHANGED <<serverVars, disputed, crashes, refusals>>

Lose(r) ==
    /\ transit[r] # <<>>
    /\ transit' = [transit EXCEPT ![r] = <<>>]
    /\ UNCHANGED <<phoneVars, serverVars, awaited, disputed, crashes, refusals>>

Process(r) ==
    /\ Server!Serve(r)
    /\ disputed' = IF pc[r] = "handler" /\ pc'[r] = "failure" /\ reply'[r] = "conflict"
                   THEN disputed \cup {subject[r]} ELSE disputed
    /\ UNCHANGED <<phoneVars, netVars, crashes, refusals>>

\* The response reaches the phone, or nobody.
Respond(r) ==
    /\ Server!Release(r)
    /\ IF awaited = r
       THEN Phone!Receive(answers[r]) /\ StopWaiting
       ELSE UNCHANGED <<phoneVars, awaited>>
    /\ UNCHANGED <<transit, disputed, crashes, refusals>>

ServerRestart ==
    /\ crashes < MaxCrashes
    /\ crashes' = crashes + 1
    /\ Server!ServerCrash
    /\ UNCHANGED <<phoneVars, netVars, disputed, refusals>>

-------------------------------------------------------------------------------

Next ==
    \/ Work
    \/ Event
    \/ GiveUp
    \/ ServerRestart
    \/ \E r \in Calls :
          Post(r) \/ Deliver(r) \/ Refuse(r) \/ Lose(r) \/ Process(r) \/ Respond(r)

Spec == Init /\ [][Next]_vars

\* The phone's fairness (SyncQueue), the client's timeout, and a server that
\* goes on with what it accepted.  A request leaves the network in the end, but
\* every one may be lost.
FairSpec ==
    /\ Spec
    /\ WF_vars(Work)
    /\ WF_vars(GiveUp)
    /\ WF_vars(\E r \in Calls : Post(r))
    /\ WF_vars(Event /\ Phone!Start)
    /\ WF_vars(Event /\ Phone!Resume)
    /\ \A m \in Mutations : WF_vars(Event /\ Phone!BackoffElapses(m))
    /\ SF_vars(Event /\ phase = "idle" /\ active /\ Phone!ConnectivityRestored)
    /\ \A r \in Calls : /\ WF_vars(Process(r)) /\ WF_vars(Respond(r))
                        /\ WF_vars(Deliver(r) \/ Refuse(r) \/ Lose(r))

-------------------------------------------------------------------------------
(* Properties. *)

FateOf(m) ==
    CASE status[m] = "absent" -> "none"
      [] status[m] = "success" -> "confirmed"
      [] status[m] = "conflict" -> "conflict"
      [] OTHER -> "waiting"

Abstract == INSTANCE Outbox WITH
    fate <- [m \in Mutations |-> FateOf(m)],
    effects <- {m \in Mutations : applied[m] > 0}

\* The phone, the network and the server together keep the promise of Outbox:
\* nothing takes effect that was not enqueued, a row becomes 'success' only
\* when its effect is in the server's database, and both answers are final,
\* through lost requests, timeouts, kills, restarts and concurrent requests.
KeepsPromise == Abstract!OutboxSpec

\* Every enqueued mutation is answered or given up in the end, whatever the
\* network loses, as long as the app is not paused over and over.
Settles ==
    Phone!Foreground => \A m \in Mutations :
        status[m] = "pending" ~> status[m] \in {"success", "conflict"} \/ m \in permanent

\* A mutation that the phone sent once is reported as a conflict only when the
\* handler found one; a retry may be refused because of its own first attempt.
ConflictIsGenuine ==
    \A m \in Mutations : status[m] = "conflict" =>
        m \in disputed \/ retries[m] > 0 \/ kills > 0

\* STORY-034, AC-13: sending again after a kill makes no duplicate.
NoDuplicate == \A m \in Mutations : applied[m] <= 1
===============================================================================
