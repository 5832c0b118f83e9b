---------------------------- MODULE SyncQueue_proofs ----------------------------
(***************************************************************************)
(* Proofs about SyncQueue for any finite set of mutations, any batch size,  *)
(* number of tries, seconds and kills, and any combination of faults.       *)
(***************************************************************************)
EXTENDS SyncQueue, FiniteSetTheorems, TLAPS

\* What the loops of the drain have still to go through is in flight, and what
\* has been fetched has not been answered.  A local statement that throws sends
\* the loop of the catch block over rows that were answered before.
WorkIsInFlight ==
    "localStore" \notin faults =>
        /\ phase = "claim" => \A m \in batch : status[m] \in {"pending", "error"}
        /\ phase = "post" => \A m \in batch : status[m] = "sending"
        /\ phase = "settle" => \A m \in DOMAIN results : status[m] = "sending"
        /\ phase = "fail" => \A m \in unmarked : status[m] = "sending"

\* From the query to the request no row that is left out is older than one that
\* is in the batch: the rows that come meanwhile are created now.
BatchIsOldest ==
    /\ \A m \in Mutations : createdAt[m] <= now
    /\ phase \in {"claim", "post"} =>
          /\ \A m \in batch : status[m] # "absent"
          /\ \A m \in batch, k \in Mutations \ batch : status[k] = "pending" => createdAt[k] >= createdAt[m]

-------------------------------------------------------------------------------

\* TypeOK in two parts: the results are a function on some rows of the batch.
Answers(rows, rs) == \E answered \in SUBSET rows : rs \in [answered -> ResultStatus]

Plain ==
    /\ status \in [Mutations -> Status]
    /\ retries \in [Mutations -> 0 .. MaxRetries - 1]
    /\ retryAt \in [Mutations -> {"null", "waiting", "due"}]
    /\ createdAt \in [Mutations -> 0 .. MaxSeconds]
    /\ now \in 0 .. MaxSeconds
    /\ phase \in Phase
    /\ active \in BOOLEAN
    /\ batch \in SUBSET Mutations
    /\ fault \in Fault
    /\ unmarked \in SUBSET batch
    /\ permanent \in SUBSET Mutations
    /\ kills \in 0 .. MaxKills
    /\ faults \in FaultModels

\* Between two drains nothing is left of the last one.
Tidy ==
    /\ phase # "settle" => results = NoResults
    /\ phase # "fail" => unmarked = {}

LEMMA TypeSplit == TypeOK <=> Plain /\ Answers(batch, results)
BY DEF TypeOK, Plain, Answers

LEMMA NoAnswers == \A rows : Answers(rows, NoResults)
<1>1. NoResults \in [{} -> ResultStatus]
  BY DEF NoResults
<1> QED
  BY <1>1 DEF Answers

LEMMA FewerAnswers ==
  ASSUME NEW rows, NEW rs, Answers(rows, rs), NEW m
  PROVE  Answers(rows, [k \in DOMAIN rs \ {m} |-> rs[k]])
<1>1. PICK answered \in SUBSET rows : rs \in [answered -> ResultStatus]
  BY DEF Answers
<1>2. [k \in DOMAIN rs \ {m} |-> rs[k]] \in [answered \ {m} -> ResultStatus]
  BY <1>1
<1> QED
  BY <1>1, <1>2 DEF Answers

LEMMA AnswersAreRows ==
  ASSUME NEW rows, NEW rs, Answers(rows, rs), NEW m \in DOMAIN rs
  PROVE  m \in rows /\ rs[m] \in ResultStatus
BY DEF Answers

LEMMA PlainStep == TypeOK /\ Tidy /\ [Next]_queueVars => Plain'
<1> SUFFICES ASSUME Plain, Answers(batch, results), Tidy, [Next]_queueVars PROVE Plain'
  BY TypeSplit
<1> USE QueueAssumption DEF Plain, Phase, Fault, Status, table, worker, queueVars, SetStatus, Trigger, Leave
<1>1. ASSUME NEW m \in Mutations, Enqueue(m) PROVE Plain'
  BY <1>1 DEF Enqueue
<1>2. ASSUME NEW m \in Mutations, BackoffElapses(m) PROVE Plain'
  BY <1>2 DEF BackoffElapses
<1>3. CASE NextSecond
  BY <1>3 DEF NextSecond
<1>4. CASE Start
  BY <1>4 DEF Start
<1>5. CASE Kill
  BY <1>5 DEF Kill
<1>6. CASE ConnectivityRestored \/ Pause \/ Resume
  BY <1>6 DEF ConnectivityRestored, Pause, Resume
<1>7. CASE Fetch
  BY <1>7 DEF Fetch, FetchEligible, Tidy
<1>8. CASE Claim
  BY <1>8 DEF Claim
<1>9. ASSUME NEW m \in Mutations, SettleOne(m) PROVE Plain'
  <2>1. results[m] \in ResultStatus
    BY <1>9, AnswersAreRows DEF SettleOne, First
  <2> QED
    BY <1>9, <2>1 DEF SettleOne, MarkPermanentError, MarkEnded, ResultStatus
<1>10. ASSUME NEW m \in Mutations, FailOne(m) PROVE Plain'
  <2>1. retries' \in [Mutations -> 0 .. MaxRetries - 1]
    BY <1>10 DEF FailOne, MarkPermanentError, MarkEnded, MarkErrorWithBackoff
  <2>2. status' \in [Mutations -> Status] /\ permanent' \in SUBSET Mutations
    BY <1>10 DEF FailOne, MarkPermanentError, MarkEnded, MarkErrorWithBackoff
  <2>3. retryAt' \in [Mutations -> {"null", "waiting", "due"}]
    BY <1>10 DEF FailOne, MarkPermanentError, MarkEnded, MarkErrorWithBackoff
  <2>4. UNCHANGED <<createdAt, phase, active, batch, fault, now, kills, faults>> /\ unmarked' \subseteq unmarked
    BY <1>10 DEF FailOne
  <2> QED
    BY <2>1, <2>2, <2>3, <2>4
<1>11. CASE SettleThrows \/ SettleDone \/ FailDone \/ DrainThrows \/ CooldownEnds
  BY <1>11 DEF SettleThrows, SettleDone, FailDone, DrainThrows, CooldownEnds
<1>12. CASE RequestEnds
  <2>1. /\ UNCHANGED <<status, retries, retryAt, createdAt, permanent, active, batch, now, kills, faults>>
        /\ phase' \in Phase /\ fault' \in Fault /\ unmarked' \in {unmarked, batch}
    BY <1>12 DEF RequestEnds, Receive, RequestFails
  <2> QED
    BY <2>1
<1>13. CASE UNCHANGED queueVars
  BY <1>13
<1> HIDE DEF Plain
<1> QED
  BY <1>1, <1>2, <1>3, <1>4, <1>5, <1>6, <1>7, <1>8, <1>9, <1>10, <1>11, <1>12, <1>13
     DEF Next, Drain, Environment

LEMMA AnswersStep == TypeOK /\ Tidy /\ [Next]_queueVars => Answers(batch, results)'
<1> SUFFICES ASSUME Plain, Answers(batch, results), Tidy, [Next]_queueVars PROVE Answers(batch', results')
  BY TypeSplit DEF Answers
<1> USE DEF worker, queueVars, Leave
<1>1. CASE UNCHANGED <<batch, results>>
  BY <1>1
<1>2. CASE results' = NoResults
  BY <1>2, NoAnswers
<1>3. ASSUME NEW m \in Mutations, SettleOne(m) PROVE Answers(batch', results')
  BY <1>3, FewerAnswers DEF SettleOne
<1>4. ASSUME NEW some \in SUBSET batch, NEW rs \in [batch -> ResultStatus], Receive([m \in some |-> rs[m]])
      PROVE  Answers(batch', results')
  <2>1. [m \in some |-> rs[m]] \in [some -> ResultStatus]
    OBVIOUS
  <2> QED
    BY <1>4, <2>1 DEF Receive, Answers
<1>5. ASSUME NEW rs \in [batch -> ResultStatus], Receive(rs) PROVE Answers(batch', results')
  BY <1>5 DEF Receive, Answers
<1>6. CASE Fetch
  BY <1>6, NoAnswers DEF Fetch, Tidy
<1> QED
  BY <1>1, <1>2, <1>3, <1>4, <1>5, <1>6
     DEF Next, Drain, Environment, RequestEnds, RequestFails, Enqueue, BackoffElapses, NextSecond, Start, Kill,
         ConnectivityRestored, Pause, Resume, Fetch, Claim, FailOne, SettleThrows, SettleDone, FailDone, DrainThrows,
         CooldownEnds

LEMMA TidyStep == Tidy /\ [Next]_queueVars => Tidy'
<1> SUFFICES ASSUME Tidy, [Next]_queueVars PROVE Tidy'
  OBVIOUS
<1> USE DEF Tidy, worker, queueVars, Leave, Trigger
<1>1. CASE Drain
  <2>1. ASSUME NEW m \in Mutations, SettleOne(m) \/ FailOne(m) PROVE Tidy'
    BY <2>1 DEF SettleOne, FailOne
  <2> QED
    BY <1>1, <2>1 DEF Drain, Fetch, Claim, SettleThrows, SettleDone, FailDone, DrainThrows, CooldownEnds
<1>2. CASE RequestEnds
  BY <1>2 DEF RequestEnds, Receive, RequestFails
<1>3. CASE Environment \/ UNCHANGED queueVars
  BY <1>3 DEF Environment, Enqueue, BackoffElapses, NextSecond, Start, Kill, ConnectivityRestored, Pause, Resume
<1> QED
  BY <1>1, <1>2, <1>3 DEF Next

LEMMA AlwaysTyped == Spec => [](TypeOK /\ Tidy)
<1>1. Init => TypeOK /\ Tidy
  BY QueueAssumption, NoAnswers, TypeSplit DEF Init, Plain, Tidy, Phase, Fault, Status
<1>2. TypeOK /\ Tidy /\ [Next]_queueVars => TypeOK' /\ Tidy'
  <2>1. Plain' /\ Answers(batch, results)' => TypeOK'
    BY TypeSplit DEF TypeOK, Plain, Answers
  <2> QED
    BY <2>1, PlainStep, AnswersStep, TidyStep
<1> QED
  BY <1>1, <1>2, PTL DEF Spec

\* The columns and the worker's fields keep their types: retry_count stays below
\* maxRetries, and the results and the rows still to be marked are rows of the
\* batch, whatever throws in the middle of a loop.
THEOREM TypeCorrect == Spec => []TypeOK
BY AlwaysTyped, PTL

-------------------------------------------------------------------------------

\* The columns' part of TypeOK, for the steps of the loops.
LEMMA Columns ==
  ASSUME TypeOK
  PROVE  /\ status \in [Mutations -> Status] /\ batch \subseteq Mutations /\ unmarked \subseteq batch
         /\ \A m \in DOMAIN results : m \in batch /\ results[m] \in ResultStatus
BY TypeSplit, AnswersAreRows DEF Plain

LEMMA AlwaysInFlight == Spec => []WorkIsInFlight
<1>1. Init => WorkIsInFlight
  BY DEF Init, WorkIsInFlight
<1>2. TypeOK /\ Tidy /\ WorkIsInFlight /\ [Next]_queueVars => WorkIsInFlight'
  <2> SUFFICES ASSUME TypeOK, Tidy, WorkIsInFlight, [Next]_queueVars PROVE WorkIsInFlight'
    OBVIOUS
  <2> USE Columns DEF WorkIsInFlight, Tidy, table, worker, queueVars, SetStatus, Leave, Trigger
  <2>1. ASSUME NEW m \in Mutations, Enqueue(m) \/ BackoffElapses(m) PROVE WorkIsInFlight'
    BY <2>1 DEF Enqueue, BackoffElapses
  <2>2. CASE NextSecond \/ Start \/ Kill \/ ConnectivityRestored \/ Pause \/ Resume
    BY <2>2 DEF NextSecond, Start, Kill, ConnectivityRestored, Pause, Resume
  <2>3. CASE Fetch
    BY <2>3 DEF Fetch, FetchEligible, Eligible
  <2>4. CASE Claim
    BY <2>4 DEF Claim
  <2>5. ASSUME NEW m \in Mutations, SettleOne(m) PROVE WorkIsInFlight'
    BY <2>5 DEF SettleOne, MarkPermanentError, MarkEnded
  <2>6. ASSUME NEW m \in Mutations, FailOne(m) PROVE WorkIsInFlight'
    BY <2>6 DEF FailOne, MarkErrorWithBackoff, MarkPermanentError, MarkEnded
  <2>7. CASE SettleThrows \/ SettleDone \/ FailDone \/ DrainThrows \/ CooldownEnds
    BY <2>7 DEF SettleThrows, SettleDone, FailDone, DrainThrows, CooldownEnds
  <2>8. CASE RequestEnds
    BY <2>8 DEF RequestEnds, Receive, RequestFails
  <2>9. CASE UNCHANGED queueVars
    BY <2>9
  <2> HIDE DEF WorkIsInFlight
  <2> QED
    BY <2>1, <2>2, <2>3, <2>4, <2>5, <2>6, <2>7, <2>8, <2>9 DEF Next, Drain, Environment
<1> QED
  BY <1>1, <1>2, AlwaysTyped, PTL DEF Spec

\* As long as the local statements work, a row that the server has answered is
\* left alone by every retry, recovery and failure path of the worker.
THEOREM AnswersAreFinal == Spec => AnsweredIsFinal
<1>1. TypeOK /\ Tidy /\ WorkIsInFlight /\ [Next]_queueVars
        => [\A m \in Mutations : "localStore" \notin faults /\ status[m] \in {"success", "conflict"}
                                   => status'[m] = status[m]]_queueVars
  <2> SUFFICES ASSUME TypeOK, Tidy, WorkIsInFlight, Next, "localStore" \notin faults,
                      NEW m \in Mutations, status[m] \in {"success", "conflict"}
               PROVE  status'[m] = status[m]
    OBVIOUS
  <2> USE Columns DEF WorkIsInFlight, SetStatus, table, worker, queueVars
  <2>1. ASSUME NEW k \in Mutations, SettleOne(k) \/ FailOne(k) PROVE status'[m] = status[m]
    BY <2>1 DEF SettleOne, FailOne, First, MarkErrorWithBackoff, MarkPermanentError, MarkEnded
  <2>2. ASSUME NEW k \in Mutations, Enqueue(k) \/ BackoffElapses(k) PROVE status'[m] = status[m]
    BY <2>2 DEF Enqueue, BackoffElapses
  <2>3. CASE Claim \/ Start
    BY <2>3 DEF Claim, Start
  <2>4. CASE UNCHANGED status
    BY <2>4
  <2> HIDE DEF WorkIsInFlight
  <2> QED
    BY <2>1, <2>2, <2>3, <2>4
       DEF Next, Drain, Environment, RequestEnds, Receive, RequestFails, NextSecond, Kill, ConnectivityRestored, Pause,
           Resume, Fetch, SettleThrows, SettleDone, FailDone, DrainThrows, CooldownEnds
<1> QED
  BY <1>1, AlwaysTyped, AlwaysInFlight, PTL DEF Spec, AnsweredIsFinal

-------------------------------------------------------------------------------

LEMMA AlwaysHeld == Spec => []InFlightIsHeld
<1>1. Init => InFlightIsHeld
  BY DEF Init, InFlightIsHeld
<1>2. TypeOK /\ Tidy /\ InFlightIsHeld /\ [Next]_queueVars => InFlightIsHeld'
  <2> SUFFICES ASSUME TypeOK, Tidy, InFlightIsHeld, [Next]_queueVars PROVE InFlightIsHeld'
    OBVIOUS
  <2> USE Columns DEF InFlightIsHeld, Tidy, table, worker, queueVars, SetStatus, Leave, Trigger
  <2>1. ASSUME NEW m \in Mutations, Enqueue(m) \/ BackoffElapses(m) PROVE InFlightIsHeld'
    BY <2>1 DEF Enqueue, BackoffElapses
  <2>2. CASE NextSecond \/ Start \/ Kill \/ ConnectivityRestored \/ Pause \/ Resume
    BY <2>2 DEF NextSecond, Start, Kill, ConnectivityRestored, Pause, Resume
  <2>3. CASE Fetch \/ Claim
    BY <2>3 DEF Fetch, Claim
  <2>4. ASSUME NEW m \in Mutations, SettleOne(m) PROVE InFlightIsHeld'
    BY <2>4 DEF SettleOne, First, MarkPermanentError, MarkEnded, ResultStatus
  <2>5. ASSUME NEW m \in Mutations, FailOne(m) PROVE InFlightIsHeld'
    BY <2>5 DEF FailOne, First, MarkErrorWithBackoff, MarkPermanentError, MarkEnded
  <2>6. CASE SettleThrows \/ SettleDone \/ FailDone \/ DrainThrows \/ CooldownEnds
    BY <2>6 DEF SettleThrows, SettleDone, FailDone, DrainThrows, CooldownEnds
  <2>7. CASE RequestEnds
    BY <2>7 DEF RequestEnds, Receive, RequestFails
  <2>8. CASE UNCHANGED queueVars
    BY <2>8
  <2> HIDE DEF InFlightIsHeld
  <2> QED
    BY <2>1, <2>2, <2>3, <2>4, <2>5, <2>6, <2>7, <2>8 DEF Next, Drain, Environment
<1> QED
  BY <1>1, <1>2, AlwaysTyped, PTL DEF Spec

\* fetchEligible leaves out no pending row that is older than one it returns:
\* what comes before the older row comes before the younger one too.
LEMMA FetchTakesOldest ==
  ASSUME Plain, NEW m \in FetchEligible, NEW k \in Mutations \ FetchEligible, status[k] = "pending"
  PROVE  createdAt[k] >= createdAt[m]
<1> DEFINE eligible == {j \in Mutations : Eligible(j)}
           earlier(x) == {j \in eligible : Before(j, x)}
<1> USE QueueAssumption
<1>1. \A x \in eligible : x \in FetchEligible <=> Cardinality(earlier(x)) < BatchLimit
  BY DEF FetchEligible
<1>2. m \in eligible /\ k \in eligible
  BY DEF FetchEligible, Eligible
<1>3. createdAt \in [Mutations -> Nat] /\ \A j \in eligible : j \in Nat /\ j \in Mutations
  BY DEF Plain
<1>4. SUFFICES ASSUME createdAt[k] < createdAt[m] PROVE FALSE
  BY <1>2, <1>3
<1>5. earlier(k) \subseteq earlier(m)
  <2> SUFFICES ASSUME NEW j \in eligible, Before(j, k) PROVE Before(j, m)
    OBVIOUS
  <2>1. createdAt[j] \in Nat /\ createdAt[k] \in Nat /\ createdAt[m] \in Nat
    BY <1>2, <1>3
  <2> QED
    BY <2>1, <1>4 DEF Before
<1>6. IsFiniteSet(earlier(m))
  BY FS_Subset
<1>7. /\ Cardinality(earlier(k)) \in Nat
      /\ Cardinality(earlier(m)) \in Nat
      /\ Cardinality(earlier(k)) <= Cardinality(earlier(m))
  BY <1>5, <1>6, FS_Subset, FS_CardinalityType
<1> HIDE DEF earlier, eligible
<1> QED
  BY <1>1, <1>2, <1>7

LEMMA AlwaysOldest == Spec => []BatchIsOldest
<1>1. Init => BatchIsOldest
  BY DEF Init, BatchIsOldest
<1>2. TypeOK /\ BatchIsOldest /\ [Next]_queueVars => BatchIsOldest'
  <2> SUFFICES ASSUME Plain, BatchIsOldest, [Next]_queueVars PROVE BatchIsOldest'
    BY TypeSplit
  <2> USE QueueAssumption DEF Plain, BatchIsOldest, table, worker, queueVars, SetStatus, Leave, Trigger
  <2>1. ASSUME NEW m \in Mutations, Enqueue(m) PROVE BatchIsOldest'
    BY <2>1 DEF Enqueue
  <2>2. CASE NextSecond
    BY <2>2 DEF NextSecond
  <2>3. CASE Fetch
    <3>1. CASE active
      <4>1. \A m \in FetchEligible : m \in Mutations /\ status[m] # "absent"
        BY DEF FetchEligible, Eligible
      <4> QED
        BY <2>3, <3>1, <4>1, FetchTakesOldest DEF Fetch
    <3>2. CASE ~ active
      BY <2>3, <3>2 DEF Fetch
    <3> QED
      BY <3>1, <3>2
  <2>4. CASE Claim
    BY <2>4 DEF Claim
  <2>5. CASE Start
    BY <2>5 DEF Start
  <2>6. ASSUME NEW m \in Mutations, SettleOne(m) \/ FailOne(m) PROVE BatchIsOldest'
    BY <2>6 DEF SettleOne, FailOne
  <2>7. CASE phase' \notin {"claim", "post"} /\ UNCHANGED <<createdAt, now>>
    BY <2>7
  <2>8. CASE UNCHANGED <<createdAt, now, status, batch, phase>>
    BY <2>8
  <2> HIDE DEF BatchIsOldest
  <2> QED
    BY <2>1, <2>2, <2>3, <2>4, <2>5, <2>6, <2>7, <2>8
       DEF Next, Drain, Environment, RequestEnds, Receive, RequestFails, BackoffElapses, Kill, ConnectivityRestored,
           Pause, Resume, SettleThrows, SettleDone, FailDone, DrainThrows, CooldownEnds
<1> QED
  BY <1>1, <1>2, AlwaysTyped, PTL DEF Spec

\* No kill, pause or failed request strands a row in flight, and no batch size
\* lets a row overtake an older one that never failed.
THEOREM OrderKept == Spec => []RowsGoInOrder
<1>1. TypeOK /\ BatchIsOldest => OlderPendingGoesFirst
  BY DEF BatchIsOldest, OlderPendingGoesFirst
<1> QED
  BY <1>1, AlwaysTyped, AlwaysOldest, AlwaysHeld, PTL DEF RowsGoInOrder
===============================================================================
