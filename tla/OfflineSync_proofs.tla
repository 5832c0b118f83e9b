-------------------------- MODULE OfflineSync_proofs --------------------------
(***************************************************************************)
(* Proofs about OfflineSync: the phone, the network and the server keep the *)
(* promise of Outbox, and a conflict that is reported for a mutation sent   *)
(* once is one that the handler found.  They hold for any set of mutations, *)
(* any number of requests under way, any batch size, number of tries, kills *)
(* and restarts, and any reasons for a refusal.                             *)
(***************************************************************************)
EXTENDS OfflineSync, FiniteSetTheorems, TLAPS

\* The proofs about the queue, read in the variables of OfflineSync.
Queue == INSTANCE SyncQueue_proofs WITH FaultModels <- {{}}, faults <- {}

Elements(s) == {s[i] : i \in 1 .. Len(s)}
NoRepeat(s) == \A i, j \in 1 .. Len(s) : s[i] = s[j] => i = j

\* A request has a body on its way, or mutations left to dispatch, the first of
\* which is the one that its call of the dispatcher works on; the one that the
\* phone waits for has the phone's batch.
RequestIsWhole(r) ==
    /\ stage[r] # "running" => pc[r] = "idle" /\ todo[r] = <<>>
    /\ transit[r] # <<>> => stage[r] = "free"
    /\ pc[r] # "idle" => todo[r] # <<>> /\ subject[r] = Head(todo[r])
    /\ pc[r] = "failure" => reply[r] \in {"conflict", "error"}
    /\ pc[r] = "done" => reply[r] # "none"
    /\ NoRepeat(transit[r]) /\ NoRepeat(todo[r])
    /\ awaited = r =>
          /\ transit[r] # <<>> => Elements(transit[r]) = batch
          /\ stage[r] # "free" => DOMAIN answers[r] \cup Elements(todo[r]) = batch

OneAnswerEach == answers = [r \in Calls |-> answers[r]]

Wellformed ==
    /\ TypeOK /\ Queue!Tidy /\ OneAnswerEach
    /\ \A r \in Calls : RequestIsWhole(r)

-------------------------------------------------------------------------------
(* Lists *)

LEMMA RestOfList ==
  ASSUME NEW S, NEW s \in Seq(S), s # <<>>, NoRepeat(s)
  PROVE  /\ Tail(s) \in Seq(S) /\ NoRepeat(Tail(s)) /\ Head(s) \in S
         /\ Elements(Tail(s)) = Elements(s) \ {Head(s)} /\ Head(s) \in Elements(s)
<1> DEFINE n == Len(s)
           t == Tail(s)
<1>1. n \in Nat /\ n >= 1 /\ Head(s) = s[1] /\ \A i \in 1 .. n : s[i] \in S
  OBVIOUS
<1>2. /\ t \in Seq(S) /\ Len(t) = n - 1
      /\ \A i \in 1 .. n - 1 : t[i] = s[i + 1] /\ i + 1 \in 1 .. n
  BY <1>1
<1>3. \A i \in 1 .. n : i = 1 \/ (i - 1 \in 1 .. n - 1 /\ t[i - 1] = s[i])
  BY <1>1, <1>2
<1> HIDE DEF n, t
<1>4. NoRepeat(t)
  BY <1>1, <1>2 DEF NoRepeat, n
<1>5. ASSUME NEW x PROVE x \in Elements(t) <=> x \in Elements(s) /\ x # s[1]
  <2>1. ASSUME NEW i \in 1 .. n - 1, t[i] = x PROVE x \in Elements(s) /\ x # s[1]
    <3>1. i + 1 \in 1 .. n /\ 1 \in 1 .. n /\ s[i + 1] = x /\ i + 1 # 1
      BY <1>1, <1>2, <2>1
    <3> QED
      BY <3>1 DEF Elements, NoRepeat, n
  <2>2. ASSUME NEW i \in 1 .. n, s[i] = x, x # s[1] PROVE x \in Elements(t)
    BY <1>2, <1>3, <2>2 DEF Elements
  <2> QED
    BY <1>2, <2>1, <2>2 DEF Elements, n
<1>6. Head(s) \in Elements(s)
  BY <1>1 DEF Elements, n
<1> QED
  BY <1>1, <1>2, <1>4, <1>5, <1>6 DEF t

LEMMA EmptyList == Elements(<<>>) = {} /\ NoRepeat(<<>>)
BY DEF Elements, NoRepeat

\* s lists the elements of S by their number of elements above.
IsRanking(s, S, above) ==
    /\ s = [i \in 1 .. Cardinality(S) |-> s[i]]
    /\ \A i \in 1 .. Cardinality(S) :
          (\E x \in S : Cardinality(above[x]) = i - 1) => s[i] \in S /\ Cardinality(above[s[i]]) = i - 1

\* A finite set in the order of a strict total order, above[x] being what comes
\* before x: the element with i - 1 others above it is the i-th one.
LEMMA Ranked ==
  ASSUME NEW S, IsFiniteSet(S), NEW above \in [S -> SUBSET S],
         \A x \in S : x \notin above[x],
         \A x, y \in S : y \in above[x] => above[y] \subseteq above[x],
         \A x, y \in S : x = y \/ y \in above[x] \/ x \in above[y],
         NEW s, IsRanking(s, S, above)
  PROVE  /\ s \in Seq(S) /\ Len(s) = Cardinality(S)
         /\ \A x \in S : \E i \in 1 .. Len(s) : s[i] = x
         /\ \A i, j \in 1 .. Len(s) : i < j => s[i] \in above[s[j]]
<1> DEFINE n == Cardinality(S)
           rank == [x \in S |-> Cardinality(above[x])]
<1>1. n \in Nat
  BY FS_CardinalityType
<1>2. ASSUME NEW x \in S PROVE IsFiniteSet(above[x]) /\ Cardinality(above[x]) \in 0 .. n - 1
  <2>1. above[x] \in SUBSET S /\ above[x] # S
    OBVIOUS
  <2>2. IsFiniteSet(above[x]) /\ Cardinality(above[x]) <= n /\ Cardinality(above[x]) # n
    BY <2>1, FS_Subset
  <2>3. Cardinality(above[x]) \in Nat
    BY <2>2, FS_CardinalityType
  <2> QED
    BY <1>1, <2>2, <2>3
<1>3. ASSUME NEW x \in S, NEW y \in S, y \in above[x] PROVE rank[y] < rank[x]
  <2>1. above[y] \in SUBSET above[x] /\ above[y] # above[x]
    BY <1>3
  <2>2. Cardinality(above[y]) <= Cardinality(above[x]) /\ Cardinality(above[y]) # Cardinality(above[x])
    BY <1>2, <2>1, FS_Subset
  <2> QED
    BY <1>2, <2>2
<1>4. rank \in [S -> 0 .. n - 1]
  BY <1>2
<1>5. \A x, y \in S : rank[x] = rank[y] => x = y
  BY <1>3, <1>4
<1>6. \A k \in 0 .. n - 1 : \E x \in S : rank[x] = k
  <2>1. IsFiniteSet(0 .. n - 1) /\ Cardinality(0 .. n - 1) = n
    BY <1>1, FS_Interval
  <2>2. rank \in Injection(S, 0 .. n - 1)
    BY <1>4, <1>5 DEF Injection, IsInjective
  <2>3. rank \in Surjection(S, 0 .. n - 1)
    BY <2>1, <2>2, FS_Injection
  <2> QED
    BY <2>3 DEF Surjection
<1>7. \A i \in 1 .. n : s[i] \in S /\ rank[s[i]] = i - 1
  <2> SUFFICES ASSUME NEW i \in 1 .. n PROVE s[i] \in S /\ rank[s[i]] = i - 1
    OBVIOUS
  <2>1. \E x \in S : Cardinality(above[x]) = i - 1
    BY <1>1, <1>6
  <2> QED
    BY <2>1 DEF IsRanking
<1> HIDE DEF rank
<1>8. s \in Seq(S) /\ Len(s) = n
  <2>1. s \in [1 .. n -> S]
    BY <1>7 DEF IsRanking
  <2> HIDE DEF n
  <2> QED
    BY <1>1, <2>1
<1>9. ASSUME NEW x \in S PROVE \E i \in 1 .. Len(s) : s[i] = x
  <2> DEFINE i == rank[x] + 1
  <2>1. rank[x] \in 0 .. n - 1
    BY <1>4
  <2>2. i \in 1 .. n /\ i - 1 = rank[x]
    BY <1>1, <2>1
  <2> HIDE DEF i
  <2>3. s[i] = x
    BY <1>5, <1>7, <2>2
  <2> QED
    BY <1>8, <2>2, <2>3
<1>10. ASSUME NEW i \in 1 .. Len(s), NEW j \in 1 .. Len(s), i < j PROVE s[i] \in above[s[j]]
  <2>1. /\ s[i] \in S /\ s[j] \in S
        /\ rank[s[i]] < rank[s[j]] /\ ~ (rank[s[j]] < rank[s[i]])
        /\ rank[s[i]] # rank[s[j]]
    BY <1>7, <1>8, <1>10
  <2> QED
    BY <1>3, <2>1
<1> QED
  BY <1>8, <1>9, <1>10

\* The body of a request is the batch, each row once.
LEMMA BodyIsBatch ==
  ASSUME Phone!TypeOK
  PROVE  /\ InOrder(batch) \in Seq(Mutations) /\ NoRepeat(InOrder(batch))
         /\ Elements(InOrder(batch)) = batch
         /\ batch # {} => InOrder(batch) # <<>>
<1> DEFINE s == InOrder(batch)
           above == [m \in batch |-> {k \in batch : Phone!Before(k, m)}]
<1>1. IsFiniteSet(batch) /\ \A m \in batch : m \in Mutations /\ m \in Nat /\ createdAt[m] \in Int
  <2>1. IsFiniteSet(batch)
    BY OfflineAssumption, FS_Subset DEF Phone!TypeOK
  <2> QED
    BY <2>1, OfflineAssumption DEF Phone!TypeOK
<1>2. above \in [batch -> SUBSET batch]
  OBVIOUS
<1>3. \A m, k \in batch : k \in above[m] <=> createdAt[k] < createdAt[m] \/ (createdAt[k] = createdAt[m] /\ k < m)
  BY DEF Phone!Before
<1>4. IsRanking(s, batch, above)
  <2> DEFINE nth(i) == CHOOSE k \in batch : Cardinality({j \in batch : Phone!Before(j, k)}) = i - 1
  <2>0. InOrder(batch) = [i \in 1 .. Cardinality(batch) |-> nth(i)]
    BY DEF InOrder
  <2>1. s = [i \in 1 .. Cardinality(batch) |-> s[i]]
    <3> HIDE DEF nth
    <3> QED
      BY <2>0
  <2>2. ASSUME NEW i \in 1 .. Cardinality(batch), NEW m \in batch, Cardinality(above[m]) = i - 1
        PROVE  s[i] \in batch /\ Cardinality(above[s[i]]) = i - 1
    <3>1. s[i] = CHOOSE k \in batch : Cardinality({j \in batch : Phone!Before(j, k)}) = i - 1
      BY DEF InOrder
    <3>2. \E k \in batch : Cardinality({j \in batch : Phone!Before(j, k)}) = i - 1
      BY <2>2
    <3>3. s[i] \in batch /\ Cardinality({j \in batch : Phone!Before(j, s[i])}) = i - 1
      <4> HIDE DEF s
      <4> QED
        BY <3>1, <3>2
    <3> HIDE DEF s
    <3> QED
      BY <3>3
  <2> HIDE DEF s, above
  <2> QED
    BY <2>1, <2>2 DEF IsRanking
<1> HIDE DEF above, s
<1>5. /\ \A m \in batch : m \notin above[m]
      /\ \A m, k \in batch : m = k \/ k \in above[m] \/ m \in above[k]
  BY <1>1, <1>3
<1>6. \A m, k \in batch : k \in above[m] => above[k] \subseteq above[m]
  <2> SUFFICES ASSUME NEW m \in batch, NEW k \in batch, k \in above[m], NEW j \in above[k] PROVE j \in above[m]
    OBVIOUS
  <2>1. j \in batch
    BY <1>2
  <2> QED
    BY <1>1, <1>3, <2>1
<1>7. /\ s \in Seq(batch)
      /\ \A m \in batch : \E i \in 1 .. Len(s) : s[i] = m
      /\ \A i, j \in 1 .. Len(s) : i < j => s[i] \in above[s[j]]
  BY <1>1, <1>2, <1>4, <1>5, <1>6, Ranked
<1>8. \A i \in 1 .. Len(s) : s[i] \in batch
  BY <1>7
<1>9. NoRepeat(s)
  <2>1. \A i, j \in 1 .. Len(s) : i < j => s[i] # s[j]
    BY <1>5, <1>7, <1>8
  <2>2. \A i, j \in 1 .. Len(s) : i = j \/ i < j \/ j < i
    BY <1>7
  <2> QED
    BY <2>1, <2>2 DEF NoRepeat
<1>10. Elements(s) = batch
  BY <1>7, <1>8 DEF Elements
<1>11. s \in Seq(Mutations)
  BY <1>1, <1>7
<1> QED
  BY <1>9, <1>10, <1>11, EmptyList DEF s

-------------------------------------------------------------------------------
(* The phone's part is a behaviour of SyncQueue *)

LEMMA QueueParameters == Queue!QueueAssumption
BY OfflineAssumption DEF Queue!QueueAssumption, Queue!IsFiniteSet, IsFiniteSet

LEMMA SameTypes == (Phone!TypeOK <=> Queue!TypeOK) /\ (Phone!TypeOK' <=> Queue!TypeOK')
BY DEF Phone!TypeOK, Queue!TypeOK, Phone!Status, Queue!Status, Phone!ResultStatus, Queue!ResultStatus,
       Phone!Phase, Queue!Phase, Phone!Fault, Queue!Fault

LEMMA SameSteps == [Phone!Next]_Phone!queueVars => [Queue!Next]_Queue!queueVars
<1> USE DEF Phone!table, Queue!table, Phone!worker, Queue!worker, Phone!SetStatus, Queue!SetStatus,
            Phone!NoResults, Queue!NoResults, Phone!ResultStatus, Queue!ResultStatus, Phone!Fault, Queue!Fault,
            Phone!Trigger, Queue!Trigger, Phone!Leave, Queue!Leave
<1>1. Phone!Environment => Queue!Environment
  BY DEF Phone!Environment, Queue!Environment, Phone!Enqueue, Queue!Enqueue, Phone!NextSecond, Queue!NextSecond,
         Phone!BackoffElapses, Queue!BackoffElapses, Phone!Start, Queue!Start, Phone!Kill, Queue!Kill,
         Phone!ConnectivityRestored, Queue!ConnectivityRestored, Phone!Pause, Queue!Pause, Phone!Resume, Queue!Resume
<1>2. Phone!RequestEnds => Queue!RequestEnds
  BY DEF Phone!RequestEnds, Queue!RequestEnds, Phone!Receive, Queue!Receive, Phone!RequestFails, Queue!RequestFails
<1>3. Phone!FetchEligible = Queue!FetchEligible
  <2>1. \A S : Phone!Cardinality(S) = Queue!Cardinality(S)
    BY DEF Phone!Cardinality, Queue!Cardinality
  <2> QED
    BY <2>1 DEF Phone!FetchEligible, Queue!FetchEligible, Phone!Eligible, Queue!Eligible, Phone!Before, Queue!Before
<1>4. ASSUME NEW m \in Mutations, Phone!SettleOne(m) \/ Phone!FailOne(m) PROVE Queue!SettleOne(m) \/ Queue!FailOne(m)
  BY <1>4 DEF Phone!SettleOne, Queue!SettleOne, Phone!FailOne, Queue!FailOne, Phone!First, Queue!First,
              Phone!Before, Queue!Before, Phone!MarkEnded, Queue!MarkEnded,
              Phone!MarkPermanentError, Queue!MarkPermanentError,
              Phone!MarkErrorWithBackoff, Queue!MarkErrorWithBackoff
<1>5. Phone!Drain => Queue!Drain
  BY <1>3, <1>4 DEF Phone!Drain, Queue!Drain, Phone!Fetch, Queue!Fetch, Phone!Claim, Queue!Claim,
       Phone!SettleThrows, Queue!SettleThrows, Phone!SettleDone, Queue!SettleDone, Phone!FailDone, Queue!FailDone,
       Phone!DrainThrows, Queue!DrainThrows, Phone!CooldownEnds, Queue!CooldownEnds
<1>6. UNCHANGED Phone!queueVars => UNCHANGED Queue!queueVars
  BY DEF Phone!queueVars, Queue!queueVars
<1> QED
  BY <1>1, <1>2, <1>5, <1>6 DEF Phone!Next, Queue!Next

\* Every step leaves the phone alone or is one of the queue's: what the phone
\* receives is an answer for each row of its batch.
LEMMA PhoneSteps == Wellformed /\ [Next]_vars => [Phone!Next]_Phone!queueVars
<1> SUFFICES ASSUME Wellformed, [Next]_vars PROVE [Phone!Next]_Phone!queueVars
  OBVIOUS
<1>1. UNCHANGED phoneVars => UNCHANGED Phone!queueVars
  BY DEF phoneVars, Phone!queueVars, Phone!table, Phone!worker
<1>2. ASSUME NEW r \in Calls, Respond(r) PROVE [Phone!Next]_Phone!queueVars
  <2>1. CASE awaited = r
    <3>1. stage[r] = "answered" /\ RequestIsWhole(r) /\ Phone!Receive(answers[r])
      BY <1>2, <2>1 DEF Respond, Server!Release, Wellformed
    <3>2. todo[r] = <<>> /\ DOMAIN answers[r] \cup Elements(todo[r]) = batch
      BY <2>1, <3>1 DEF RequestIsWhole
    <3>3. PICK done \in SUBSET Mutations : answers[r] \in [done -> Server!ItemStatus]
      BY DEF Wellformed, TypeOK, Server!ServerTypeOK
    <3>4. answers[r] \in [batch -> Phone!ResultStatus]
      BY <3>2, <3>3, EmptyList DEF Server!ItemStatus, Phone!ResultStatus
    <3> QED
      BY <3>1, <3>4 DEF Phone!Next, Phone!RequestEnds
  <2>2. CASE awaited # r
    BY <1>1, <1>2, <2>2 DEF Respond
  <2> QED
    BY <2>1, <2>2
<1>3. ASSUME NEW f \in {"retryable", "fatal"}, Phone!RequestFails(f) PROVE Phone!Next
  BY <1>3 DEF Phone!Next, Phone!RequestEnds, Phone!Fault
<1>4. ASSUME NEW r \in Calls, Post(r) \/ Deliver(r) \/ Refuse(r) \/ Lose(r) \/ Process(r)
      PROVE  [Phone!Next]_Phone!queueVars
  <2>1. Phone!Claim => Phone!Next
    BY DEF Phone!Next, Phone!Drain
  <2> QED
    BY <1>1, <1>3, <1>4, <2>1 DEF Post, Deliver, Refuse, Lose, Process
<1>5. CASE Work
  BY <1>5 DEF Work, Phone!Next, Phone!Drain
<1>6. CASE Event
  BY <1>6 DEF Event, Phone!Next
<1>7. CASE GiveUp
  BY <1>3, <1>7 DEF GiveUp
<1>8. CASE ServerRestart \/ UNCHANGED vars
  BY <1>1, <1>8 DEF ServerRestart, vars
<1> QED
  BY <1>2, <1>4, <1>5, <1>6, <1>7, <1>8 DEF Next

LEMMA PhoneTyped ==
  Wellformed /\ [Next]_vars => Phone!TypeOK' /\ Queue!Tidy'
<1> SUFFICES ASSUME Wellformed, [Next]_vars PROVE Phone!TypeOK' /\ Queue!Tidy'
  OBVIOUS
<1>1. Queue!TypeOK /\ Queue!Tidy /\ [Queue!Next]_Queue!queueVars
  BY PhoneSteps, SameSteps, SameTypes DEF Wellformed, TypeOK
<1>2. Queue!Plain' /\ Queue!Answers(batch, results)' /\ Queue!Tidy'
  BY <1>1, QueueParameters, Queue!PlainStep, Queue!AnswersStep, Queue!TidyStep
<1>3. Queue!TypeOK'
  BY <1>2 DEF Queue!TypeOK, Queue!Plain, Queue!Answers
<1> QED
  BY <1>2, <1>3, SameTypes

-------------------------------------------------------------------------------
(* The requests *)

\* What a step of the server does to the requests it does not serve: nothing.
LEMMA OthersWait ==
  ASSUME Wellformed, NEW r \in Calls, Process(r), NEW s \in Calls, s # r
  PROVE  /\ pc'[s] = pc[s] /\ subject'[s] = subject[s] /\ reply'[s] = reply[s]
         /\ stage'[s] = stage[s] /\ todo'[s] = todo[s] /\ answers'[s] = answers[s]
<1> USE DEF Wellformed, TypeOK, Server!ServerTypeOK, Server!TypeOK, OneAnswerEach, Server!requestVars,
            Server!dispatcherVars, Server!Goto, Server!Answer, Server!Finish, Server!Push
<1>1. CASE Server!RefuseWorkflow(r) \/ Server!DispatchNext(r) \/ Server!Collect(r) \/ Server!Return(r)
  BY <1>1 DEF Server!RefuseWorkflow, Server!DispatchNext, Server!Collect, Server!Return, Server!Dispatch
<1>2. CASE Server!Proceed(r) /\ UNCHANGED Server!requestVars
  BY <1>2 DEF Server!Proceed, Server!RejectUnknown, Server!FindExisting, Server!InsertPending, Server!HandlerCommits,
              Server!HandlerThrows, Server!MarkSuccess, Server!MarkSuccessFails, Server!MarkError, Server!MarkErrorFails
<1> QED
  BY <1>1, <1>2 DEF Process, Server!Serve

\* The steps of the dispatcher inside a request keep its types.
LEMMA DispatcherTyped ==
  ASSUME Wellformed, NEW r \in Calls, Process(r)
  PROVE  Server!TypeOK'
<1>1. Server!TypeOK /\ todo \in [Calls -> Seq(Mutations)] /\ dispatches \in Nat /\ MaxDispatches \in Nat
  BY OfflineAssumption DEF Wellformed, TypeOK, Server!ServerTypeOK, Server!TypeOK
<1> USE <1>1 DEF Server!TypeOK, Server!RowStatus, Server!Reply, Server!Step, Server!Goto, Server!Answer, Server!Finish
<1>2. CASE Server!RefuseWorkflow(r) \/ Server!Return(r)
  BY <1>2 DEF Server!RefuseWorkflow, Server!Return, Server!dispatcherVars
<1>3. CASE Server!DispatchNext(r)
  <2>1. Head(todo[r]) \in Mutations
    BY <1>3 DEF Server!DispatchNext
  <2> QED
    BY <1>3, <2>1 DEF Server!DispatchNext, Server!Dispatch
<1>4. CASE Server!Collect(r)
  BY <1>4 DEF Server!Collect
<1>5. CASE Server!RejectUnknown(r)
  BY <1>5 DEF Server!RejectUnknown
<1>6. CASE Server!FindExisting(r)
  BY <1>6 DEF Server!FindExisting, Server!Cached
<1>7. CASE Server!InsertPending(r)
  BY <1>7 DEF Server!InsertPending
<1>8. CASE Server!HandlerCommits(r)
  BY <1>8 DEF Server!HandlerCommits
<1>9. CASE \E kind \in {"conflict", "error"} : Server!HandlerThrows(r, kind)
  BY <1>9 DEF Server!HandlerThrows
<1>10. CASE Server!MarkSuccess(r)
  BY <1>10 DEF Server!MarkSuccess
<1>11. CASE Server!MarkSuccessFails(r)
  BY <1>11 DEF Server!MarkSuccessFails
<1>12. CASE Server!MarkError(r)
  BY <1>12 DEF Server!MarkError
<1>13. CASE Server!MarkErrorFails(r)
  BY <1>13 DEF Server!MarkErrorFails
<1> QED
  BY <1>2, <1>3, <1>4, <1>5, <1>6, <1>7, <1>8, <1>9, <1>10, <1>11, <1>12, <1>13
     DEF Process, Server!Serve, Server!Proceed

\* Where a request stands after a step of the server: as before, one mutation
\* further with its result, or answered.
LEMMA ServedRequest ==
  ASSUME Wellformed, NEW r \in Calls, Process(r)
  PROVE  /\ stage[r] = "running" /\ DOMAIN answers' = Calls /\ OneAnswerEach'
         /\ stage' \in [Calls -> {"free", "running", "answered"}] /\ todo' \in [Calls -> Seq(Mutations)]
         /\ \/ /\ stage'[r] = "running" /\ todo'[r] = todo[r] /\ answers'[r] = answers[r]
               /\ pc'[r] # "idle" /\ todo[r] # <<>> /\ subject'[r] = Head(todo[r])
               /\ pc'[r] = "failure" => reply'[r] \in {"conflict", "error"}
               /\ pc'[r] = "done" => reply'[r] # "none"
            \/ /\ stage'[r] = "running" /\ todo[r] # <<>> /\ todo'[r] = Tail(todo[r]) /\ pc'[r] = "idle"
               /\ \E item \in Server!ItemStatus :
                     /\ answers'[r] = [k \in DOMAIN answers[r] \cup {Head(todo[r])} |->
                                         IF k = Head(todo[r]) THEN item ELSE answers[r][k]]
                     /\ \/ pc[r] = "idle" /\ item = "error"
                        \/ pc[r] = "done" /\ subject[r] = Head(todo[r]) /\ item = Server!ItemOf(reply[r])
               /\ UNCHANGED <<row, applied, erred, subject, reply>>
            \/ /\ stage'[r] = "answered" /\ todo'[r] = todo[r] /\ todo[r] = <<>> /\ answers'[r] = answers[r]
               /\ UNCHANGED Server!dispatcherVars /\ pc[r] = "idle"
<1> USE DEF Wellformed, TypeOK, Server!ServerTypeOK, Server!TypeOK, OneAnswerEach, Server!requestVars,
            Server!dispatcherVars, Server!Goto, Server!Answer, Server!Finish, RequestIsWhole
<1>1. CASE Server!RefuseWorkflow(r)
  <2>1. Tail(todo[r]) \in Seq(Mutations) /\ "error" \in Server!ItemStatus
    BY <1>1 DEF Server!RefuseWorkflow, Server!ItemStatus
  <2> QED
    BY <1>1, <2>1 DEF Server!RefuseWorkflow, Server!Push
<1>2. CASE Server!DispatchNext(r)
  BY <1>2 DEF Server!DispatchNext, Server!Dispatch
<1>3. CASE Server!Collect(r)
  <2>1. todo[r] # <<>> /\ subject[r] = Head(todo[r]) /\ reply[r] # "none"
    BY <1>3 DEF Server!Collect
  <2>2. Tail(todo[r]) \in Seq(Mutations) /\ Server!ItemOf(reply[r]) \in Server!ItemStatus
    BY <2>1 DEF Server!ItemStatus, Server!ItemOf, Server!Reply
  <2> QED
    BY <1>3, <2>1, <2>2 DEF Server!Collect, Server!Push
<1>4. CASE Server!Return(r)
  BY <1>4 DEF Server!Return
<1>5. ASSUME UNCHANGED Server!requestVars, pc[r] # "idle", pc'[r] # "idle", subject' = subject,
             pc'[r] = "failure" => reply'[r] \in {"conflict", "error"},
             pc'[r] = "done" => reply'[r] # "none"
      PROVE  /\ stage[r] = "running" /\ DOMAIN answers' = Calls /\ OneAnswerEach'
             /\ stage' \in [Calls -> {"free", "running", "answered"}] /\ todo' \in [Calls -> Seq(Mutations)]
             /\ stage'[r] = "running" /\ todo'[r] = todo[r] /\ answers'[r] = answers[r]
             /\ pc'[r] # "idle" /\ todo[r] # <<>> /\ subject'[r] = Head(todo[r])
             /\ pc'[r] = "failure" => reply'[r] \in {"conflict", "error"}
             /\ pc'[r] = "done" => reply'[r] # "none"
  BY <1>5
<1>6. CASE Server!Proceed(r) /\ UNCHANGED Server!requestVars
  <2>1. /\ pc[r] # "idle" /\ pc'[r] # "idle" /\ subject' = subject
        /\ pc'[r] = "failure" => reply'[r] \in {"conflict", "error"}
        /\ pc'[r] = "done" => reply'[r] # "none"
    <3>1. CASE Server!RejectUnknown(r) \/ Server!FindExisting(r) \/ Server!InsertPending(r)
      BY <3>1 DEF Server!RejectUnknown, Server!FindExisting, Server!InsertPending, Server!Cached
    <3>2. CASE Server!HandlerCommits(r) \/ \E kind \in {"conflict", "error"} : Server!HandlerThrows(r, kind)
      BY <3>2 DEF Server!HandlerCommits, Server!HandlerThrows
    <3>3. CASE Server!MarkSuccess(r) \/ Server!MarkSuccessFails(r)
      BY <3>3 DEF Server!MarkSuccess, Server!MarkSuccessFails
    <3>4. CASE Server!MarkError(r) \/ Server!MarkErrorFails(r)
      BY <3>4 DEF Server!MarkError, Server!MarkErrorFails
    <3> QED
      BY <1>6, <3>1, <3>2, <3>3, <3>4 DEF Server!Proceed
  <2> QED
    BY <1>5, <1>6, <2>1
<1> QED
  BY <1>1, <1>2, <1>3, <1>4, <1>6 DEF Process, Server!Serve

LEMMA WholeStep == Wellformed /\ [Next]_vars => Wellformed'
<1> SUFFICES ASSUME Wellformed, [Next]_vars PROVE Wellformed'
  OBVIOUS
<1> DEFINE Typed == /\ Server!ServerTypeOK /\ OneAnswerEach
                    /\ transit \in [Calls -> Seq(Mutations)]
                    /\ awaited \in Calls \cup {NoCall}
                    /\ awaited # NoCall <=> phase = "post"
                    /\ disputed \in SUBSET Mutations
                    /\ crashes \in 0 .. MaxCrashes
                    /\ refusals \in RefusalModels
           Whole == \A r \in Calls : RequestIsWhole(r)
<1>1. Typed /\ Whole /\ Phone!TypeOK /\ NoCall \notin Calls /\ MaxCrashes \in Nat
  BY OfflineAssumption DEF Wellformed, TypeOK
<1>2. SUFFICES Typed' /\ Whole'
  BY PhoneTyped DEF Wellformed, TypeOK
<1>3. CASE UNCHANGED vars
  BY <1>1, <1>3 DEF vars, phoneVars, serverVars, netVars, Server!ServerTypeOK, Server!TypeOK, OneAnswerEach, RequestIsWhole
<1>p. ASSUME UNCHANGED serverVars PROVE (Server!ServerTypeOK /\ OneAnswerEach)'
  BY <1>1, <1>p DEF serverVars, Server!ServerTypeOK, Server!TypeOK, OneAnswerEach
<1>4. ASSUME NEW r \in Calls, Post(r) PROVE Typed' /\ Whole'
  <2>1. /\ Free(r) /\ batch # {} /\ phase = "claim" /\ phase' = "post" /\ batch' = batch
        /\ transit' = [transit EXCEPT ![r] = InOrder(batch)] /\ awaited' = r
        /\ UNCHANGED <<serverVars, disputed, crashes, refusals>>
    BY <1>4 DEF Post, Phone!Claim
  <2>2. /\ InOrder(batch) \in Seq(Mutations) /\ NoRepeat(InOrder(batch)) /\ Elements(InOrder(batch)) = batch
    BY <1>1, BodyIsBatch
  <2>3. Typed'
    BY <1>1, <1>p, <2>1, <2>2
  <2>4. Whole'
    BY <1>1, <2>1, <2>2 DEF RequestIsWhole, Free, serverVars
  <2> QED
    BY <2>3, <2>4
<1>5. CASE Work
  <2>1. phase \notin {"post"} /\ phase' # "post" /\ awaited = NoCall
    BY <1>1, <1>5 DEF Work, Phone!Drain, Phone!Fetch, Phone!Claim, Phone!SettleOne, Phone!FailOne, Phone!SettleThrows,
       Phone!SettleDone, Phone!FailDone, Phone!DrainThrows, Phone!CooldownEnds, Phone!Leave
  <2>2. Typed'
    BY <1>1, <1>p, <1>5, <2>1 DEF Work, netVars
  <2>3. Whole'
    BY <1>1, <1>5, <2>1 DEF Work, netVars, serverVars, RequestIsWhole
  <2> QED
    BY <2>2, <2>3
<1>6. CASE Event
  <2>1. /\ awaited' # NoCall <=> phase' = "post"
        /\ awaited' # NoCall => awaited' = awaited /\ batch' = batch
        /\ awaited' \in {awaited, NoCall}
    BY <1>1, <1>6 DEF Event, StopWaiting, Phone!Environment, Phone!Enqueue, Phone!BackoffElapses, Phone!NextSecond,
       Phone!Start, Phone!Kill, Phone!ConnectivityRestored, Phone!Pause, Phone!Resume, Phone!Trigger, Phone!worker
  <2>2. Typed'
    BY <1>1, <1>p, <1>6, <2>1 DEF Event
  <2>3. Whole'
    BY <1>1, <1>6, <2>1 DEF Event, serverVars, RequestIsWhole
  <2> QED
    BY <2>2, <2>3
<1>7. CASE GiveUp
  <2>1. phase' = "fail" /\ awaited' = NoCall
    BY <1>7 DEF GiveUp, Phone!RequestFails, StopWaiting
  <2>2. Typed'
    BY <1>1, <1>p, <1>7, <2>1 DEF GiveUp
  <2>3. Whole'
    BY <1>1, <1>7, <2>1 DEF GiveUp, serverVars, RequestIsWhole
  <2> QED
    BY <2>2, <2>3
<1>8. ASSUME NEW r \in Calls, Deliver(r) PROVE Typed' /\ Whole'
  <2>1. /\ transit[r] # <<>> /\ stage[r] = "free" /\ pc[r] = "idle"
        /\ stage' = [stage EXCEPT ![r] = "running"] /\ todo' = [todo EXCEPT ![r] = transit[r]]
        /\ answers' = [answers EXCEPT ![r] = Server!NoAnswers] /\ UNCHANGED Server!dispatcherVars
        /\ transit' = [transit EXCEPT ![r] = <<>>]
        /\ UNCHANGED <<phoneVars, awaited, disputed, crashes, refusals>>
    BY <1>1, <1>8 DEF Deliver, Server!Accept, RequestIsWhole
  <2>2. Server!NoAnswers \in [{} -> Server!ItemStatus] /\ DOMAIN Server!NoAnswers = {}
    BY DEF Server!NoAnswers
  <2>3. Typed'
    <3>1. Server!TypeOK'
      BY <1>1, <2>1 DEF Server!ServerTypeOK, Server!TypeOK, Server!dispatcherVars
    <3>2. /\ OneAnswerEach' /\ DOMAIN answers = Calls
          /\ answers'[r] = Server!NoAnswers /\ \A s \in Calls : s # r => answers'[s] = answers[s]
      BY <1>1, <2>1 DEF OneAnswerEach
    <3>3. \A s \in Calls : \E done \in SUBSET Mutations : answers'[s] \in [done -> Server!ItemStatus]
      BY <1>1, <2>2, <3>2 DEF Server!ServerTypeOK
    <3>4. Server!ServerTypeOK'
      BY <1>1, <2>1, <3>1, <3>3 DEF Server!ServerTypeOK
    <3> QED
      BY <1>1, <2>1, <3>2, <3>4 DEF phoneVars
  <2>4. Whole'
    BY <1>1, <2>1, <2>2, EmptyList
       DEF RequestIsWhole, Server!ServerTypeOK, OneAnswerEach, Server!dispatcherVars, phoneVars
  <2> QED
    BY <2>3, <2>4
<1>9. ASSUME NEW r \in Calls, Refuse(r) \/ Lose(r) PROVE Typed' /\ Whole'
  <2>1. /\ transit' = [transit EXCEPT ![r] = <<>>]
        /\ UNCHANGED <<serverVars, disputed, crashes, refusals>>
        /\ \/ UNCHANGED <<phoneVars, awaited>>
           \/ phase' = "fail" /\ awaited' = NoCall
    BY <1>9 DEF Refuse, Lose, Phone!RequestFails, StopWaiting
  <2>2. Typed'
    BY <1>1, <1>p, <2>1 DEF phoneVars
  <2>3. Whole'
    BY <1>1, <2>1, EmptyList DEF serverVars, phoneVars, RequestIsWhole
  <2> QED
    BY <2>2, <2>3
<1>10. ASSUME NEW r \in Calls, Process(r) PROVE Typed' /\ Whole'
  <2>1. /\ UNCHANGED <<phoneVars, netVars, crashes, refusals>>
        /\ \/ disputed' = disputed
           \/ pc[r] = "handler" /\ disputed' = disputed \cup {subject[r]}
    BY <1>10 DEF Process
  <2>2. disputed' \in SUBSET Mutations
    BY <1>1, <2>1 DEF Server!ServerTypeOK, Server!TypeOK
  <2>3. ASSUME NEW s \in Calls
        PROVE  /\ \E done \in SUBSET Mutations : answers'[s] \in [done -> Server!ItemStatus]
               /\ RequestIsWhole(s)'
    <3>1. PICK done \in SUBSET Mutations : answers[s] \in [done -> Server!ItemStatus]
      BY <1>1 DEF Server!ServerTypeOK
    <3>2. CASE s # r
      <4>1. /\ pc'[s] = pc[s] /\ subject'[s] = subject[s] /\ reply'[s] = reply[s]
            /\ stage'[s] = stage[s] /\ todo'[s] = todo[s] /\ answers'[s] = answers[s]
        BY <1>1, <1>10, <3>2, OthersWait
      <4>2. RequestIsWhole(s) /\ transit' = transit /\ awaited' = awaited /\ batch' = batch
        BY <1>1, <2>1 DEF netVars, phoneVars
      <4>3. RequestIsWhole(s)'
        BY <4>1, <4>2 DEF RequestIsWhole
      <4> QED
        BY <3>1, <4>1, <4>3
    <3>3. CASE s = r
      <4>1. todo[r] \in Seq(Mutations) /\ RequestIsWhole(r) /\ transit' = transit /\ awaited' = awaited /\ batch' = batch
        BY <1>1, <2>1 DEF Server!ServerTypeOK, netVars, phoneVars
      <4>2. transit[r] = <<>> /\ stage[r] = "running" /\ NoRepeat(todo[r])
        BY <1>10, <4>1, ServedRequest DEF RequestIsWhole
      <4>3. CASE /\ stage'[r] = "running" /\ todo'[r] = todo[r] /\ answers'[r] = answers[r]
                 /\ pc'[r] # "idle" /\ todo[r] # <<>> /\ subject'[r] = Head(todo[r])
                 /\ pc'[r] = "failure" => reply'[r] \in {"conflict", "error"}
                 /\ pc'[r] = "done" => reply'[r] # "none"
        BY <3>1, <3>3, <4>1, <4>2, <4>3 DEF RequestIsWhole
      <4>4. ASSUME stage'[r] = "running", todo[r] # <<>>, todo'[r] = Tail(todo[r]), pc'[r] = "idle",
                   NEW item \in Server!ItemStatus,
                   answers'[r] = [k \in DOMAIN answers[r] \cup {Head(todo[r])} |->
                                         IF k = Head(todo[r]) THEN item ELSE answers[r][k]]
            PROVE  /\ \E some \in SUBSET Mutations : answers'[r] \in [some -> Server!ItemStatus]
                   /\ RequestIsWhole(r)'
        <5>1. /\ NoRepeat(Tail(todo[r])) /\ Head(todo[r]) \in Mutations
              /\ Elements(Tail(todo[r])) = Elements(todo[r]) \ {Head(todo[r])} /\ Head(todo[r]) \in Elements(todo[r])
          BY <4>1, <4>2, <4>4, RestOfList
        <5>2. answers'[r] \in [done \cup {Head(todo[r])} -> Server!ItemStatus] /\ done \cup {Head(todo[r])} \in SUBSET Mutations
          BY <3>1, <3>3, <4>4, <5>1
        <5>3. DOMAIN answers'[r] \cup Elements(todo'[r]) = DOMAIN answers[r] \cup Elements(todo[r])
          BY <4>4, <5>1
        <5>4. RequestIsWhole(r)'
          BY <4>1, <4>2, <4>4, <5>1, <5>3 DEF RequestIsWhole
        <5> QED
          BY <5>2, <5>4
      <4>5. CASE /\ stage'[r] = "answered" /\ todo'[r] = todo[r] /\ todo[r] = <<>> /\ answers'[r] = answers[r]
                 /\ UNCHANGED Server!dispatcherVars /\ pc[r] = "idle"
        BY <3>1, <3>3, <4>1, <4>2, <4>5, EmptyList DEF RequestIsWhole, Server!dispatcherVars
      <4> QED
        BY <1>10, <3>3, <4>3, <4>4, <4>5, ServedRequest
    <3> QED
      BY <3>2, <3>3
  <2>4. Typed'
    BY <1>1, <1>10, <2>1, <2>2, <2>3, ServedRequest, DispatcherTyped DEF Server!ServerTypeOK, netVars, phoneVars
  <2> QED
    BY <2>3, <2>4
<1>11. ASSUME NEW r \in Calls, Respond(r) PROVE Typed' /\ Whole'
  <2>1. /\ stage[r] = "answered" /\ stage' = [stage EXCEPT ![r] = "free"] /\ todo[r] = <<>>
        /\ answers' = [answers EXCEPT ![r] = Server!NoAnswers]
        /\ UNCHANGED <<Server!dispatcherVars, todo, transit, disputed, crashes, refusals>>
        /\ \/ awaited # r /\ UNCHANGED <<phoneVars, awaited>>
           \/ phase' = "settle" /\ awaited' = NoCall
    BY <1>1, <1>11 DEF Respond, Server!Release, Phone!Receive, StopWaiting, RequestIsWhole
  <2>2. Server!NoAnswers \in [{} -> Server!ItemStatus]
    BY DEF Server!NoAnswers
  <2>3. Typed'
    BY <1>1, <2>1, <2>2 DEF Server!ServerTypeOK, Server!TypeOK, Server!dispatcherVars, OneAnswerEach, phoneVars
  <2>4. Whole'
    BY <1>1, <2>1 DEF RequestIsWhole, Server!ServerTypeOK, OneAnswerEach, Server!dispatcherVars, phoneVars
  <2> QED
    BY <2>3, <2>4
<1>12. CASE ServerRestart
  <2>1. Server!NoAnswers \in [{} -> Server!ItemStatus]
    BY DEF Server!NoAnswers
  <2>2. Typed'
    <3>1. Server!TypeOK'
      BY <1>1, <1>12 DEF ServerRestart, Server!ServerCrash, Server!ServerTypeOK, Server!TypeOK, Server!Step, Server!Reply
    <3>2. answers' = [s \in Calls |-> Server!NoAnswers] /\ OneAnswerEach'
      BY <1>12 DEF ServerRestart, Server!ServerCrash, OneAnswerEach
    <3>3. \A s \in Calls : \E done \in SUBSET Mutations : answers'[s] \in [done -> Server!ItemStatus]
      BY <2>1, <3>2
    <3>4. Server!ServerTypeOK'
      BY <1>12, <3>1, <3>3 DEF ServerRestart, Server!ServerCrash, Server!ServerTypeOK
    <3> QED
      BY <1>1, <1>12, <3>2, <3>4 DEF ServerRestart, phoneVars, netVars
  <2>3. Whole'
    BY <1>1, <1>12, EmptyList DEF ServerRestart, Server!ServerCrash, RequestIsWhole, phoneVars, netVars
  <2> QED
    BY <2>2, <2>3
<1> QED
  BY <1>3, <1>4, <1>5, <1>6, <1>7, <1>8, <1>9, <1>10, <1>11, <1>12 DEF Next

LEMMA AlwaysWellformed == Spec => []Wellformed
<1>1. Init => Wellformed
  <2> SUFFICES ASSUME Init PROVE Wellformed
    OBVIOUS
  <2>1. Phone!TypeOK
    <3>1. Phone!NoResults \in [{} -> Phone!ResultStatus]
      BY DEF Phone!NoResults
    <3>2. \E answered \in SUBSET batch : results \in [answered -> Phone!ResultStatus]
      BY <3>1 DEF Init, Phone!Init
    <3> QED
      BY <3>2, OfflineAssumption DEF Init, Phone!Init, Phone!TypeOK, Phone!Phase, Phone!Fault, Phone!Status
  <2>2. Queue!Tidy
    BY DEF Init, Phone!Init, Queue!Tidy, Phone!NoResults, Queue!NoResults
  <2>3. Server!ServerTypeOK /\ OneAnswerEach
    <3>1. Server!NoAnswers \in [{} -> Server!ItemStatus]
      BY DEF Server!NoAnswers
    <3>2. answers = [r \in Calls |-> Server!NoAnswers]
      BY DEF Init, Server!ServerInit
    <3>3. \A r \in Calls : \E done \in SUBSET Mutations : answers[r] \in [done -> Server!ItemStatus]
      BY <3>1, <3>2
    <3>4. Server!TypeOK
      BY OfflineAssumption
         DEF Init, Server!ServerInit, Server!Init, Server!TypeOK, Server!RowStatus, Server!Reply, Server!Step
    <3> QED
      BY <3>2, <3>3, <3>4 DEF Init, Server!ServerInit, Server!ServerTypeOK, OneAnswerEach
  <2>4. TypeOK
    BY <2>1, <2>3, OfflineAssumption DEF Init, Phone!Init, TypeOK
  <2>5. \A r \in Calls : RequestIsWhole(r)
    BY EmptyList, OfflineAssumption DEF Init, Server!ServerInit, Server!Init, RequestIsWhole
  <2> QED
    BY <2>2, <2>3, <2>4, <2>5 DEF Wellformed
<1> QED
  BY <1>1, WholeStep, PTL DEF Spec

\* What the phone does in OfflineSync is a behaviour of SyncQueue without
\* faults of its own: the requests are answered for every row of the batch.
\* All that is proved of the queue holds of the phone.
THEOREM PhoneIsAQueue == Spec => Phone!Spec
<1>1. Init => Phone!Init
  BY DEF Init
<1> QED
  BY <1>1, AlwaysWellformed, PhoneSteps, PTL DEF Spec, Phone!Spec

LEMMA QueueHolds == Spec => [](Queue!WorkIsInFlight /\ Queue!BatchIsOldest)
<1>1. Phone!Init => Queue!Init
  BY DEF Phone!Init, Queue!Init, Phone!NoResults, Queue!NoResults
<1>2. Phone!Spec => Queue!Spec
  BY <1>1, SameSteps, PTL DEF Phone!Spec, Queue!Spec
<1>3. Queue!Spec => [](Queue!WorkIsInFlight /\ Queue!BatchIsOldest)
  BY QueueParameters, Queue!AlwaysInFlight, Queue!AlwaysOldest, PTL
<1> QED
  BY <1>2, <1>3, PhoneIsAQueue, PTL

-------------------------------------------------------------------------------
(* What becomes of a row *)

\* The phone leaves what it knows of the mutations as it is, takes a new one, or
\* learns the end of one that is in flight.
LEMMA FateSteps ==
  ASSUME Wellformed, Queue!WorkIsInFlight, [Phone!Next]_Phone!queueVars
  PROVE  \/ \A m \in Mutations : status'[m] = status[m] \/ {status[m], status'[m]} \subseteq {"pending", "sending", "error"}
         \/ \E m \in Mutations : status[m] = "absent" /\ status' = [status EXCEPT ![m] = "pending"]
         \/ \E m \in Mutations, s \in {"success", "conflict"} :
               /\ status[m] = "sending" /\ status' = [status EXCEPT ![m] = s]
               /\ \/ m \in DOMAIN results /\ results[m] = s
                  \/ fault = "conflict" /\ s = "conflict"
<1>1. /\ status \in [Mutations -> Phone!Status] /\ batch \subseteq Mutations /\ unmarked \subseteq batch
      /\ \A m \in DOMAIN results : m \in batch /\ results[m] \in {"success", "conflict", "error"}
  BY DEF Wellformed, TypeOK, Phone!TypeOK, Phone!ResultStatus
<1>2. /\ phase = "claim" => \A m \in batch : status[m] \in {"pending", "error"}
      /\ phase = "settle" => \A m \in DOMAIN results : status[m] = "sending"
      /\ phase = "fail" => \A m \in unmarked : status[m] = "sending"
  BY DEF Queue!WorkIsInFlight
<1> USE DEF Phone!SetStatus
<1>3. CASE UNCHANGED status
  BY <1>3
<1>4. ASSUME NEW m \in Mutations, Phone!Enqueue(m)
      PROVE  status[m] = "absent" /\ status' = [status EXCEPT ![m] = "pending"]
  BY <1>1, <1>4 DEF Phone!Enqueue
<1>5. CASE Phone!Start
  BY <1>1, <1>5 DEF Phone!Start
<1>6. CASE Phone!Claim
  BY <1>1, <1>2, <1>6 DEF Phone!Claim
<1>7. ASSUME NEW m \in Mutations, Phone!SettleOne(m)
      PROVE  \/ \A k \in Mutations : status'[k] = status[k] \/ {status[k], status'[k]} \subseteq {"pending", "sending", "error"}
             \/ \E s \in {"success", "conflict"} :
                   status[m] = "sending" /\ status' = [status EXCEPT ![m] = s] /\ m \in DOMAIN results /\ results[m] = s
  <2>1. m \in DOMAIN results /\ status[m] = "sending" /\ results[m] \in {"success", "conflict", "error"}
    BY <1>1, <1>2, <1>7 DEF Phone!SettleOne, Phone!First
  <2>2. CASE results[m] = "error"
    BY <1>1, <1>7, <2>1, <2>2 DEF Phone!SettleOne, Phone!MarkPermanentError
  <2>3. CASE results[m] # "error"
    <3>1. status' = [status EXCEPT ![m] = results[m]]
      BY <1>1, <1>7, <2>3 DEF Phone!SettleOne, Phone!MarkEnded
    <3> QED
      BY <2>1, <2>3, <3>1
  <2> QED
    BY <2>2, <2>3
<1>8. ASSUME NEW m \in Mutations, Phone!FailOne(m)
      PROVE  \/ \A k \in Mutations : status'[k] = status[k] \/ {status[k], status'[k]} \subseteq {"pending", "sending", "error"}
             \/ status[m] = "sending" /\ status' = [status EXCEPT ![m] = "conflict"] /\ fault = "conflict"
  <2>1. status[m] = "sending"
    BY <1>2, <1>8 DEF Phone!FailOne, Phone!First
  <2> QED
    BY <1>1, <1>8, <2>1
       DEF Phone!FailOne, Phone!MarkPermanentError, Phone!MarkErrorWithBackoff, Phone!MarkEnded
<1>9. CASE Phone!RequestEnds
  BY <1>3, <1>9 DEF Phone!RequestEnds, Phone!Receive, Phone!RequestFails, Phone!table
<1> QED
  BY <1>3, <1>4, <1>5, <1>6, <1>7, <1>8, <1>9
     DEF Phone!Next, Phone!Drain, Phone!Environment, Phone!queueVars, Phone!table, Phone!BackoffElapses,
         Phone!NextSecond, Phone!Kill, Phone!ConnectivityRestored, Phone!Pause, Phone!Resume, Phone!Fetch,
         Phone!SettleThrows, Phone!SettleDone, Phone!FailDone, Phone!DrainThrows, Phone!CooldownEnds

\* What was enqueued is never forgotten.
LEMMA KnownStays ==
  ASSUME Wellformed, Queue!WorkIsInFlight, [Next]_vars, NEW m \in Mutations, status[m] # "absent"
  PROVE  status'[m] # "absent"
<1>1. status \in [Mutations -> Phone!Status]
  BY DEF Wellformed, TypeOK, Phone!TypeOK
<1> QED
  BY <1>1, FateSteps, PhoneSteps

\* An effect is only ever added, by the handler of the mutation in hand.
LEMMA Applies ==
  ASSUME Wellformed, [Next]_vars
  PROVE  \/ applied' = applied
         \/ \E r \in Calls : /\ Process(r) /\ pc[r] = "handler" /\ UNCHANGED status
                             /\ applied' = [applied EXCEPT ![subject[r]] = @ + 1]
<1>1. ASSUME NEW r \in Calls, Process(r)
      PROVE  applied' = applied \/ (pc[r] = "handler" /\ applied' = [applied EXCEPT ![subject[r]] = @ + 1])
  BY <1>1 DEF Process, Server!Serve, Server!Proceed, Server!RefuseWorkflow, Server!DispatchNext, Server!Dispatch,
       Server!Collect, Server!Return, Server!dispatcherVars, Server!RejectUnknown, Server!FindExisting,
       Server!InsertPending, Server!HandlerCommits, Server!HandlerThrows, Server!MarkSuccess, Server!MarkSuccessFails,
       Server!MarkError, Server!MarkErrorFails
<1>2. ASSUME NEW r \in Calls, Process(r) PROVE UNCHANGED status
  BY <1>2 DEF Process, phoneVars
<1>3. ASSUME NEW r \in Calls, Post(r) \/ Deliver(r) \/ Refuse(r) \/ Lose(r) \/ Respond(r) PROVE applied' = applied
  BY <1>3 DEF Post, Deliver, Refuse, Lose, Respond, Server!Accept, Server!Release, Server!dispatcherVars, serverVars
<1>4. CASE Work \/ Event \/ GiveUp \/ ServerRestart \/ UNCHANGED vars
  BY <1>4 DEF Work, Event, GiveUp, ServerRestart, Server!ServerCrash, vars, serverVars
<1> QED
  BY <1>1, <1>2, <1>3, <1>4 DEF Next

-------------------------------------------------------------------------------
(* The promise *)

\* A success is recorded, answered, sent to the phone and read by it only once
\* the effect is in the server's database.
EffectsFirst ==
    /\ \A m \in Mutations : row[m] = "success" => applied[m] >= 1
    /\ \A r \in Calls :
          /\ pc[r] = "success" => applied[subject[r]] >= 1
          /\ pc[r] = "done" /\ reply[r] \in {"success", "replay"} => applied[subject[r]] >= 1
          /\ \A m \in DOMAIN answers[r] : answers[r][m] = "success" => applied[m] >= 1
    /\ \A m \in DOMAIN results : results[m] = "success" => applied[m] >= 1

\* The mutations of a request that have not been dispatched to the end.
Carried(r) == Elements(transit[r]) \cup Elements(todo[r])

\* No request has a mutation that was not enqueued.
OnlyWhatWasEnqueued == \A r \in Calls : \A m \in Carried(r) : status[m] # "absent"

LEMMA InHand ==
  ASSUME Wellformed, NEW r \in Calls, pc[r] # "idle"
  PROVE  subject[r] \in Mutations /\ subject[r] \in Carried(r) /\ stage[r] = "running" /\ transit[r] = <<>>
<1>1. RequestIsWhole(r) /\ todo[r] \in Seq(Mutations) /\ stage[r] \in {"free", "running", "answered"}
  BY DEF Wellformed, TypeOK, Server!ServerTypeOK
<1>2. todo[r] # <<>> /\ subject[r] = Head(todo[r]) /\ NoRepeat(todo[r]) /\ stage[r] = "running" /\ transit[r] = <<>>
  BY <1>1 DEF RequestIsWhole
<1> QED
  BY <1>1, <1>2, RestOfList DEF Carried

\* What a request has left to do after any step was left before it, unless the
\* phone has just sent it.
LEMMA CarriedSteps ==
  ASSUME Wellformed, [Next]_vars, NEW r \in Calls, NEW m \in Carried(r)'
  PROVE  m \in Carried(r) \/ (Post(r) /\ m \in batch /\ phase = "claim" /\ \A s \in Calls \ {r} : Carried(s)' = Carried(s))
<1>1. /\ transit \in [Calls -> Seq(Mutations)] /\ todo \in [Calls -> Seq(Mutations)]
      /\ \A s \in Calls : RequestIsWhole(s)
  BY DEF Wellformed, TypeOK, Server!ServerTypeOK
<1>2. CASE UNCHANGED <<transit, todo>>
  BY <1>2 DEF Carried
<1>3. ASSUME NEW q \in Calls, Post(q) PROVE m \in Carried(r) \/ (q = r /\ m \in batch /\ phase = "claim")
  <2>1. transit' = [transit EXCEPT ![q] = InOrder(batch)] /\ todo' = todo /\ transit[q] = <<>> /\ phase = "claim"
    BY <1>3 DEF Post, Free, Phone!Claim, serverVars
  <2>2. Elements(InOrder(batch)) = batch
    BY BodyIsBatch DEF Wellformed, TypeOK
  <2>3. CASE q = r
    BY <1>1, <2>1, <2>2, <2>3 DEF Carried
  <2>4. CASE q # r
    BY <1>1, <2>1, <2>4 DEF Carried
  <2> QED
    BY <2>3, <2>4
<1>4. ASSUME NEW q \in Calls, Deliver(q) PROVE m \in Carried(r)
  <2>1. transit' = [transit EXCEPT ![q] = <<>>] /\ todo' = [todo EXCEPT ![q] = transit[q]]
    BY <1>4 DEF Deliver, Server!Accept
  <2> QED
    BY <1>1, <2>1, EmptyList DEF Carried
<1>5. ASSUME NEW q \in Calls, Refuse(q) \/ Lose(q) PROVE m \in Carried(r)
  <2>1. transit' = [transit EXCEPT ![q] = <<>>] /\ todo' = todo
    BY <1>5 DEF Refuse, Lose, serverVars
  <2> QED
    BY <1>1, <2>1, EmptyList DEF Carried
<1>6. ASSUME NEW q \in Calls, Process(q) PROVE m \in Carried(r)
  <2>1. transit' = transit
    BY <1>6 DEF Process, netVars
  <2>2. CASE q = r
    <3>1. todo'[r] = todo[r] \/ (todo[r] # <<>> /\ todo'[r] = Tail(todo[r]))
      BY <1>6, <2>2, ServedRequest
    <3>2. todo[r] # <<>> => Elements(Tail(todo[r])) \subseteq Elements(todo[r])
      BY <1>1, RestOfList DEF RequestIsWhole
    <3> QED
      BY <2>1, <3>1, <3>2 DEF Carried
  <2>3. CASE q # r
    BY <1>6, <2>1, <2>3, OthersWait DEF Carried
  <2> QED
    BY <2>2, <2>3
<1>7. CASE ServerRestart
  BY <1>1, <1>7, EmptyList DEF ServerRestart, Server!ServerCrash, netVars, Carried
<1>8. ASSUME NEW q \in Calls, Post(q) PROVE \A s \in Calls \ {q} : Carried(s)' = Carried(s)
  BY <1>1, <1>8 DEF Post, serverVars, Carried
<1>9. CASE Work \/ Event \/ GiveUp \/ (\E q \in Calls : Respond(q)) \/ UNCHANGED vars
  BY <1>2, <1>9 DEF Work, Event, GiveUp, Respond, Server!Release, vars, netVars, serverVars
<1> QED
  BY <1>3, <1>4, <1>5, <1>6, <1>7, <1>8, <1>9 DEF Next

LEMMA EnqueuedStep ==
  Wellformed /\ Queue!WorkIsInFlight /\ Queue!BatchIsOldest /\ OnlyWhatWasEnqueued /\ [Next]_vars => OnlyWhatWasEnqueued'
<1> SUFFICES ASSUME Wellformed, Queue!WorkIsInFlight, Queue!BatchIsOldest, OnlyWhatWasEnqueued, [Next]_vars,
                    NEW r \in Calls, NEW m \in Carried(r)'
             PROVE  status'[m] # "absent"
  BY DEF OnlyWhatWasEnqueued
<1>1. status[m] # "absent"
  BY CarriedSteps DEF OnlyWhatWasEnqueued, Queue!BatchIsOldest
<1>2. m \in Mutations
  <2>1. \A s \in Calls : Carried(s) \subseteq Mutations
    BY DEF Carried, Elements, Wellformed, TypeOK, Server!ServerTypeOK
  <2>2. batch \subseteq Mutations
    BY DEF Wellformed, TypeOK, Phone!TypeOK
  <2> QED
    BY <2>1, <2>2, CarriedSteps
<1> QED
  BY <1>1, <1>2, KnownStays

LEMMA EffectsStep == Wellformed /\ EffectsFirst /\ [Next]_vars => EffectsFirst'
<1> SUFFICES ASSUME Wellformed, EffectsFirst, [Next]_vars PROVE EffectsFirst'
  OBVIOUS
<1>1. /\ row \in [Mutations -> Server!RowStatus] /\ applied \in [Mutations -> Nat] /\ pc \in [Calls -> Server!Step]
      /\ reply \in [Calls -> Server!Reply] /\ subject \in [Calls -> Mutations \cup {NoMutation}]
      /\ \A r \in Calls : pc[r] # "idle" => subject[r] \in Mutations
      /\ \A r \in Calls : \E done \in SUBSET Mutations : answers[r] \in [done -> Server!ItemStatus]
      /\ OneAnswerEach
      /\ \E answered \in SUBSET Mutations : results \in [answered -> Phone!ResultStatus]
  BY DEF Wellformed, TypeOK, Server!ServerTypeOK, Server!TypeOK, Phone!TypeOK
<1>2. \A m \in Mutations : applied'[m] \in Nat /\ applied'[m] >= applied[m]
  BY <1>1, Applies
<1>3. /\ \A m \in Mutations : row[m] = "success" => applied'[m] >= 1
      /\ \A r \in Calls :
            /\ pc[r] = "success" => applied'[subject[r]] >= 1
            /\ pc[r] = "done" /\ reply[r] \in {"success", "replay"} => applied'[subject[r]] >= 1
            /\ \A m \in DOMAIN answers[r] : answers[r][m] = "success" => applied'[m] >= 1
      /\ \A m \in DOMAIN results : results[m] = "success" => applied'[m] >= 1
  <2>1. /\ \A r \in Calls : DOMAIN answers[r] \subseteq Mutations
        /\ DOMAIN results \subseteq Mutations
    BY <1>1
  <2> QED
    BY <1>1, <1>2, <2>1 DEF EffectsFirst
<1>4. CASE UNCHANGED <<serverVars, results>>
  BY <1>3, <1>4 DEF serverVars, EffectsFirst
<1>5. ASSUME UNCHANGED serverVars, results' = Phone!NoResults PROVE EffectsFirst'
  <2>1. DOMAIN results' = {}
    BY <1>5 DEF Phone!NoResults
  <2> QED
    BY <1>3, <1>5, <2>1 DEF serverVars, EffectsFirst
<1>6. ASSUME NEW m \in Mutations, Phone!SettleOne(m), UNCHANGED serverVars PROVE EffectsFirst'
  <2>1. \A k \in DOMAIN results' : k \in DOMAIN results /\ results'[k] = results[k]
    BY <1>6 DEF Phone!SettleOne
  <2> QED
    BY <1>3, <1>6, <2>1 DEF serverVars, EffectsFirst
<1>7. CASE Work
  BY <1>4, <1>5, <1>6, <1>7
     DEF Work, Phone!Drain, Phone!Fetch, Phone!Claim, Phone!FailOne, Phone!SettleThrows, Phone!SettleDone,
         Phone!FailDone, Phone!DrainThrows, Phone!CooldownEnds, Phone!Leave
<1>8. CASE Event
  BY <1>4, <1>5, <1>8
     DEF Event, Phone!Environment, Phone!Enqueue, Phone!BackoffElapses, Phone!NextSecond, Phone!Start, Phone!Kill,
         Phone!ConnectivityRestored, Phone!Pause, Phone!Resume, Phone!worker
<1>9. CASE GiveUp
  BY <1>4, <1>9 DEF GiveUp, Phone!RequestFails
<1>10. ASSUME NEW r \in Calls, Post(r) \/ Refuse(r) \/ Lose(r) PROVE EffectsFirst'
  BY <1>4, <1>5, <1>10 DEF Post, Refuse, Lose, Phone!Claim, Phone!Leave, Phone!RequestFails, phoneVars
<1>11. ASSUME UNCHANGED Server!dispatcherVars, NEW r \in Calls,
              answers' = [answers EXCEPT ![r] = Server!NoAnswers],
              results' = results \/ results' = answers[r]
       PROVE  EffectsFirst'
  <2>1. DOMAIN Server!NoAnswers = {}
    BY DEF Server!NoAnswers
  <2>2. \A s \in Calls : answers'[s] = answers[s] \/ DOMAIN answers'[s] = {}
    BY <1>1, <1>11, <2>1 DEF OneAnswerEach
  <2> QED
    BY <1>3, <1>11, <2>2 DEF EffectsFirst, Server!dispatcherVars
<1>12. ASSUME NEW r \in Calls, Deliver(r) PROVE EffectsFirst'
  BY <1>11, <1>12 DEF Deliver, Server!Accept, phoneVars
<1>13. ASSUME NEW r \in Calls, Respond(r) PROVE EffectsFirst'
  BY <1>11, <1>13 DEF Respond, Server!Release, Phone!Receive, phoneVars
<1>14. ASSUME NEW r \in Calls, Process(r) PROVE EffectsFirst'
  <2>1. results' = results
    BY <1>14 DEF Process, phoneVars
  <2>2. \A m \in Mutations : row'[m] = "success" => applied'[m] >= 1
    <3>1. row' = row \/ (pc[r] = "success" /\ row' = [row EXCEPT ![subject[r]] = "success"])
                     \/ (\E s \in {"pending", "error"} : row' = [row EXCEPT ![subject[r]] = s])
      BY <1>14 DEF Process, Server!Serve, Server!Proceed, Server!RefuseWorkflow, Server!DispatchNext, Server!Dispatch,
           Server!Collect, Server!Return, Server!dispatcherVars, Server!RejectUnknown, Server!FindExisting,
           Server!InsertPending, Server!HandlerCommits, Server!HandlerThrows, Server!MarkSuccess,
           Server!MarkSuccessFails, Server!MarkError, Server!MarkErrorFails
    <3> QED
      BY <1>1, <1>3, <3>1
  <2>3. /\ pc'[r] = "success" => applied'[subject'[r]] >= 1
        /\ pc'[r] = "done" /\ reply'[r] \in {"success", "replay"} => applied'[subject'[r]] >= 1
    <3> USE <1>1, <1>3 DEF Server!Goto, Server!Answer, Server!Finish, Server!Step, Server!Reply
    <3>1. CASE Server!RefuseWorkflow(r) \/ Server!Return(r)
      BY <3>1 DEF Server!RefuseWorkflow, Server!Return, Server!dispatcherVars
    <3>2. CASE Server!DispatchNext(r)
      BY <3>2 DEF Server!DispatchNext, Server!Dispatch
    <3>3. CASE Server!Collect(r) \/ Server!RejectUnknown(r) \/ Server!InsertPending(r) \/ Server!MarkSuccessFails(r)
      BY <3>3 DEF Server!Collect, Server!RejectUnknown, Server!InsertPending, Server!MarkSuccessFails
    <3>4. CASE Server!FindExisting(r)
      BY <3>4 DEF Server!FindExisting
    <3>5. CASE Server!HandlerCommits(r)
      <4>1. applied'[subject[r]] = applied[subject[r]] + 1 /\ subject' = subject /\ pc'[r] = "success"
        BY <3>5 DEF Server!HandlerCommits
      <4> QED
        BY <3>5, <4>1 DEF Server!HandlerCommits
    <3>6. CASE \E kind \in {"conflict", "error"} : Server!HandlerThrows(r, kind)
      BY <3>6 DEF Server!HandlerThrows
    <3>7. CASE Server!MarkSuccess(r)
      BY <3>7 DEF Server!MarkSuccess
    <3>8. CASE Server!MarkError(r) \/ Server!MarkErrorFails(r)
      <4>1. pc[r] = "failure" /\ reply[r] \in {"conflict", "error"}
        BY <3>8 DEF Server!MarkError, Server!MarkErrorFails, Wellformed, RequestIsWhole
      <4> QED
        BY <3>8, <4>1 DEF Server!MarkError, Server!MarkErrorFails
    <3> QED
      BY <1>14, <3>1, <3>2, <3>3, <3>4, <3>5, <3>6, <3>7, <3>8 DEF Process, Server!Serve, Server!Proceed
  <2>4. \A m \in DOMAIN answers'[r] : answers'[r][m] = "success" => applied'[m] >= 1
    <3>1. CASE answers'[r] = answers[r]
      BY <1>3, <3>1
    <3>2. ASSUME NEW item,
                 answers'[r] = [k \in DOMAIN answers[r] \cup {Head(todo[r])} |->
                                         IF k = Head(todo[r]) THEN item ELSE answers[r][k]],
                 \/ pc[r] = "idle" /\ item = "error"
                 \/ pc[r] = "done" /\ subject[r] = Head(todo[r]) /\ item = Server!ItemOf(reply[r]),
                 NEW m \in DOMAIN answers'[r], answers'[r][m] = "success"
          PROVE  applied'[m] >= 1
      <4>1. CASE m = Head(todo[r])
        BY <1>3, <3>2, <4>1 DEF Server!ItemOf
      <4>2. CASE m # Head(todo[r])
        BY <1>3, <3>2, <4>2
      <4> QED
        BY <4>1, <4>2
    <3> QED
      BY <1>14, <3>1, <3>2, ServedRequest
  <2>5. ASSUME NEW s \in Calls
        PROVE  /\ pc'[s] = "success" => applied'[subject'[s]] >= 1
               /\ pc'[s] = "done" /\ reply'[s] \in {"success", "replay"} => applied'[subject'[s]] >= 1
               /\ \A m \in DOMAIN answers'[s] : answers'[s][m] = "success" => applied'[m] >= 1
    <3>1. CASE s = r
      BY <2>3, <2>4, <3>1
    <3>2. CASE s # r
      BY <1>3, <1>14, <3>2, OthersWait
    <3> QED
      BY <3>1, <3>2
  <2> QED
    BY <1>3, <2>1, <2>2, <2>5 DEF EffectsFirst
<1>15. CASE ServerRestart
  <2>1. /\ results' = results /\ row' = row
        /\ \A r \in Calls : pc'[r] = "idle" /\ DOMAIN answers'[r] = {}
    BY <1>15 DEF ServerRestart, Server!ServerCrash, Server!NoAnswers, phoneVars
  <2> QED
    BY <1>3, <2>1 DEF EffectsFirst
<1>16. CASE UNCHANGED vars
  BY <1>4, <1>16 DEF vars, phoneVars
<1> QED
  BY <1>7, <1>8, <1>9, <1>10, <1>12, <1>13, <1>14, <1>15, <1>16 DEF Next

LEMMA PromiseInductive == Spec => [](EffectsFirst /\ OnlyWhatWasEnqueued)
<1>1. Init => EffectsFirst /\ OnlyWhatWasEnqueued
  BY EmptyList
     DEF Init, Phone!Init, Phone!NoResults, Server!ServerInit, Server!Init, Server!NoAnswers, EffectsFirst,
         OnlyWhatWasEnqueued, Carried
<1> QED
  BY <1>1, EffectsStep, EnqueuedStep, AlwaysWellformed, QueueHolds, PTL DEF Spec

\* The phone, the network and the server implement Outbox: for any number of
\* mutations, requests under way, tries, kills, restarts and lost or late
\* requests, nothing takes effect that was not enqueued, a row becomes 'success'
\* only when its effect is in the database, and both answers are final.
THEOREM PromiseKept == Spec => KeepsPromise
<1> DEFINE fates == [m \in Mutations |-> FateOf(m)]
           effects == {m \in Mutations : applied[m] > 0}
<1>1. Init => Abstract!OutboxInit
  BY DEF Init, Phone!Init, Server!ServerInit, Server!Init, Abstract!OutboxInit, FateOf
<1>2. ASSUME Wellformed, Queue!WorkIsInFlight, EffectsFirst, OnlyWhatWasEnqueued, [Next]_vars
      PROVE  [Abstract!OutboxNext]_Abstract!outboxVars
  <2>1. status \in [Mutations -> Phone!Status] /\ applied \in [Mutations -> Nat]
    BY <1>2 DEF Wellformed, TypeOK, Phone!TypeOK, Server!ServerTypeOK, Server!TypeOK
  <2>2. ASSUME UNCHANGED effects, UNCHANGED fates PROVE UNCHANGED Abstract!outboxVars
    BY <2>2 DEF Abstract!outboxVars
  <2>3. ASSUME NEW r \in Calls, Process(r), pc[r] = "handler", UNCHANGED status,
               applied' = [applied EXCEPT ![subject[r]] = @ + 1]
        PROVE  Abstract!OutboxNext
    <3>1. subject[r] \in Mutations /\ status[subject[r]] # "absent"
      BY <1>2, <2>3, InHand DEF OnlyWhatWasEnqueued
    <3>2. fates' = fates /\ fates[subject[r]] # "none"
      BY <2>1, <2>3, <3>1 DEF FateOf, Phone!Status
    <3>3. effects' = effects \cup {subject[r]}
      BY <2>1, <2>3, <3>1
    <3> QED
      BY <3>1, <3>2, <3>3 DEF Abstract!OutboxNext, Abstract!TakeEffect
  <2>4. ASSUME UNCHANGED applied PROVE [Abstract!OutboxNext]_Abstract!outboxVars
    <3>1. effects' = effects
      BY <2>4
    <3>2. ASSUME \A m \in Mutations : \/ status'[m] = status[m]
                                      \/ {status[m], status'[m]} \subseteq {"pending", "sending", "error"}
          PROVE  fates' = fates
      BY <2>1, <3>2 DEF FateOf
    <3>3. ASSUME NEW m \in Mutations, status[m] = "absent", status' = [status EXCEPT ![m] = "pending"]
          PROVE  Abstract!Act(m)
      <4>1. fates[m] = "none" /\ fates' = [fates EXCEPT ![m] = "waiting"]
        BY <2>1, <3>3 DEF FateOf
      <4> QED
        BY <3>1, <4>1 DEF Abstract!Act, Abstract!Told
    <3>4. ASSUME NEW m \in Mutations, status[m] = "sending", status' = [status EXCEPT ![m] = "success"],
                 m \in DOMAIN results, results[m] = "success"
          PROVE  Abstract!Confirm(m)
      <4>1. fates[m] = "waiting" /\ fates' = [fates EXCEPT ![m] = "confirmed"]
        BY <2>1, <3>4 DEF FateOf
      <4>2. m \in effects
        BY <1>2, <2>1, <3>4 DEF EffectsFirst
      <4> QED
        BY <3>1, <4>1, <4>2 DEF Abstract!Confirm, Abstract!Told
    <3>5. ASSUME NEW m \in Mutations, status[m] = "sending", status' = [status EXCEPT ![m] = "conflict"]
          PROVE  Abstract!ReportConflict(m)
      <4>1. fates[m] = "waiting" /\ fates' = [fates EXCEPT ![m] = "conflict"]
        BY <2>1, <3>5 DEF FateOf
      <4> QED
        BY <3>1, <4>1 DEF Abstract!ReportConflict, Abstract!Told
    <3> QED
      BY <1>2, <2>2, <3>1, <3>2, <3>3, <3>4, <3>5, FateSteps, PhoneSteps DEF Abstract!OutboxNext
  <2> QED
    BY <1>2, <2>3, <2>4, Applies
<1> QED
  BY <1>1, <1>2, AlwaysWellformed, QueueHolds, PromiseInductive, PTL DEF Spec, KeepsPromise, Abstract!OutboxSpec

-------------------------------------------------------------------------------
(* Mutations that the phone has sent once *)

\* As long as the app was not killed, what is sent again was marked for a retry.
PhoneRemembers ==
    /\ fault # "conflict"
    /\ kills = 0 /\ phase = "down" => \A m \in Mutations : status[m] = "absent"
    /\ \A m \in Mutations : retryAt[m] # "null" => retries[m] > 0
    /\ phase = "claim" => \A m \in batch : retries[m] = 0 => status[m] = "pending"

Untried(m) == retries[m] = 0 /\ kills = 0

\* Call r of the dispatcher is past the reservation of m.
Reserved(r, m) == pc[r] \notin {"idle", "find", "insert"} /\ subject[r] = m

\* A mutation that is not marked for a retry is in one request at most, nobody
\* has touched its row before the call that reserves it, and a conflict on its
\* way back to the phone is the handler's.
SentOnce(m) ==
    Untried(m) =>
        /\ status[m] \in {"absent", "pending"} => row[m] = "none" /\ \A r \in Calls : m \notin Carried(r)
        /\ \A r, s \in Calls : m \in Carried(r) /\ m \in Carried(s) => r = s
        /\ \A r \in Calls : m \in Carried(r) /\ ~ Reserved(r, m) => row[m] = "none"
        /\ \A r \in Calls : pc[r] # "idle" /\ subject[r] = m /\ reply[r] = "conflict" => m \in disputed
        /\ \A r \in Calls : m \in DOMAIN answers[r] /\ answers[r][m] = "conflict" => m \in disputed
        /\ m \in DOMAIN results /\ results[m] = "conflict" => m \in disputed
        /\ status[m] = "conflict" => m \in disputed

LEMMA RemembersStep == Wellformed /\ PhoneRemembers /\ [Next]_vars => PhoneRemembers'
<1> SUFFICES ASSUME Wellformed, PhoneRemembers, [Next]_vars PROVE PhoneRemembers'
  OBVIOUS
<1>1. /\ status \in [Mutations -> Phone!Status] /\ retries \in [Mutations -> Nat] /\ kills \in Nat
      /\ retryAt \in [Mutations -> {"null", "waiting", "due"}] /\ batch \subseteq Mutations
  BY OfflineAssumption DEF Wellformed, TypeOK, Phone!TypeOK
<1> USE <1>1 DEF PhoneRemembers, Phone!SetStatus, Phone!Leave, Phone!Trigger, Phone!table, Phone!worker
<1>2. CASE UNCHANGED phoneVars
  BY <1>2 DEF phoneVars
<1>3. ASSUME NEW f \in {"retryable", "fatal"}, Phone!RequestFails(f) PROVE PhoneRemembers'
  BY <1>3 DEF Phone!RequestFails
<1>4. ASSUME NEW rs, Phone!Receive(rs) PROVE PhoneRemembers'
  BY <1>4 DEF Phone!Receive
<1>5. CASE Phone!Environment
  <2>1. ASSUME NEW m \in Mutations, Phone!Enqueue(m) PROVE PhoneRemembers'
    BY <2>1 DEF Phone!Enqueue
  <2>2. ASSUME NEW m \in Mutations, Phone!BackoffElapses(m) PROVE PhoneRemembers'
    BY <2>2 DEF Phone!BackoffElapses
  <2>3. CASE Phone!Start
    BY <2>3 DEF Phone!Start
  <2>4. CASE Phone!Kill
    BY <2>4 DEF Phone!Kill
  <2>5. CASE Phone!NextSecond \/ Phone!ConnectivityRestored \/ Phone!Pause \/ Phone!Resume
    BY <2>5 DEF Phone!NextSecond, Phone!ConnectivityRestored, Phone!Pause, Phone!Resume
  <2> QED
    BY <1>5, <2>1, <2>2, <2>3, <2>4, <2>5 DEF Phone!Environment
<1>6. CASE Phone!Drain
  <2>1. CASE Phone!Fetch
    <3>1. \A m \in Phone!FetchEligible : m \in Mutations /\ (retries[m] = 0 => status[m] = "pending")
      BY DEF Phone!FetchEligible, Phone!Eligible
    <3> QED
      BY <2>1, <3>1 DEF Phone!Fetch
  <2>2. CASE Phone!Claim
    BY <2>2 DEF Phone!Claim
  <2>3. ASSUME NEW m \in Mutations, Phone!SettleOne(m) PROVE PhoneRemembers'
    BY <2>3 DEF Phone!SettleOne, Phone!MarkPermanentError, Phone!MarkEnded
  <2>4. ASSUME NEW m \in Mutations, Phone!FailOne(m) PROVE PhoneRemembers'
    BY <2>4 DEF Phone!FailOne, Phone!MarkPermanentError, Phone!MarkErrorWithBackoff, Phone!MarkEnded
  <2>5. CASE Phone!SettleThrows \/ Phone!SettleDone \/ Phone!FailDone \/ Phone!DrainThrows \/ Phone!CooldownEnds
    BY <2>5 DEF Phone!SettleThrows, Phone!SettleDone, Phone!FailDone, Phone!DrainThrows, Phone!CooldownEnds
  <2> QED
    BY <1>6, <2>1, <2>2, <2>3, <2>4, <2>5 DEF Phone!Drain
<1>7. Phone!Claim => Phone!Drain
  BY DEF Phone!Drain
<1> HIDE DEF PhoneRemembers
<1>8. ASSUME NEW r \in Calls, Post(r) \/ Deliver(r) \/ Refuse(r) \/ Lose(r) \/ Process(r) \/ Respond(r)
      PROVE  PhoneRemembers'
  BY <1>2, <1>3, <1>4, <1>6, <1>7, <1>8 DEF Post, Deliver, Refuse, Lose, Process, Respond
<1>9. CASE Work \/ Event \/ GiveUp \/ ServerRestart \/ UNCHANGED vars
  BY <1>2, <1>3, <1>5, <1>6, <1>7, <1>9 DEF Work, Event, GiveUp, ServerRestart, vars
<1> QED
  BY <1>8, <1>9 DEF Next

\* What the phone's steps do to a mutation that is not marked for a retry.
LEMMA UntriedSteps ==
  ASSUME Wellformed, PhoneRemembers, Queue!WorkIsInFlight, [Next]_vars, NEW m \in Mutations, Untried(m)'
  PROVE  /\ Untried(m)
         /\ status'[m] \in {"absent", "pending"} => status[m] \in {"absent", "pending"}
         /\ status'[m] = "conflict" => status[m] = "conflict" \/ (m \in DOMAIN results /\ results[m] = "conflict")
<1>1. /\ status \in [Mutations -> Phone!Status] /\ retries \in [Mutations -> Nat] /\ kills \in Nat
      /\ batch \subseteq Mutations
  BY OfflineAssumption DEF Wellformed, TypeOK, Phone!TypeOK
<1>2. [Phone!Next]_Phone!queueVars
  BY PhoneSteps
<1>3. /\ retries'[m] = 0 => retries[m] = 0
      /\ kills' = 0 => kills = 0
      /\ \/ status'[m] \in {"absent", "pending"} => status[m] \in {"absent", "pending"}
         \/ Phone!Start
  <2> USE <1>1 DEF Phone!SetStatus, Phone!table, Phone!worker, Phone!Leave
  <2>1. CASE Phone!Environment
    <3>1. ASSUME NEW k \in Mutations, Phone!Enqueue(k)
          PROVE  /\ retries' = retries /\ kills' = kills
                 /\ status'[m] \in {"absent", "pending"} => status[m] \in {"absent", "pending"}
      BY <3>1 DEF Phone!Enqueue
    <3>2. CASE Phone!Kill
      BY <3>2 DEF Phone!Kill
    <3> QED
      BY <2>1, <3>1, <3>2 DEF Phone!Environment, Phone!BackoffElapses, Phone!NextSecond, Phone!Start,
         Phone!ConnectivityRestored, Phone!Pause, Phone!Resume
  <2>2. CASE Phone!RequestEnds
    BY <2>2 DEF Phone!RequestEnds, Phone!Receive, Phone!RequestFails
  <2>3. CASE Phone!Fetch \/ Phone!Claim
    BY <2>3 DEF Phone!Fetch, Phone!Claim
  <2>4. ASSUME NEW k \in Mutations, Phone!SettleOne(k)
        PROVE /\ retries' = retries /\ kills' = kills
              /\ status'[m] \in {"absent", "pending"} => status[m] \in {"absent", "pending"}
    <3>1. k \in DOMAIN results /\ results[k] \in {"success", "conflict", "error"}
      BY <2>4 DEF Phone!SettleOne, Phone!First, Wellformed, TypeOK, Phone!TypeOK, Phone!ResultStatus
    <3> QED
      BY <2>4, <3>1 DEF Phone!SettleOne, Phone!MarkEnded, Phone!MarkPermanentError
  <2>5. ASSUME NEW k \in Mutations, Phone!FailOne(k)
        PROVE /\ retries'[m] = 0 => retries[m] = 0
              /\ kills' = kills
              /\ status'[m] \in {"absent", "pending"} => status[m] \in {"absent", "pending"}
    BY <2>5 DEF Phone!FailOne, Phone!MarkErrorWithBackoff, Phone!MarkEnded, Phone!MarkPermanentError
  <2>6. CASE Phone!SettleThrows \/ Phone!SettleDone \/ Phone!FailDone \/ Phone!DrainThrows \/ Phone!CooldownEnds
    BY <2>6 DEF Phone!SettleThrows, Phone!SettleDone, Phone!FailDone, Phone!DrainThrows, Phone!CooldownEnds
  <2>7. CASE UNCHANGED Phone!queueVars
    BY <2>7 DEF Phone!queueVars
  <2> QED
    BY <1>2, <2>1, <2>2, <2>3, <2>4, <2>5, <2>6, <2>7 DEF Phone!Next, Phone!Drain
<1>4. Untried(m)
  BY <1>3 DEF Untried
<1>5. Phone!Start => status[m] = "absent"
  BY <1>4 DEF PhoneRemembers, Untried, Phone!Start
<1>6. status'[m] = "conflict" => status[m] = "conflict" \/ (m \in DOMAIN results /\ results[m] = "conflict")
  BY <1>1, <1>2, FateSteps DEF PhoneRemembers
<1> QED
  BY <1>3, <1>4, <1>5, <1>6

\* The results that the phone has still to go through: fewer than before, or
\* those of the request that it waited for.
LEMMA ResultsCome ==
  ASSUME Wellformed, [Next]_vars, NEW m \in DOMAIN results'
  PROVE  \/ m \in DOMAIN results /\ results'[m] = results[m]
         \/ \E r \in Calls : m \in DOMAIN answers[r] /\ results'[m] = answers[r][m]
<1> USE DEF Phone!NoResults, Phone!Leave, Phone!table, Phone!worker
<1>1. Phone!Drain => m \in DOMAIN results /\ results'[m] = results[m]
  BY DEF Phone!Drain, Phone!Fetch, Phone!Claim, Phone!SettleOne, Phone!FailOne, Phone!SettleThrows, Phone!SettleDone,
         Phone!FailDone, Phone!DrainThrows, Phone!CooldownEnds
<1>2. Phone!Environment => m \in DOMAIN results /\ results'[m] = results[m]
  BY DEF Phone!Environment, Phone!Enqueue, Phone!BackoffElapses, Phone!NextSecond, Phone!Start, Phone!Kill,
         Phone!ConnectivityRestored, Phone!Pause, Phone!Resume
<1>3. Phone!Claim => Phone!Drain
  BY DEF Phone!Drain
<1>4. \A f : Phone!RequestFails(f) => results' = results
  BY DEF Phone!RequestFails
<1> QED
  BY <1>1, <1>2, <1>3, <1>4
     DEF Next, Work, Event, GiveUp, ServerRestart, Post, Deliver, Refuse, Lose, Process, Respond, Phone!Receive,
         vars, phoneVars

\* The row of a mutation is only written by the call that has it in hand and is
\* past its look-up.
LEMMA RowSteps ==
  ASSUME Wellformed, NEW r \in Calls, Process(r), NEW m \in Mutations, row'[m] # row[m]
  PROVE  pc[r] \in {"insert", "success", "failure"} /\ subject[r] = m
<1>1. row \in [Mutations -> Server!RowStatus]
  BY DEF Wellformed, TypeOK, Server!ServerTypeOK, Server!TypeOK
<1> QED
  BY <1>1 DEF Process, Server!Serve, Server!Proceed, Server!RefuseWorkflow, Server!DispatchNext, Server!Dispatch,
     Server!Collect, Server!Return, Server!dispatcherVars, Server!RejectUnknown, Server!FindExisting,
     Server!InsertPending, Server!HandlerCommits, Server!HandlerThrows, Server!MarkSuccess,
     Server!MarkSuccessFails, Server!MarkError, Server!MarkErrorFails

\* A call comes to the look-up or to the reservation from before it.
LEMMA BeforeReservation ==
  ASSUME Wellformed, NEW r \in Calls, Process(r), pc'[r] \in {"find", "insert"}
  PROVE  pc[r] \in {"idle", "find"}
<1>1. pc \in [Calls -> Server!Step]
  BY DEF Wellformed, TypeOK, Server!ServerTypeOK, Server!TypeOK
<1> QED
  BY <1>1 DEF Process, Server!Serve, Server!Proceed, Server!RefuseWorkflow, Server!DispatchNext, Server!Dispatch,
     Server!Collect, Server!Return, Server!dispatcherVars, Server!RejectUnknown, Server!FindExisting,
     Server!InsertPending, Server!HandlerCommits, Server!HandlerThrows, Server!MarkSuccess,
     Server!MarkSuccessFails, Server!MarkError, Server!MarkErrorFails, Server!Goto, Server!Finish

\* A call answers a conflict because it found the row 'pending', or because the
\* handler threw one, or because it had that answer before.
LEMMA ConflictSteps ==
  ASSUME Wellformed, NEW r \in Calls, Process(r), pc'[r] # "idle", reply'[r] = "conflict"
  PROVE  /\ pc[r] # "idle" /\ subject'[r] = subject[r]
         /\ \/ pc[r] = "find" /\ row[subject[r]] = "pending"
            \/ subject[r] \in disputed'
            \/ reply[r] = "conflict" /\ disputed \subseteq disputed'
<1>1. /\ pc \in [Calls -> Server!Step] /\ reply \in [Calls -> Server!Reply] /\ RequestIsWhole(r)
  BY DEF Wellformed, TypeOK, Server!ServerTypeOK, Server!TypeOK
<1>2. disputed \subseteq disputed'
  BY DEF Process
<1> USE <1>1, <1>2 DEF Server!Goto, Server!Answer, Server!Finish
<1>3. CASE Server!RefuseWorkflow(r) \/ Server!Return(r) \/ Server!Collect(r)
  BY <1>3 DEF Server!RefuseWorkflow, Server!Return, Server!Collect, Server!dispatcherVars
<1>4. CASE Server!DispatchNext(r)
  BY <1>4 DEF Server!DispatchNext, Server!Dispatch
<1>5. CASE Server!RejectUnknown(r) \/ Server!InsertPending(r) \/ Server!HandlerCommits(r)
  BY <1>5 DEF Server!RejectUnknown, Server!InsertPending, Server!HandlerCommits
<1>6. CASE Server!FindExisting(r)
  BY <1>6 DEF Server!FindExisting, Server!Cached
<1>7. CASE \E kind \in {"conflict", "error"} : Server!HandlerThrows(r, kind)
  BY <1>7 DEF Server!HandlerThrows, Process
<1>8. CASE Server!MarkSuccess(r) \/ Server!MarkSuccessFails(r)
  BY <1>8 DEF Server!MarkSuccess, Server!MarkSuccessFails
<1>9. CASE Server!MarkError(r) \/ Server!MarkErrorFails(r)
  BY <1>9 DEF Server!MarkError, Server!MarkErrorFails
<1> QED
  BY <1>3, <1>4, <1>5, <1>6, <1>7, <1>8, <1>9 DEF Process, Server!Serve, Server!Proceed

\* A step of the server keeps SentOnce.
LEMMA SentOnceServed ==
  ASSUME Wellformed, NEW r \in Calls, Process(r), [Next]_vars, NEW m \in Mutations, Untried(m), SentOnce(m)
  PROVE  SentOnce(m)'
<1>1. /\ row \in [Mutations -> Server!RowStatus] /\ pc \in [Calls -> Server!Step]
      /\ \A s \in Calls : RequestIsWhole(s)
      /\ todo \in [Calls -> Seq(Mutations)]
  BY DEF Wellformed, TypeOK, Server!ServerTypeOK, Server!TypeOK
<1>2. UNCHANGED <<status, results, transit>> /\ disputed \subseteq disputed'
  BY DEF Process, phoneVars, netVars
<1>3. \A s \in Calls : m \in Carried(s)' => m \in Carried(s)
  <2>1. ASSUME NEW s \in Calls, Post(s) PROVE FALSE
    <3>1. phase' = phase
      BY DEF Process, phoneVars
    <3>2. phase = "claim" /\ phase' = "post"
      BY <2>1 DEF Post, Phone!Claim
    <3> QED
      BY <3>1, <3>2
  <2> QED
    BY <2>1, CarriedSteps
<1>4. (\A s \in Calls : m \notin Carried(s)) => row'[m] = row[m]
  BY RowSteps, InHand
<1>5. status'[m] \in {"absent", "pending"} => row'[m] = "none" /\ \A s \in Calls : m \notin Carried(s)'
  BY <1>2, <1>3, <1>4 DEF SentOnce
<1>6. \A s, q \in Calls : m \in Carried(s)' /\ m \in Carried(q)' => s = q
  BY <1>3 DEF SentOnce
<1>7. ASSUME NEW s \in Calls, m \in Carried(s)', ~ Reserved(s, m)' PROVE row'[m] = "none"
  <2>1. m \in Carried(s)
    BY <1>3, <1>7
  <2>2. CASE s # r
    <3>1. row[m] = "none"
      BY <1>7, <2>1, <2>2, OthersWait DEF SentOnce, Reserved
    <3>2. row'[m] = row[m]
      <4>1. SUFFICES ASSUME row'[m] # row[m] PROVE FALSE
        OBVIOUS
      <4>2. pc[r] # "idle" /\ subject[r] = m
        BY <4>1, RowSteps
      <4>3. m \in Carried(r)
        BY <4>2, InHand
      <4> QED
        BY <2>1, <2>2, <4>3 DEF SentOnce
    <3> QED
      BY <3>1, <3>2
  <2>3. CASE s = r
    <3>1. stage[r] = "running" /\ transit[r] = <<>>
      BY <1>1, ServedRequest DEF RequestIsWhole
    <3>2. m \in Elements(todo[r]) /\ m \in Elements(todo'[r]) /\ transit'[r] = <<>>
      BY <1>2, <1>7, <2>1, <2>3, <3>1, EmptyList DEF Carried
    <3>3. pc[r] # "idle" => subject[r] = Head(todo[r])
      BY <1>1 DEF RequestIsWhole
    <3>4. CASE pc'[r] # "idle" /\ subject'[r] = Head(todo[r])
      <4>1. CASE m = Head(todo[r])
        <5>1. pc'[r] \in {"find", "insert"}
          BY <1>7, <2>3, <3>4, <4>1 DEF Reserved
        <5>2. pc[r] \in {"idle", "find"}
          BY <5>1, BeforeReservation
        <5>3. row[m] = "none"
          BY <2>1, <2>3, <5>2 DEF SentOnce, Reserved
        <5>4. row'[m] = row[m]
          BY <5>2, RowSteps
        <5> QED
          BY <5>3, <5>4
      <4>2. CASE m # Head(todo[r])
        <5>1. row'[m] = row[m]
          BY <3>3, <4>2, RowSteps
        <5>2. row[m] = "none"
          BY <2>1, <2>3, <3>3, <4>2 DEF SentOnce, Reserved
        <5> QED
          BY <5>1, <5>2
      <4> QED
        BY <4>1, <4>2
    <3>5. CASE todo[r] # <<>> /\ todo'[r] = Tail(todo[r]) /\ UNCHANGED row
      <4>1. m # Head(todo[r])
        BY <1>1, <3>2, <3>5, RestOfList DEF RequestIsWhole
      <4>2. row[m] = "none"
        BY <2>1, <2>3, <3>3, <4>1 DEF SentOnce, Reserved
      <4> QED
        BY <3>5, <4>2
    <3>6. CASE todo'[r] = <<>>
      BY <3>2, <3>6, EmptyList
    <3> QED
      BY <3>4, <3>5, <3>6, ServedRequest
  <2> QED
    BY <2>2, <2>3
<1>8. ASSUME NEW s \in Calls, pc'[s] # "idle", subject'[s] = m, reply'[s] = "conflict" PROVE m \in disputed'
  <2>1. CASE s # r
    BY <1>2, <1>8, <2>1, OthersWait DEF SentOnce
  <2>2. CASE s = r
    <3>1. /\ pc[r] # "idle" /\ subject[r] = m
          /\ \/ pc[r] = "find" /\ row[subject[r]] = "pending"
             \/ subject[r] \in disputed'
             \/ reply[r] = "conflict" /\ disputed \subseteq disputed'
      BY <1>8, <2>2, ConflictSteps
    <3>2. m \in Carried(r)
      BY <3>1, InHand
    <3>3. pc[r] = "find" => row[m] = "none"
      BY <3>2 DEF SentOnce, Reserved
    <3>4. reply[r] = "conflict" => m \in disputed
      BY <3>1 DEF SentOnce
    <3> QED
      BY <3>1, <3>3, <3>4
  <2> QED
    BY <2>1, <2>2
<1>9. ASSUME NEW s \in Calls, m \in DOMAIN answers'[s], answers'[s][m] = "conflict" PROVE m \in disputed'
  <2>1. CASE answers'[s] = answers[s]
    BY <1>2, <1>9, <2>1 DEF SentOnce
  <2>2. CASE answers'[s] # answers[s]
    <3>1. s = r
      BY <2>2, OthersWait
    <3>2. PICK item :
             /\ answers'[r] = [k \in DOMAIN answers[r] \cup {Head(todo[r])} |->
                                         IF k = Head(todo[r]) THEN item ELSE answers[r][k]]
             /\ \/ pc[r] = "idle" /\ item = "error"
                \/ pc[r] = "done" /\ subject[r] = Head(todo[r]) /\ item = Server!ItemOf(reply[r])
      BY <2>2, <3>1, ServedRequest
    <3>3. CASE m = Head(todo[r])
      <4>1. pc[r] = "done" /\ subject[r] = m /\ reply[r] = "conflict"
        BY <1>9, <3>1, <3>2, <3>3 DEF Server!ItemOf
      <4> QED
        BY <1>2, <4>1 DEF SentOnce
    <3>4. CASE m # Head(todo[r])
      BY <1>2, <1>9, <3>1, <3>2, <3>4 DEF SentOnce
    <3> QED
      BY <3>3, <3>4
  <2> QED
    BY <2>1, <2>2
<1> QED
  BY <1>2, <1>5, <1>6, <1>7, <1>8, <1>9 DEF SentOnce

\* Every other step keeps it too.
LEMMA SentOnceStep ==
  ASSUME Wellformed, Queue!WorkIsInFlight, PhoneRemembers, [Next]_vars, NEW m \in Mutations, SentOnce(m)
  PROVE  SentOnce(m)'
<1> SUFFICES ASSUME Untried(m)' PROVE SentOnce(m)'
  BY DEF SentOnce
<1>1. /\ Untried(m)
      /\ status'[m] \in {"absent", "pending"} => status[m] \in {"absent", "pending"}
      /\ status'[m] = "conflict" => status[m] = "conflict" \/ (m \in DOMAIN results /\ results[m] = "conflict")
  BY UntriedSteps
<1>2. ASSUME NEW r \in Calls, Process(r) PROVE SentOnce(m)'
  BY <1>1, <1>2, SentOnceServed
<1>3. ASSUME UNCHANGED <<row, disputed>>,
             \A r \in Calls :
                /\ (pc'[r] = pc[r] /\ subject'[r] = subject[r] /\ reply'[r] = reply[r]) \/ pc'[r] = "idle"
                /\ answers'[r] = answers[r] \/ DOMAIN answers'[r] = {}
      PROVE  /\ \A r \in Calls : pc'[r] # "idle" /\ subject'[r] = m /\ reply'[r] = "conflict" => m \in disputed'
             /\ \A r \in Calls : m \in DOMAIN answers'[r] /\ answers'[r][m] = "conflict" => m \in disputed'
             /\ m \in DOMAIN results' /\ results'[m] = "conflict" => m \in disputed'
             /\ status'[m] = "conflict" => m \in disputed'
  BY <1>1, <1>3, ResultsCome DEF SentOnce
<1>4. /\ pc \in [Calls -> Server!Step] /\ answers = [r \in Calls |-> answers[r]]
      /\ DOMAIN Server!NoAnswers = {} /\ \A r \in Calls : RequestIsWhole(r)
      /\ status \in [Mutations -> Phone!Status] /\ batch \subseteq Mutations
  BY DEF Wellformed, TypeOK, Server!ServerTypeOK, Server!TypeOK, OneAnswerEach, Server!NoAnswers, Phone!TypeOK
<1>5. ASSUME NEW r \in Calls, Post(r) PROVE SentOnce(m)'
  <2>1. /\ UNCHANGED <<row, disputed, pc, subject, reply, answers>> /\ phase = "claim"
        /\ \A k \in batch : status'[k] = "sending"
        /\ \A s \in Calls : m \in Carried(s)' /\ m \notin Carried(s) => s = r /\ m \in batch
        /\ \A s \in Calls : m \in Carried(s)' /\ m \notin Carried(s) => \A q \in Calls \ {r} : Carried(q)' = Carried(q)
    <3>1. /\ UNCHANGED <<row, disputed, pc, subject, reply, answers>> /\ phase = "claim"
          /\ \A k \in batch : status'[k] = "sending"
      BY <1>4, <1>5 DEF Post, Phone!Claim, Phone!SetStatus, serverVars
    <3>2. \A s \in Calls : Post(s) => s = r
      BY <1>4, <1>5, OfflineAssumption DEF Post
    <3> QED
      BY <3>1, <3>2, CarriedSteps
  <2>2. m \in batch => status[m] = "pending"
    BY <1>1, <2>1 DEF PhoneRemembers, Untried
  <2>3. m \in batch => row[m] = "none" /\ \A s \in Calls : m \notin Carried(s)
    BY <1>1, <2>2 DEF SentOnce
  <2>4. status'[m] \in {"absent", "pending"} => row'[m] = "none" /\ \A s \in Calls : m \notin Carried(s)'
    BY <1>1, <2>1 DEF SentOnce
  <2>5. \A s, q \in Calls : m \in Carried(s)' /\ m \in Carried(q)' => s = q
    BY <1>1, <2>1, <2>3 DEF SentOnce
  <2>6. \A s \in Calls : m \in Carried(s)' /\ ~ Reserved(s, m)' => row'[m] = "none"
    BY <1>1, <2>1, <2>3 DEF SentOnce, Reserved
  <2> QED
    BY <1>3, <2>1, <2>4, <2>5, <2>6 DEF SentOnce
<1>6. ASSUME UNCHANGED <<row, disputed>>,
             \A r \in Calls :
                /\ pc'[r] = pc[r] /\ subject'[r] = subject[r] /\ reply'[r] = reply[r]
                /\ answers'[r] = answers[r] \/ DOMAIN answers'[r] = {},
             \A r \in Calls : m \in Carried(r)' => m \in Carried(r)
      PROVE  SentOnce(m)'
  <2>1. /\ status'[m] \in {"absent", "pending"} => row'[m] = "none" /\ \A s \in Calls : m \notin Carried(s)'
        /\ \A s, q \in Calls : m \in Carried(s)' /\ m \in Carried(q)' => s = q
        /\ \A s \in Calls : m \in Carried(s)' /\ ~ Reserved(s, m)' => row'[m] = "none"
    BY <1>1, <1>6 DEF SentOnce, Reserved
  <2> QED
    BY <1>3, <1>6, <2>1 DEF SentOnce
<1>7. ASSUME \A r \in Calls : ~ Post(r) PROVE \A r \in Calls : m \in Carried(r)' => m \in Carried(r)
  BY <1>7, CarriedSteps
<1>8. CASE ServerRestart
  <2>1. UNCHANGED <<row, disputed>> /\ \A r \in Calls : pc'[r] = "idle" /\ DOMAIN answers'[r] = {} /\ todo'[r] = <<>>
    BY <1>4, <1>8 DEF ServerRestart, Server!ServerCrash
  <2>2. transit' = transit
    BY <1>8 DEF ServerRestart, netVars
  <2>3. \A r \in Calls : m \in Carried(r)' => m \in Carried(r) /\ ~ Reserved(r, m)
    <3> SUFFICES ASSUME NEW r \in Calls, m \in Carried(r)' PROVE m \in Carried(r) /\ ~ Reserved(r, m)
      OBVIOUS
    <3>1. m \in Elements(transit[r])
      BY <2>1, <2>2, EmptyList DEF Carried
    <3>2. transit[r] # <<>>
      BY <3>1, EmptyList
    <3>3. pc[r] = "idle"
      BY <1>4, <3>2 DEF RequestIsWhole
    <3> QED
      BY <3>1, <3>3 DEF Carried, Reserved
  <2>4. /\ status'[m] \in {"absent", "pending"} => row'[m] = "none" /\ \A s \in Calls : m \notin Carried(s)'
        /\ \A s, q \in Calls : m \in Carried(s)' /\ m \in Carried(q)' => s = q
        /\ \A s \in Calls : m \in Carried(s)' /\ ~ Reserved(s, m)' => row'[m] = "none"
    BY <1>1, <2>1, <2>3 DEF SentOnce
  <2> QED
    BY <1>3, <2>1, <2>4 DEF SentOnce
<1>9. ASSUME NEW r \in Calls, Deliver(r) \/ Refuse(r) \/ Lose(r) \/ Respond(r), ~ \E q \in Calls : Post(q) PROVE SentOnce(m)'
  <2>1. /\ UNCHANGED <<row, disputed, pc, subject, reply>>
        /\ answers' = answers \/ answers' = [answers EXCEPT ![r] = Server!NoAnswers]
    BY <1>9 DEF Deliver, Refuse, Lose, Respond, Server!Accept, Server!Release, Server!dispatcherVars, serverVars
  <2> QED
    BY <1>4, <1>6, <1>7, <1>9, <2>1
<1>10. CASE (Work \/ Event \/ GiveUp \/ UNCHANGED vars) /\ ~ \E q \in Calls : Post(q)
  <2>1. UNCHANGED <<row, disputed, pc, subject, reply, answers>>
    BY <1>10 DEF Work, Event, GiveUp, vars, serverVars
  <2> QED
    BY <1>6, <1>7, <1>10, <2>1
<1> QED
  BY <1>2, <1>5, <1>8, <1>9, <1>10 DEF Next

LEMMA OnceInductive == Spec => [](PhoneRemembers /\ \A m \in Mutations : SentOnce(m))
<1>1. Init => PhoneRemembers /\ \A m \in Mutations : SentOnce(m)
  BY EmptyList
     DEF Init, Phone!Init, Phone!NoResults, Server!ServerInit, Server!Init, Server!NoAnswers, PhoneRemembers,
         SentOnce, Carried, Reserved
<1>2. /\ Wellformed /\ Queue!WorkIsInFlight /\ PhoneRemembers /\ [Next]_vars
      /\ \A m \in Mutations : SentOnce(m)
      => (\A m \in Mutations : SentOnce(m))'
  BY SentOnceStep
<1> QED
  BY <1>1, <1>2, RemembersStep, AlwaysWellformed, QueueHolds, PTL DEF Spec

\* A conflict that the phone reports for a mutation it sent once is one that the
\* handler found, for any number of requests under way, lost, late or repeated:
\* only a retry, or an app that was killed, can be refused because of its own
\* first attempt.
THEOREM ConflictsAreGenuine == Spec => []ConflictIsGenuine
<1>1. Wellformed /\ (\A m \in Mutations : SentOnce(m)) => ConflictIsGenuine
  <2> SUFFICES ASSUME Wellformed, NEW m \in Mutations, SentOnce(m), status[m] = "conflict"
               PROVE  m \in disputed \/ retries[m] > 0 \/ kills > 0
    BY DEF ConflictIsGenuine
  <2>1. retries[m] \in Nat /\ kills \in Nat
    BY OfflineAssumption DEF Wellformed, TypeOK, Phone!TypeOK
  <2> QED
    BY <2>1 DEF SentOnce, Untried
<1> QED
  BY <1>1, OnceInductive, AlwaysWellformed, PTL
===============================================================================
