----------------------- MODULE ActionDispatcher_proofs -----------------------
(***************************************************************************)
(* Proofs about ActionDispatcher for any sets of calls and mutations and    *)
(* any bound on the dispatches.                                             *)
(***************************************************************************)
EXTENDS ActionDispatcher, TLAPS

\* Call c is past the reservation of its mutation and has not ended it yet.
Working(c) == pc[c] \in {"handler", "success", "failure"}

\* What makes SuccessIsApplied inductive: a call about to record the success
\* has committed its effect, and only an ended call has answered success.
EffectPrecedesRecord ==
    /\ SuccessIsApplied
    /\ \A c \in Calls : reply[c] \in {"success", "replay"} => pc[c] = "done"
    /\ \A c \in Calls : pc[c] = "success" => applied[subject[c]] >= 1

\* What makes AppliedOnceUnlessErred inductive: as long as no attempt at m
\* was recorded as failed, its row is the lock of the one call working on m.
RowIsLock ==
    \A m \in Mutations \ erred :
        /\ row[m] # "error"
        /\ row[m] = "none" => applied[m] = 0
        /\ applied[m] <= 1
        /\ \A c \in Calls : Working(c) /\ subject[c] = m =>
              /\ row[m] = "pending"
              /\ pc[c] = "handler" => applied[m] = 0
              /\ \A d \in Calls : Working(d) /\ subject[d] = m => d = c

-------------------------------------------------------------------------------

\* Every variable keeps its type, and a call past "idle" works on a mutation.
THEOREM TypeCorrect == Spec => []TypeOK
<1> USE DispatcherAssumption DEF TypeOK, RowStatus, Reply, Step
<1>1. Init => TypeOK
  BY DEF Init
<1>2. TypeOK /\ [Next]_dispatcherVars => TypeOK'
  <2> SUFFICES ASSUME TypeOK, [Next]_dispatcherVars PROVE TypeOK'
    OBVIOUS
  <2> USE DEF Goto, Answer, Finish, Cached
  <2>1. ASSUME NEW c \in Calls, NEW m \in Mutations, Dispatch(c, m) PROVE TypeOK'
    BY <2>1 DEF Dispatch
  <2>2. ASSUME NEW c \in Calls, RejectUnknown(c) PROVE TypeOK'
    BY <2>2 DEF RejectUnknown
  <2>3. ASSUME NEW c \in Calls, FindExisting(c) PROVE TypeOK'
    BY <2>3 DEF FindExisting
  <2>4. ASSUME NEW c \in Calls, InsertPending(c) PROVE TypeOK'
    BY <2>4 DEF InsertPending
  <2>5. ASSUME NEW c \in Calls, HandlerCommits(c) PROVE TypeOK'
    BY <2>5 DEF HandlerCommits
  <2>6. ASSUME NEW c \in Calls, NEW kind \in {"conflict", "error"}, HandlerThrows(c, kind)
        PROVE TypeOK'
    BY <2>6 DEF HandlerThrows
  <2>7. ASSUME NEW c \in Calls, MarkSuccess(c) PROVE TypeOK'
    BY <2>7 DEF MarkSuccess
  <2>8. ASSUME NEW c \in Calls, MarkSuccessFails(c) PROVE TypeOK'
    BY <2>8 DEF MarkSuccessFails
  <2>9. ASSUME NEW c \in Calls, MarkError(c) PROVE TypeOK'
    BY <2>9 DEF MarkError
  <2>10. ASSUME NEW c \in Calls, MarkErrorFails(c) PROVE TypeOK'
    BY <2>10 DEF MarkErrorFails
  <2>11. CASE Crash
    BY <2>11 DEF Crash
  <2>12. CASE UNCHANGED dispatcherVars
    BY <2>12 DEF dispatcherVars
  <2>13. QED
    BY <2>1, <2>2, <2>3, <2>4, <2>5, <2>6, <2>7, <2>8, <2>9, <2>10, <2>11, <2>12
    DEF Next, Proceed
<1>3. QED
  BY <1>1, <1>2, PTL DEF Spec

-------------------------------------------------------------------------------

\* A 'success' row and a successful answer both imply a committed effect.
THEOREM SuccessIsAppliedAlways == Spec => []SuccessIsApplied
<1>1. Init => EffectPrecedesRecord
  BY DEF Init, EffectPrecedesRecord, SuccessIsApplied
<1>2. TypeOK /\ EffectPrecedesRecord /\ [Next]_dispatcherVars => EffectPrecedesRecord'
  <2> SUFFICES ASSUME TypeOK, EffectPrecedesRecord, [Next]_dispatcherVars
               PROVE  EffectPrecedesRecord'
    OBVIOUS
  <2> USE DEF Goto, Answer, Finish, Cached, TypeOK, EffectPrecedesRecord, SuccessIsApplied
  <2>1. ASSUME NEW c \in Calls, NEW m \in Mutations, Dispatch(c, m)
        PROVE  EffectPrecedesRecord'
    BY <2>1 DEF Dispatch
  <2>2. ASSUME NEW c \in Calls, RejectUnknown(c) PROVE EffectPrecedesRecord'
    BY <2>2 DEF RejectUnknown
  <2>3. ASSUME NEW c \in Calls, FindExisting(c) PROVE EffectPrecedesRecord'
    BY <2>3 DEF FindExisting
  <2>4. ASSUME NEW c \in Calls, InsertPending(c) PROVE EffectPrecedesRecord'
    BY <2>4 DEF InsertPending
  <2>5. ASSUME NEW c \in Calls, HandlerCommits(c) PROVE EffectPrecedesRecord'
    <3>1. \A m \in Mutations : applied'[m] \in Nat /\ applied'[m] >= applied[m]
      BY <2>5 DEF HandlerCommits
    <3>2. applied'[subject[c]] >= 1
      BY <2>5 DEF HandlerCommits
    <3>3. \A d \in Calls : /\ reply[d] \in {"success", "replay"} => subject[d] \in Mutations
                           /\ pc[d] = "success" => subject[d] \in Mutations
      BY DEF TypeOK
    <3>4. QED
      BY <2>5, <3>1, <3>2, <3>3 DEF HandlerCommits
  <2>6. ASSUME NEW c \in Calls, NEW kind \in {"conflict", "error"}, HandlerThrows(c, kind)
        PROVE  EffectPrecedesRecord'
    BY <2>6 DEF HandlerThrows
  <2>7. ASSUME NEW c \in Calls, MarkSuccess(c) PROVE EffectPrecedesRecord'
    BY <2>7 DEF MarkSuccess
  <2>8. ASSUME NEW c \in Calls, MarkSuccessFails(c) PROVE EffectPrecedesRecord'
    BY <2>8 DEF MarkSuccessFails
  <2>9. ASSUME NEW c \in Calls, MarkError(c) PROVE EffectPrecedesRecord'
    BY <2>9 DEF MarkError
  <2>10. ASSUME NEW c \in Calls, MarkErrorFails(c) PROVE EffectPrecedesRecord'
    BY <2>10 DEF MarkErrorFails
  <2>11. CASE Crash
    BY <2>11 DEF Crash
  <2>12. CASE UNCHANGED dispatcherVars
    BY <2>12 DEF dispatcherVars
  <2>13. QED
    BY <2>1, <2>2, <2>3, <2>4, <2>5, <2>6, <2>7, <2>8, <2>9, <2>10, <2>11, <2>12
    DEF Next, Proceed
<1>3. EffectPrecedesRecord => SuccessIsApplied
  BY DEF EffectPrecedesRecord
<1>4. QED
  BY <1>1, <1>2, <1>3, TypeCorrect, PTL DEF Spec

-------------------------------------------------------------------------------

\* The row of a mutation that never failed is held by at most one call.
LEMMA RowIsLockInductive == TypeOK /\ RowIsLock /\ [Next]_dispatcherVars => RowIsLock'
<1> SUFFICES ASSUME TypeOK, RowIsLock, [Next]_dispatcherVars PROVE RowIsLock'
  OBVIOUS
<1> USE DEF Goto, Answer, Finish, Cached, TypeOK, RowIsLock, Working
<1>1. ASSUME NEW c \in Calls, NEW m \in Mutations, Dispatch(c, m) PROVE RowIsLock'
  BY <1>1 DEF Dispatch
<1>2. ASSUME NEW c \in Calls, RejectUnknown(c) PROVE RowIsLock'
  BY <1>2 DEF RejectUnknown
<1>3. ASSUME NEW c \in Calls, FindExisting(c) PROVE RowIsLock'
  BY <1>3 DEF FindExisting
<1>4. ASSUME NEW c \in Calls, InsertPending(c) PROVE RowIsLock'
  BY <1>4 DEF InsertPending
<1>5. ASSUME NEW c \in Calls, HandlerCommits(c) PROVE RowIsLock'
  BY <1>5 DEF HandlerCommits
<1>6. ASSUME NEW c \in Calls, NEW kind \in {"conflict", "error"}, HandlerThrows(c, kind)
      PROVE  RowIsLock'
  BY <1>6 DEF HandlerThrows
<1>7. ASSUME NEW c \in Calls, MarkSuccess(c) PROVE RowIsLock'
  BY <1>7 DEF MarkSuccess
<1>8. ASSUME NEW c \in Calls, MarkSuccessFails(c) PROVE RowIsLock'
  BY <1>8 DEF MarkSuccessFails
<1>9. ASSUME NEW c \in Calls, MarkError(c) PROVE RowIsLock'
  BY <1>9 DEF MarkError
<1>10. ASSUME NEW c \in Calls, MarkErrorFails(c) PROVE RowIsLock'
  BY <1>10 DEF MarkErrorFails
<1>11. CASE Crash
  BY <1>11 DEF Crash
<1>12. CASE UNCHANGED dispatcherVars
  BY <1>12 DEF dispatcherVars
<1>13. QED
  BY <1>1, <1>2, <1>3, <1>4, <1>5, <1>6, <1>7, <1>8, <1>9, <1>10, <1>11, <1>12
  DEF Next, Proceed

LEMMA RowIsLockAlways == Spec => [](TypeOK /\ RowIsLock)
<1>1. Init => RowIsLock
  BY DEF Init, RowIsLock, Working
<1>2. QED
  BY <1>1, RowIsLockInductive, TypeCorrect, PTL DEF Spec

\* A mutation none of whose attempts was recorded as failed is executed at
\* most once.
THEOREM AppliedOnce == Spec => []AppliedOnceUnlessErred
<1>1. RowIsLock => AppliedOnceUnlessErred
  BY DEF RowIsLock, AppliedOnceUnlessErred
<1>2. QED
  BY <1>1, RowIsLockAlways, PTL

\* A recorded success is only ever overwritten for a mutation that failed.
THEOREM SuccessIsKept == Spec => SuccessKept
<1> DEFINE Kept == \A m \in Mutations : row[m] = "success" /\ row'[m] # "success" => m \in erred
<1>1. ASSUME TypeOK, RowIsLock, [Next]_dispatcherVars PROVE [Kept]_dispatcherVars
  <2> USE <1>1 DEF Goto, Answer, Finish, TypeOK, RowIsLock, Working
  <2>1. ASSUME NEW c \in Calls, InsertPending(c) PROVE Kept
    BY <2>1 DEF InsertPending
  <2>2. ASSUME NEW c \in Calls, MarkSuccess(c) PROVE Kept
    BY <2>2 DEF MarkSuccess
  <2>3. ASSUME NEW c \in Calls, MarkError(c) PROVE Kept
    BY <2>3 DEF MarkError
  <2>4. ASSUME row' = row PROVE Kept
    BY <2>4
  <2>5. QED
    BY <2>1, <2>2, <2>3, <2>4
    DEF Next, Proceed, dispatcherVars, Dispatch, RejectUnknown, FindExisting, HandlerCommits,
        HandlerThrows, MarkSuccessFails, MarkErrorFails, Crash
<1>2. QED
  BY <1>1, RowIsLockAlways, PTL DEF Spec, SuccessKept
===============================================================================
