------------------------------ MODULE SyncServer ------------------------------
(***************************************************************************)
(* POST /sync/mutations: SyncController.processBatch (sync/sync.controller) *)
(* over ActionDispatcher.  A request carries the mutations of a batch in    *)
(* order; the controller dispatches one after the other and collects one    *)
(* result per mutation.  A call of ActionDispatcher is the dispatch that    *)
(* its request is waiting for.                                              *)
(***************************************************************************)
EXTENDS ActionDispatcher, Sequences

VARIABLES
    stage,      \* stage[r]: "free", "running" or "answered"
    todo,       \* todo[r]: the mutations of the body not looked at yet
    answers     \* answers[r]: the results so far, by mutation

requestVars == <<stage, todo, answers>>
serverVars == <<dispatcherVars, requestVars>>

ItemStatus == {"success", "conflict", "error"}

NoAnswers == [m \in {} |-> "error"]

ServerTypeOK ==
    /\ TypeOK
    /\ stage \in [Calls -> {"free", "running", "answered"}]
    /\ todo \in [Calls -> Seq(Mutations)]
    /\ \A r \in Calls : \E done \in SUBSET Mutations : answers[r] \in [done -> ItemStatus]

ServerInit ==
    /\ Init
    /\ stage = [r \in Calls |-> "free"]
    /\ todo = [r \in Calls |-> <<>>]
    /\ answers = [r \in Calls |-> NoAnswers]

\* Mutant: every error that is no conflict passes for a success.
ItemOfLenient(outcome) == IF outcome = "conflict" THEN "conflict" ELSE "success"

\* Mutant: every error that the dispatcher throws is pushed as a conflict.
ItemOfStrict(outcome) == IF outcome \in {"success", "replay"} THEN "success" ELSE "conflict"

\* What the controller pushes for what dispatch() returned or threw.
ItemOf(outcome) ==
    IF outcome \in {"success", "replay"} THEN "success" ELSE outcome

Push(r, m, item) ==
    answers' = [answers EXCEPT ![r] =
                  [k \in DOMAIN @ \cup {m} |-> IF k = m THEN item ELSE @[k]]]

-------------------------------------------------------------------------------

\* The body has passed validation and the handler begins.
Accept(r, mutations) ==
    /\ stage[r] = "free"
    /\ stage' = [stage EXCEPT ![r] = "running"]
    /\ todo' = [todo EXCEPT ![r] = mutations]
    /\ answers' = [answers EXCEPT ![r] = NoAnswers]
    /\ UNCHANGED dispatcherVars

\* A workflow action is refused without being dispatched.
RefuseWorkflow(r) ==
    /\ stage[r] = "running"
    /\ pc[r] = "idle"
    /\ todo[r] # <<>>
    /\ Head(todo[r]) \in WorkflowMutations
    /\ Push(r, Head(todo[r]), "error")
    /\ todo' = [todo EXCEPT ![r] = Tail(@)]
    /\ UNCHANGED <<dispatcherVars, stage>>

\* await actionDispatcher.dispatch(...)
DispatchNext(r) ==
    /\ stage[r] = "running"
    /\ pc[r] = "idle"
    /\ todo[r] # <<>>
    /\ Head(todo[r]) \notin WorkflowMutations
    /\ Dispatch(r, Head(todo[r]))
    /\ UNCHANGED requestVars

\* The dispatch returned or threw: its result is pushed.
Collect(r) ==
    /\ stage[r] = "running"
    /\ pc[r] = "done"
    /\ Push(r, subject[r], ItemOf(reply[r]))
    /\ todo' = [todo EXCEPT ![r] = Tail(@)]
    /\ Goto(r, "idle")
    /\ UNCHANGED <<row, applied, erred, subject, reply, dispatches, stage>>

\* return { results }
Return(r) ==
    /\ stage[r] = "running"
    /\ pc[r] = "idle"
    /\ todo[r] = <<>>
    /\ stage' = [stage EXCEPT ![r] = "answered"]
    /\ UNCHANGED <<dispatcherVars, todo, answers>>

\* The response left, or nobody waits for it any more.
Release(r) ==
    /\ stage[r] = "answered"
    /\ stage' = [stage EXCEPT ![r] = "free"]
    /\ answers' = [answers EXCEPT ![r] = NoAnswers]
    /\ UNCHANGED <<dispatcherVars, todo>>

\* The process ends with everything it was doing.
ServerCrash ==
    /\ \E r \in Calls : stage[r] = "running"
    /\ pc' = [c \in Calls |-> "idle"]
    /\ reply' = [c \in Calls |-> "none"]
    /\ subject' = [c \in Calls |-> NoMutation]
    /\ stage' = [r \in Calls |-> "free"]
    /\ todo' = [r \in Calls |-> <<>>]
    /\ answers' = [r \in Calls |-> NoAnswers]
    /\ UNCHANGED <<row, applied, erred, dispatches>>

\* The steps of a request once it is accepted.
Serve(r) ==
    \/ RefuseWorkflow(r)
    \/ DispatchNext(r)
    \/ Proceed(r) /\ UNCHANGED requestVars
    \/ Collect(r)
    \/ Return(r)
===============================================================================
