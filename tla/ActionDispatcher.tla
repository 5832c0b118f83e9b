--------------------------- MODULE ActionDispatcher ---------------------------
(***************************************************************************)
(* The server's ActionDispatcherService and the IdempotencyService it       *)
(* leans on (engines/action/services): standard actions, and the workflow   *)
(* actions start_workflow and transition_workflow.  Several HTTP calls run  *)
(* at once and share one row per client mutation in table sync_mutations.   *)
(* Every await of the code is a point where another call, or the end of the *)
(* process, can come in: a call is therefore a little program whose steps   *)
(* are the database round trips it makes.                                  *)
(*                                                                         *)
(* The handler's own work (a CRUD handler, WorkflowExecutor.run, the FSM's  *)
(* transition) is abstracted to "its effect was committed" or "it threw":   *)
(* CrudEntities, WorkflowExecutor and WorkflowRuns open it.  Validation and *)
(* resolution precede the reservation, change nothing and are part of       *)
(* Dispatch (RejectUnknown is their early exit).                            *)
(***************************************************************************)
EXTENDS Naturals

CONSTANTS
    Calls,          \* the server's concurrent invocations of dispatch()
    Mutations,      \* client_mutation_id values
    WorkflowMutations, \* those that are start_workflow or transition_workflow
    NoMutation,     \* what an invocation that has not begun works on
    MaxDispatches   \* bound: how many times dispatch() is entered in a behaviour

ASSUME DispatcherAssumption ==
    /\ MaxDispatches \in Nat
    /\ WorkflowMutations \subseteq Mutations
    /\ NoMutation \notin Mutations

VARIABLES
    row,        \* row[m]: status of the sync_mutations row of m, "none" if absent
    applied,    \* applied[m]: how many times a handler committed m's effect
    erred,      \* history: the mutations whose row was ever set to 'error'
    pc,         \* pc[c]: the next database round trip of call c
    subject,    \* subject[c]: the mutation call c works on
    reply,      \* reply[c]: what call c answered, or the error it will rethrow
    dispatches  \* how many times dispatch() was entered

dispatcherVars == <<row, applied, erred, pc, subject, reply, dispatches>>

RowStatus == {"none", "pending", "success", "error"}

\* "success" is the full response, "replay" the cached one without the entity.
Reply == {"none", "success", "replay", "conflict", "error"}

Step == {"idle", "find", "insert", "handler", "success", "failure", "done"}

TypeOK ==
    /\ row \in [Mutations -> RowStatus]
    /\ applied \in [Mutations -> Nat]
    /\ erred \in SUBSET Mutations
    /\ pc \in [Calls -> Step]
    /\ subject \in [Calls -> Mutations \cup {NoMutation}]
    /\ \A c \in Calls : pc[c] # "idle" => subject[c] \in Mutations
    /\ reply \in [Calls -> Reply]
    /\ dispatches \in 0 .. MaxDispatches

Init ==
    /\ row = [m \in Mutations |-> "none"]
    /\ applied = [m \in Mutations |-> 0]
    /\ erred = {}
    /\ pc = [c \in Calls |-> "idle"]
    /\ subject = [c \in Calls |-> NoMutation]
    /\ reply = [c \in Calls |-> "none"]
    /\ dispatches = 0

Goto(c, step) == pc' = [pc EXCEPT ![c] = step]

Answer(c, r) == reply' = [reply EXCEPT ![c] = r]

Finish(c, r) == Goto(c, "done") /\ Answer(c, r)

-------------------------------------------------------------------------------

\* A call enters dispatch() for mutation m.
Dispatch(c, m) ==
    /\ pc[c] \in {"idle", "done"}
    /\ dispatches < MaxDispatches
    /\ dispatches' = dispatches + 1
    /\ subject' = [subject EXCEPT ![c] = m]
    /\ Goto(c, "find")
    /\ Answer(c, "none")
    /\ UNCHANGED <<row, applied, erred>>

\* The module, the action, the payload or the run is not known: refused before
\* anything is reserved.
RejectUnknown(c) ==
    /\ pc[c] = "find"
    /\ Finish(c, "error")
    /\ UNCHANGED <<row, applied, erred, subject, dispatches>>

\* What is answered when the row is in 'success': the row keeps a workflow's
\* whole response, but only the data of a standard action's.
Cached(m) == IF m \in WorkflowMutations THEN "success" ELSE "replay"

\* Mutant: a row still 'pending' is taken for an answer to replay.
FindExistingTrustsPending(c) ==
    /\ pc[c] = "find"
    /\ \/ row[subject[c]] \in {"success", "pending"} /\ Finish(c, Cached(subject[c]))
       \/ row[subject[c]] = "error" /\ Goto(c, "handler") /\ UNCHANGED reply
       \/ row[subject[c]] = "none" /\ Goto(c, "insert") /\ UNCHANGED reply
    /\ UNCHANGED <<row, applied, erred, subject, dispatches>>

\* checkAndReserve: findOne and the branch on the status it read.  A row in
\* 'error' lets the call through and is left as it is.
FindExisting(c) ==
    /\ pc[c] = "find"
    /\ \/ row[subject[c]] = "success" /\ Finish(c, Cached(subject[c]))
       \/ row[subject[c]] = "pending" /\ Finish(c, "conflict")
       \/ row[subject[c]] = "error" /\ Goto(c, "handler") /\ UNCHANGED reply
       \/ row[subject[c]] = "none" /\ Goto(c, "insert") /\ UNCHANGED reply
    /\ UNCHANGED <<row, applied, erred, subject, dispatches>>

\* Mutant: INSERT ... ON CONFLICT DO UPDATE SET status = 'pending'.
InsertPendingUpserts(c) ==
    /\ pc[c] = "insert"
    /\ row' = [row EXCEPT ![subject[c]] = "pending"]
    /\ Goto(c, "handler")
    /\ UNCHANGED <<applied, erred, subject, reply, dispatches>>

\* Mutant: INSERT ... ON CONFLICT DO NOTHING, the lost race goes unnoticed.
InsertPendingIgnoresConflict(c) ==
    /\ pc[c] = "insert"
    /\ row' = [row EXCEPT ![subject[c]] = IF @ = "none" THEN "pending" ELSE @]
    /\ Goto(c, "handler")
    /\ UNCHANGED <<applied, erred, subject, reply, dispatches>>

\* checkAndReserve: the INSERT.  client_mutation_id is unique, so the second
\* of two inserts fails; it is outside the try block and marks nothing.
InsertPending(c) ==
    /\ pc[c] = "insert"
    /\ \/ /\ row[subject[c]] = "none"
          /\ row' = [row EXCEPT ![subject[c]] = "pending"]
          /\ Goto(c, "handler")
          /\ UNCHANGED reply
       \/ /\ row[subject[c]] # "none"
          /\ Finish(c, "error")
          /\ UNCHANGED row
    /\ UNCHANGED <<applied, erred, subject, dispatches>>

\* handler.execute commits its effect.
HandlerCommits(c) ==
    /\ pc[c] = "handler"
    /\ applied' = [applied EXCEPT ![subject[c]] = @ + 1]
    /\ Goto(c, "success")
    /\ UNCHANGED <<row, erred, subject, reply, dispatches>>

\* The handler is not registered, or throws before it commits: a
\* ConflictException (kind "conflict") or any other error (kind "error").
HandlerThrows(c, kind) ==
    /\ pc[c] = "handler"
    /\ Goto(c, "failure")
    /\ Answer(c, kind)
    /\ UNCHANGED <<row, applied, erred, subject, dispatches>>

\* markSuccess, then the audit log (which never throws) and the answer.
MarkSuccess(c) ==
    /\ pc[c] = "success"
    /\ row' = [row EXCEPT ![subject[c]] = "success"]
    /\ Finish(c, "success")
    /\ UNCHANGED <<applied, erred, subject, dispatches>>

\* markSuccess throws (the database went away): the catch block follows,
\* although the handler's effect is committed.
MarkSuccessFails(c) ==
    /\ pc[c] = "success"
    /\ Goto(c, "failure")
    /\ Answer(c, "error")
    /\ UNCHANGED <<row, applied, erred, subject, dispatches>>

\* markError, an unconditional UPDATE, then the error is rethrown.
MarkError(c) ==
    /\ pc[c] = "failure"
    /\ row' = [row EXCEPT ![subject[c]] = "error"]
    /\ erred' = erred \cup {subject[c]}
    /\ Goto(c, "done")
    /\ UNCHANGED <<applied, subject, reply, dispatches>>

\* markError itself throws: for a standard action its error replaces the one
\* being handled, for a workflow action it is caught and logged.
MarkErrorFails(c) ==
    /\ pc[c] = "failure"
    /\ Finish(c, IF subject[c] \in WorkflowMutations THEN reply[c] ELSE "error")
    /\ UNCHANGED <<row, applied, erred, subject, dispatches>>

\* The server process ends: every call it was running is gone, unanswered.
Crash ==
    /\ \E c \in Calls : pc[c] \notin {"idle", "done"}
    /\ pc' = [c \in Calls |-> "idle"]
    /\ reply' = [c \in Calls |-> "none"]
    /\ subject' = [c \in Calls |-> NoMutation]
    /\ UNCHANGED <<row, applied, erred, dispatches>>

\* Every step of a running call.
Proceed(c) ==
    \/ RejectUnknown(c)
    \/ FindExisting(c)
    \/ InsertPending(c)
    \/ HandlerCommits(c)
    \/ \E kind \in {"conflict", "error"} : HandlerThrows(c, kind)
    \/ MarkSuccess(c)
    \/ MarkSuccessFails(c)
    \/ MarkError(c)
    \/ MarkErrorFails(c)

Next ==
    \/ \E c \in Calls, m \in Mutations : Dispatch(c, m)
    \/ \E c \in Calls : Proceed(c)
    \/ Crash

Spec == Init /\ [][Next]_dispatcherVars

-------------------------------------------------------------------------------

\* Whoever is told that a mutation succeeded, and every later reader of its
\* row, can rely on the handler's effect being in the database: the row and
\* the answer follow the effect (action-dispatcher.service.ts, the order of
\* execute and markSuccess, and the refusal of a mutation still 'pending').
SuccessIsApplied ==
    /\ \A m \in Mutations : row[m] = "success" => applied[m] >= 1
    /\ \A c \in Calls : reply[c] \in {"success", "replay"} => applied[subject[c]] >= 1

\* A mutation no attempt of which was recorded as failed is executed at most
\* once, however many calls carry it, interleave, or die half-way.
AppliedOnceUnlessErred ==
    \A m \in Mutations \ erred : applied[m] <= 1

\* A recorded success is final unless an attempt of the same mutation was, or
\* in this very step is, recorded as failed: no call that lost the race to
\* reserve the row puts it back to 'pending' or takes it away.
SuccessKept ==
    [][\A m \in Mutations :
          row[m] = "success" /\ row'[m] # "success" => m \in erred]_dispatcherVars
===============================================================================
