----------------------------- MODULE WorkflowRuns -----------------------------
(***************************************************************************)
(* One workflow of one entity: the calls that start it (run() up to the      *)
(* creation of the row), the run that goes on, and the calls that move the   *)
(* row through the workflow's state machine (WorkflowFsmService.transition). *)
(* The executor and the state machine share the row of workflow_states.      *)
(* What the run does to the row is WorkflowRow, which WorkflowExecutor       *)
(* implements.                                                              *)
(***************************************************************************)
EXTENDS Naturals, Sequences, FiniteSets

CONSTANTS
    Calls,      \* concurrent requests
    NoCall,
    Machine,    \* the state machine: a set of records [from, event, to]
    Finals,     \* its final states; nothing in the code forbids a transition out of one
    MaxCalls    \* bound: how many requests there are in all

ASSUME MachineAssumption ==
    /\ NoCall \notin Calls
    /\ MaxCalls \in Nat
    /\ \A t \in Machine : t = [from |-> t.from, event |-> t.event, to |-> t.to]
    /\ \A t \in Machine : t.from # "none" /\ t.to # "none"
    /\ \A t, u \in Machine : t.from = u.from /\ t.event = u.event => t = u

VARIABLES
    state,      \* current_state of the row
    run,        \* the run that created the row, see WorkflowRow
    entries,    \* the machine's entries in the column history
    pc,         \* where each request is
    event,      \* the event a request brings
    seen,       \* the row a transition read under its lock: [state, entries]
    locked,     \* who holds the row lock
    answer,     \* what each request was answered
    starters,   \* history: the requests whose run began
    calls       \* how many requests there were

vars == <<state, run, entries, pc, event, seen, locked, answer, starters, calls>>

Row == INSTANCE WorkflowRow

Events == {t.event : t \in Machine}

RowStates == {"none", "running", "awaiting_approval", "completed", "failed"}
                 \cup {t.from : t \in Machine} \cup {t.to : t \in Machine}

Entry == [from : RowStates, event : Events, to : RowStates]

Answer == {"none", "moved", "denied", "not_started", "already_running", "error",
           "awaiting_approval", "completed", "failed"}

TypeOK ==
    /\ state \in RowStates
    /\ run \in Row!RunStatus
    /\ entries \in Seq(Entry)
    /\ pc \in [Calls -> {"idle", "check", "create", "executing", "find", "lock", "commit"}]
    /\ event \in [Calls -> Events \cup {"none"}]
    /\ seen \in [Calls -> [state : RowStates, entries : Seq(Entry)]]
    /\ locked \in Calls \cup {NoCall}
    /\ answer \in [Calls -> Answer]
    /\ starters \in SUBSET Calls
    /\ calls \in 0 .. MaxCalls

NothingSeen == [state |-> "none", entries |-> <<>>]

Init ==
    /\ Row!RowInit
    /\ entries = <<>>
    /\ pc = [c \in Calls |-> "idle"]
    /\ event = [c \in Calls |-> "none"]
    /\ seen = [c \in Calls |-> NothingSeen]
    /\ locked = NoCall
    /\ answer = [c \in Calls |-> "none"]
    /\ starters = {}
    /\ calls = 0

Goto(c, step) == pc' = [pc EXCEPT ![c] = step]

Reply(c, a) == Goto(c, "idle") /\ answer' = [answer EXCEPT ![c] = a]

Arrive(c, step, e) ==
    /\ pc[c] = "idle"
    /\ answer[c] = "none"
    /\ calls < MaxCalls
    /\ calls' = calls + 1
    /\ Goto(c, step)
    /\ event' = [event EXCEPT ![c] = e]
    /\ UNCHANGED <<state, run, entries, seen, locked, answer, starters>>

-------------------------------------------------------------------------------
(* run(). *)

Start(c) == Arrive(c, "check", "none")

\* findByEntityAndWorkflow: only a row that is 'running' stands in the way.
CheckExisting(c) ==
    /\ pc[c] = "check"
    /\ IF state = "running"
       THEN Reply(c, "already_running")
       ELSE Goto(c, "create") /\ UNCHANGED answer
    /\ UNCHANGED <<state, run, entries, event, seen, locked, starters, calls>>

\* Mutant: the schema has no UNIQUE (entity_id, workflow_id).
CreateAnyway(c) ==
    /\ pc[c] = "create"
    /\ state' = "running"
    /\ run' = "active"
    /\ Goto(c, "executing")
    /\ starters' = starters \cup {c}
    /\ UNCHANGED <<entries, answer, event, seen, locked, calls>>

\* stateRepo.create: the table has UNIQUE (entity_id, workflow_id), whatever
\* became of the run that made the row there is.
Create(c) ==
    /\ pc[c] = "create"
    /\ \/ /\ state = "none"
          /\ Row!Begin
          /\ Goto(c, "executing")
          /\ starters' = starters \cup {c}
          /\ UNCHANGED answer
       \/ /\ state # "none"
          /\ Reply(c, "error")
          /\ UNCHANGED <<state, run, starters>>
    /\ UNCHANGED <<entries, event, seen, locked, calls>>

\* Mutant: the run's UPDATE leaves the history as it is.
ExecuteKeepsHistory(c) ==
    /\ pc[c] = "executing"
    /\ locked = NoCall
    /\ Row!Progress \/ Row!Gate
    /\ UNCHANGED <<entries, pc, event, seen, locked, answer, starters, calls>>

\* The run writes its row: an UPDATE by id, which waits for the row lock and
\* replaces the history by that of the run.
Execute(c) ==
    /\ pc[c] = "executing"
    /\ locked = NoCall
    /\ Row!Progress \/ Row!Gate
    /\ entries' = <<>>
    /\ UNCHANGED <<pc, event, seen, locked, answer, starters, calls>>

EndRun(c) ==
    /\ pc[c] = "executing"
    /\ locked = NoCall
    /\ Row!Complete \/ Row!Fail
    /\ Reply(c, run')
    /\ entries' = <<>>
    /\ UNCHANGED <<event, seen, locked, starters, calls>>

PauseRun(c) ==
    /\ pc[c] = "executing"
    /\ Row!Pause
    /\ Reply(c, "awaiting_approval")
    /\ UNCHANGED <<entries, event, seen, locked, starters, calls>>

-------------------------------------------------------------------------------
(* transition(). *)

Transition(c, e) == Arrive(c, "find", e)

\* Mutant: a missing run is answered by a status of its own.
FindRunUntyped(c) ==
    /\ pc[c] = "find"
    /\ IF state = "none"
       THEN Reply(c, "missing")
       ELSE Goto(c, "lock") /\ UNCHANGED answer
    /\ UNCHANGED <<state, run, entries, event, seen, locked, starters, calls>>

\* findByRunId in the dispatcher: there is a run.
FindRun(c) ==
    /\ pc[c] = "find"
    /\ IF state = "none"
       THEN Reply(c, "not_started")
       ELSE Goto(c, "lock") /\ UNCHANGED answer
    /\ UNCHANGED <<state, run, entries, event, seen, locked, starters, calls>>

\* Mutant: a plain SELECT.
LockRowNot(c) ==
    /\ pc[c] = "lock"
    /\ seen' = [seen EXCEPT ![c] = [state |-> state, entries |-> entries]]
    /\ Goto(c, "commit")
    /\ UNCHANGED <<state, run, entries, event, locked, answer, starters, calls>>

\* SELECT ... FOR UPDATE.
LockRow(c) ==
    /\ pc[c] = "lock"
    /\ locked = NoCall
    /\ locked' = c
    /\ seen' = [seen EXCEPT ![c] = [state |-> state, entries |-> entries]]
    /\ Goto(c, "commit")
    /\ UNCHANGED <<state, run, entries, event, answer, starters, calls>>

\* The states a machine knows: one without a transition has to be a final one
\* or a target.
Known == Finals \cup {t.from : t \in Machine} \cup {t.to : t \in Machine}

Unlock(c) == locked' = IF locked = c THEN NoCall ELSE locked

\* The machine has the event in the state that was read, be it a final one: the
\* row is updated and the transaction commits.
Commit(c) ==
    /\ pc[c] = "commit"
    /\ \E t \in Machine :
          /\ t.from = seen[c].state
          /\ t.event = event[c]
          /\ state' = t.to
          /\ entries' = Append(seen[c].entries, t)
    /\ Reply(c, "moved")
    /\ Unlock(c)
    /\ UNCHANGED <<run, event, seen, starters, calls>>

\* It does not: denied, or (a state the machine does not know) an error of
\* the machine's library.  The transaction is rolled back.
Deny(c) ==
    /\ pc[c] = "commit"
    /\ \A t \in Machine : t.from = seen[c].state => t.event # event[c]
    /\ Reply(c, IF seen[c].state \in Known THEN "denied" ELSE "error")
    /\ Unlock(c)
    /\ UNCHANGED <<state, run, entries, event, seen, starters, calls>>

\* The process ends: its requests, its run and its lock are gone.
Crash ==
    /\ \E c \in Calls : pc[c] # "idle"
    /\ pc' = [c \in Calls |-> "idle"]
    /\ locked' = NoCall
    /\ run' = IF Row!Going THEN "lost" ELSE run
    /\ UNCHANGED <<state, entries, event, seen, answer, starters, calls>>

Next ==
    \/ \E c \in Calls :
          \/ Start(c) \/ CheckExisting(c) \/ Create(c) \/ Execute(c) \/ EndRun(c) \/ PauseRun(c)
          \/ \E e \in Events : Transition(c, e)
          \/ FindRun(c) \/ LockRow(c) \/ Commit(c) \/ Deny(c)
    \/ Crash

Spec == Init /\ [][Next]_vars

-------------------------------------------------------------------------------
(* Properties. *)

\* What the column says happened could happen: its entries are transitions of
\* the machine, each begins where the one before ended, and the last one ended
\* in the row's state.  Of two transitions at once the second sees the first
\* (AC-08 and AC-18 of STORY-031).  A run that is still going replaces the
\* column, and the path begins again.
HistoryIsPath ==
    entries # <<>> =>
        /\ \A i \in 1 .. Len(entries) : entries[i] \in Machine
        /\ \A i \in 1 .. Len(entries) - 1 : entries[i].to = entries[i + 1].from
        /\ entries[Len(entries)].to = state

\* However many requests start the workflow at once, one run begins: the check
\* for a running row races, the unique key of the table does not.
OneRun == Cardinality(starters) <= 1

\* The step takes the row along t, and adds t to the history there is.
Along(t) == t.from = state /\ t.to = state' /\ entries' = Append(entries, t)

\* A request that is answered "moved" took the row along a transition for its
\* event from where the row was at that moment, not from where it was when the
\* request began or waited for the lock; and once its run is over nothing else
\* moves a row, a late start included.
OnlyLegalMoves ==
    [][/\ \A c \in Calls : answer[c] = "none" /\ answer'[c] = "moved" =>
              \E t \in Machine : t.event = event[c] /\ Along(t)
       /\ state # "none" /\ ~ Row!Going /\ state' # state =>
              \E t \in Machine : Along(t)]_vars

\* AC-07 of STORY-031: no transition is possible after a final state.  It is the
\* definition that has to see to it: FsmValidator and transition() do not.
FinalIsFinal ==
    [][(state \in Finals /\ ~ Row!Going) => state' = state]_vars
===============================================================================
