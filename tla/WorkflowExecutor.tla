--------------------------- MODULE WorkflowExecutor ---------------------------
(***************************************************************************)
(* One run of a workflow: WorkflowExecutorService.run and executeDag, with   *)
(* StepDispatcher and RetryPolicy (engines/workflow/executor).  The steps    *)
(* of a batch run concurrently up to allSettled; their results are then     *)
(* handled in the order of the batch.  The audit log is left out (it buffers *)
(* and does not throw), and so are the outputs of the steps.                *)
(***************************************************************************)
EXTENDS Integers, Sequences, FiniteSets, Functions, Filters

CONSTANTS
    Steps,          \* step ids
    NoStep,         \* what branchStart is when no branch is being skipped
    Workflows,      \* the definitions loadWorkflow may return, see WorkflowDef
    MaxConcurrency, \* MAX_CONCURRENCY (4)
    MaxAttempts,    \* the attempts of RetryPolicy: its delays and one more (4)
    Faults          \* "database": a write fails; "process": the process ends

Kind == {"action", "condition", "notification", "approval"}

NoBranch == <<>>

\* A definition that validateDAG lets through: order is the array of steps,
\* guarded the steps with a condition, branch[s] the {true, false} of next.
WorkflowDef(wf) ==
    LET ids == Range(wf.order)
    IN  /\ wf.order \in Seq(Steps)
        /\ IsInjective(wf.order)
        /\ wf.deps \in [ids -> SUBSET ids]
        /\ \A S \in (SUBSET ids) \ {{}} : \E s \in S : wf.deps[s] \cap S = {}    \* no cycle
        /\ wf.kind \in [ids -> Kind]
        /\ wf.guarded \in SUBSET ids
        /\ wf.branch \in [ids -> {NoBranch} \cup (ids \X ids)]

ASSUME ExecutorAssumption ==
    /\ \A wf \in Workflows : WorkflowDef(wf)
    /\ MaxConcurrency \in Nat \ {0}
    /\ MaxAttempts \in Nat \ {0}
    /\ Faults \subseteq {"database", "process"}

VARIABLES
    wf,         \* the definition that runs
    phase,      \* where run() is
    ready,      \* executeDag: ready, inDegree, completed, skipped, stepError
    inDegree,
    completed,
    skipped,
    stepError,
    batch,      \* the steps of the batch under way
    work,       \* work[i]: processStep of batch[i]
    cursor,     \* the result being handled
    toSkip,     \* skipBranch: toProcess and branchStart
    branchStart,
    history,    \* ctx.history
    row,        \* current_state of the run's row, "none" before it is created
    result      \* finalState, or "thrown"

dag == <<ready, inDegree, completed, skipped, stepError>>
slots == <<batch, work, cursor>>
skipping == <<toSkip, branchStart>>
vars == <<wf, phase, dag, slots, skipping, history, row, result>>

StepStatus == {"running", "success", "skipped", "failed", "awaiting_approval"}

Ids == Range(wf.order)

TypeOK ==
    /\ wf \in Workflows
    /\ phase \in {"new", "loop", "batch", "results", "skip", "finish", "abort", "done"}
    /\ ready \in Seq(Ids)
    /\ inDegree \in [Ids -> Int]
    /\ completed \in SUBSET Ids
    /\ skipped \in SUBSET Ids
    /\ stepError \in BOOLEAN
    /\ batch \in Seq(Ids)
    /\ work \in Seq([at : {"acting", "approving", "settled"}, status : StepStatus,
                     attempts : 1 .. MaxAttempts, rejected : BOOLEAN, record : Nat])
    /\ Len(work) = Len(batch)
    /\ cursor \in Nat \ {0}
    /\ toSkip \in Seq(Ids)
    /\ branchStart \in Ids \cup {NoStep}
    /\ history \in Seq([step : Ids, status : StepStatus])
    /\ row \in {"none", "running", "awaiting_approval", "completed", "failed"}
    /\ result \in {"none", "awaiting_approval", "completed", "failed", "thrown", "lost"}

Init ==
    /\ wf \in Workflows
    /\ phase = "new"
    /\ ready = <<>>
    /\ inDegree = [s \in Ids |-> Cardinality(wf.deps[s])]
    /\ completed = {}
    /\ skipped = {}
    /\ stepError = FALSE
    /\ batch = <<>>
    /\ work = <<>>
    /\ cursor = 1
    /\ toSkip = <<>>
    /\ branchStart = NoStep
    /\ history = <<>>
    /\ row = "none"
    /\ result = "none"

Done == completed \cup skipped

-------------------------------------------------------------------------------

\* stateRepo.create, then executeDag with the entry points.
Create ==
    /\ phase = "new"
    /\ row' = "running"
    /\ ready' = Among(wf.order, {s \in Ids : wf.deps[s] = {}})
    /\ phase' = "loop"
    /\ UNCHANGED <<wf, inDegree, completed, skipped, stepError, slots, skipping, history, result>>

\* The first MaxConcurrency ids of ready that are not done; those before them
\* that are done are dropped.  processStep pushes a record of each at once.
TakeBatch ==
    /\ phase = "loop"
    /\ LET fresh == Among(ready, Ids \ Done)
           n == IF Len(fresh) < MaxConcurrency THEN Len(fresh) ELSE MaxConcurrency
       IN  /\ fresh # <<>>
           /\ batch' = SubSeq(fresh, 1, n)
           /\ ready' = SubSeq(fresh, n + 1, Len(fresh))
           /\ work' = [i \in 1 .. n |->
                 [at |-> "acting", status |-> "running", attempts |-> 1,
                  rejected |-> FALSE, record |-> Len(history) + i]]
           /\ history' = history \o [i \in 1 .. n |-> [step |-> fresh[i], status |-> "running"]]
    /\ phase' = "batch"
    /\ UNCHANGED <<wf, inDegree, completed, skipped, stepError, cursor, skipping, row, result>>

\* Nothing is left to do: the run is completed.
Exhausted ==
    /\ phase = "loop"
    /\ \A i \in 1 .. Len(ready) : ready[i] \in Done
    /\ ready' = <<>>
    /\ phase' = "finish"
    /\ UNCHANGED <<wf, inDegree, completed, skipped, stepError, slots, skipping, history, row, result>>

-------------------------------------------------------------------------------
(* processStep, for each step of the batch. *)

Kept == <<wf, phase, dag, batch, cursor, skipping, result>>

Record(i, s) == history' = [history EXCEPT ![work[i].record].status = s]

Settle(i, s, isRejected) ==
    /\ work' = [work EXCEPT ![i] = [@ EXCEPT !.at = "settled", !.status = s, !.rejected = isRejected]]
    /\ Record(i, s)

\* The condition, evaluated before the first attempt, is false: an ordinary
\* step is skipped, a condition step answers 'skipped' as well (and takes
\* the branch 'false' if it has one).
ConditionFalse(i) ==
    /\ work[i].at = "acting"
    /\ work[i].attempts = 1
    /\ batch[i] \in wf.guarded
    /\ Settle(i, "skipped", FALSE)
    /\ UNCHANGED <<Kept, row>>

\* A condition compares what is not a number.
ConditionThrows(i) ==
    /\ work[i].at = "acting"
    /\ work[i].attempts = 1
    /\ batch[i] \in wf.guarded
    /\ Settle(i, "failed", TRUE)
    /\ UNCHANGED <<Kept, row>>

\* The step did its work: a notification always does.
StepSucceeds(i) ==
    /\ work[i].at = "acting"
    /\ wf.kind[batch[i]] # "approval"
    /\ Settle(i, "success", FALSE)
    /\ UNCHANGED <<Kept, row>>

\* RetryPolicy: a transient error, and attempts are left.
Retry(i) ==
    /\ work[i].at = "acting"
    /\ wf.kind[batch[i]] = "action"
    /\ work[i].attempts < MaxAttempts
    /\ work' = [work EXCEPT ![i].attempts = @ + 1]
    /\ UNCHANGED <<Kept, history, row>>

\* A business error, one that is not transient, or the last attempt.
ActionThrows(i) ==
    /\ work[i].at = "acting"
    /\ wf.kind[batch[i]] = "action"
    /\ Settle(i, "failed", TRUE)
    /\ UNCHANGED <<Kept, row>>

\* An approval is recorded as awaited, then the row is.
AwaitApproval(i) ==
    /\ work[i].at = "acting"
    /\ wf.kind[batch[i]] = "approval"
    /\ work' = [work EXCEPT ![i].at = "approving"]
    /\ Record(i, "awaiting_approval")
    /\ UNCHANGED <<Kept, row>>

PersistApproval(i) ==
    /\ work[i].at = "approving"
    /\ Settle(i, "awaiting_approval", FALSE)
    /\ row' = "awaiting_approval"
    /\ UNCHANGED Kept

PersistApprovalFails(i) ==
    /\ "database" \in Faults
    /\ work[i].at = "approving"
    /\ Settle(i, "failed", TRUE)
    /\ UNCHANGED <<Kept, row>>

ProcessStep(i) ==
    \/ ConditionFalse(i)
    \/ ConditionThrows(i)
    \/ StepSucceeds(i)
    \/ Retry(i)
    \/ ActionThrows(i)
    \/ AwaitApproval(i)
    \/ PersistApproval(i)
    \/ PersistApprovalFails(i)

AllSettled ==
    /\ phase = "batch"
    /\ \A i \in 1 .. Len(work) : work[i].at = "settled"
    /\ phase' = "results"
    /\ cursor' = 1
    /\ UNCHANGED <<wf, dag, batch, work, skipping, history, row, result>>

-------------------------------------------------------------------------------
(* The loop over the results. *)

Handling == phase = "results" /\ cursor <= Len(batch)

Current == batch[cursor]

Successors(step, done) == {s \in Ids \ done : step \in wf.deps[s]}

\* Mutant: a successor waits for the decrement of its next predecessor.
EnqueueSuccessorsOffByOne(step, done) ==
    LET successors == Successors(step, done)
    IN  /\ inDegree' = [s \in Ids |-> IF s \in successors THEN inDegree[s] - 1 ELSE inDegree[s]]
        /\ ready' = ready \o Among(wf.order, {s \in successors : inDegree[s] <= 0})

\* enqueueSuccessors: the successors that are not done lose one predecessor.
EnqueueSuccessors(step, done) ==
    LET successors == Successors(step, done)
    IN  /\ inDegree' = [s \in Ids |-> IF s \in successors THEN inDegree[s] - 1 ELSE inDegree[s]]
        /\ ready' = ready \o Among(wf.order, {s \in successors : inDegree[s] - 1 <= 0})

\* Mutant: the failure is logged and the loop goes on.
HandleRejectedForgets ==
    /\ Handling
    /\ work[cursor].rejected
    /\ completed' = completed \cup {Current}
    /\ row' = "running"
    /\ cursor' = cursor + 1
    /\ UNCHANGED <<wf, phase, ready, inDegree, skipped, stepError, batch, work, skipping, history, result>>

\* A rejected step is done, its successors are not enqueued.  The loop ends
\* at once when every step of the batch was rejected.
HandleRejected ==
    /\ Handling
    /\ work[cursor].rejected
    /\ stepError' = TRUE
    /\ completed' = completed \cup {Current}
    /\ row' = "running"
    /\ cursor' = IF \A i \in 1 .. Len(work) : work[i].rejected THEN Len(batch) + 1 ELSE cursor + 1
    /\ UNCHANGED <<wf, phase, ready, inDegree, skipped, batch, work, skipping, history, result>>

\* An approval ends run() whatever else the batch did.
HandleApproval ==
    /\ Handling
    /\ work[cursor].status = "awaiting_approval"
    /\ phase' = "done"
    /\ result' = "awaiting_approval"
    /\ UNCHANGED <<wf, dag, slots, skipping, history, row>>

\* The branch that the condition step did not take, if it has branches.
NotTaken ==
    IF wf.kind[Current] = "condition" /\ wf.branch[Current] # NoBranch
    THEN IF work[cursor].status = "success" THEN <<wf.branch[Current][2]>> ELSE <<wf.branch[Current][1]>>
    ELSE <<>>

HandleResult ==
    /\ Handling
    /\ ~ work[cursor].rejected
    /\ work[cursor].status \in {"success", "skipped"}
    /\ row' = "running"
    /\ IF work[cursor].status = "skipped"
       THEN skipped' = skipped \cup {Current} /\ UNCHANGED completed
       ELSE completed' = completed \cup {Current} /\ UNCHANGED skipped
    /\ phase' = "skip"
    /\ toSkip' = NotTaken
    /\ branchStart' = IF NotTaken = <<>> THEN NoStep ELSE Head(NotTaken)
    /\ UNCHANGED <<wf, ready, inDegree, stepError, slots, history, result>>

\* One turn of skipBranch: the start of the branch is skipped in any case, a
\* later step only when all its predecessors are skipped.
SkipOne ==
    /\ phase = "skip"
    /\ toSkip # <<>>
    /\ LET current == Head(toSkip)
           done == Done \cup {current}
       IN  IF current \in Done \/ (current # branchStart /\ ~ wf.deps[current] \subseteq skipped)
           THEN toSkip' = Tail(toSkip) /\ UNCHANGED <<skipped, history, inDegree, ready>>
           ELSE /\ skipped' = skipped \cup {current}
                /\ history' = Append(history, [step |-> current, status |-> "skipped"])
                /\ toSkip' = Tail(toSkip) \o Among(wf.order, Successors(current, done))
                /\ EnqueueSuccessors(current, done)
    /\ UNCHANGED <<wf, phase, completed, stepError, slots, branchStart, row, result>>

\* After skipBranch: the successors of the step itself.
Advance ==
    /\ phase = "skip"
    /\ toSkip = <<>>
    /\ EnqueueSuccessors(Current, Done)
    /\ cursor' = cursor + 1
    /\ branchStart' = NoStep
    /\ phase' = "results"
    /\ UNCHANGED <<wf, completed, skipped, stepError, batch, work, toSkip, history, row, result>>

\* The end of the loop over the results.
BatchDone ==
    /\ phase = "results"
    /\ cursor > Len(batch)
    /\ phase' = IF stepError THEN "finish" ELSE "loop"
    /\ UNCHANGED <<wf, dag, slots, skipping, history, row, result>>

-------------------------------------------------------------------------------
(* The end of run(). *)

Verdict == IF stepError THEN "failed" ELSE "completed"

\* Mutant: the answer is given without the last write.
FinishUnsaved ==
    /\ phase = "finish"
    /\ result' = Verdict
    /\ phase' = "done"
    /\ UNCHANGED <<wf, dag, slots, skipping, history, row>>

Finish ==
    /\ phase = "finish"
    /\ row' = Verdict
    /\ result' = Verdict
    /\ phase' = "done"
    /\ UNCHANGED <<wf, dag, slots, skipping, history>>

\* A write of executeDag or of run() fails: run() catches it.
UpdateFails ==
    /\ "database" \in Faults
    /\ (Handling /\ work[cursor].status # "awaiting_approval") \/ phase = "finish"
    /\ phase' = "abort"
    /\ UNCHANGED <<wf, dag, slots, skipping, history, row, result>>

\* Mutant: the row is given a state of which nobody knows.
AbortAsError ==
    /\ phase = "abort"
    /\ row' = "error"
    /\ result' = "failed"
    /\ phase' = "done"
    /\ UNCHANGED <<wf, dag, slots, skipping, history>>

Abort ==
    /\ phase = "abort"
    /\ row' = "failed"
    /\ result' = "failed"
    /\ phase' = "done"
    /\ UNCHANGED <<wf, dag, slots, skipping, history>>

\* The write of the catch block, or the first one, fails: run() throws.
Throw ==
    /\ "database" \in Faults
    /\ phase \in {"new", "abort"}
    /\ result' = "thrown"
    /\ phase' = "done"
    /\ UNCHANGED <<wf, dag, slots, skipping, history, row>>

\* The process ends; nothing resumes the run.
Crash ==
    /\ "process" \in Faults
    /\ phase # "done"
    /\ result' = "lost"
    /\ phase' = "done"
    /\ UNCHANGED <<wf, dag, slots, skipping, history, row>>

Run ==
    \/ Create
    \/ TakeBatch
    \/ Exhausted
    \/ phase = "batch" /\ \E i \in 1 .. Len(work) : ProcessStep(i)
    \/ AllSettled
    \/ HandleRejected
    \/ HandleApproval
    \/ HandleResult
    \/ SkipOne
    \/ Advance
    \/ BatchDone
    \/ Finish
    \/ UpdateFails
    \/ Abort
    \/ Throw

Next == Run \/ Crash

Spec == Init /\ [][Next]_vars

FairSpec == Spec /\ WF_vars(Run)

-------------------------------------------------------------------------------
(* Properties. *)

\* A branch hangs on its condition: both targets of next depend on the step.
BranchesHang(w) ==
    \A s \in Range(w.order) : w.branch[s] # NoBranch =>
        \A t \in Range(w.branch[s]) : s \in w.deps[t]

\* AC-04 of STORY-030: a step starts only when everything it depends on is
\* done, in spite of the counters that skipped branches decrement as well; the
\* targets of a branch must depend on its condition, which validateDAG does
\* not demand.
TopologicalOrder ==
    BranchesHang(wf) /\ phase = "batch" =>
        \A i \in 1 .. Len(batch) : wf.deps[batch[i]] \subseteq Done

\* No step is run twice, or run and skipped: ready may hold an id twice, and
\* a branch may be skipped while its steps wait there.
RecordedOnce ==
    BranchesHang(wf) => \A i, j \in 1 .. Len(history) : history[i].step = history[j].step => i = j

\* A run is reported as completed only when no step was forgotten on the way:
\* each one succeeded or was skipped.
NothingForgotten ==
    result = "completed" =>
        /\ Done = Ids
        /\ \A i \in 1 .. Len(history) : history[i].status \in {"success", "skipped"}

\* A step is skipped because its own condition is false, because a condition
\* did not take its branch, or because all it depends on was skipped: the
\* cascade of a branch stops where another branch joins (AC-09).
SkippedForAReason ==
    \A s \in skipped :
        \/ s \in wf.guarded
        \/ \E c \in Done : s \in Range(wf.branch[c])
        \/ wf.deps[s] # {} /\ wf.deps[s] \subseteq skipped

\* Once a step has failed no other batch is started (AC-06).
NoStartAfterFailure ==
    [][ (\E i \in 1 .. Len(history) : history[i].status = "failed") /\ phase = "loop"
           => phase' # "batch" ]_vars

\* A run that ends is not left 'running' in the table, where it would keep
\* every later run of the same entity out.
EndsInTheTable == result \in {"completed", "failed"} => row = result

RunOf ==
    CASE phase = "new" -> "none"
      [] phase = "done" -> IF result \in {"thrown", "lost"} THEN "lost" ELSE result
      [] phase \notin {"new", "done"} ->
            IF \E i \in 1 .. Len(work) : work[i].at = "settled" /\ work[i].status = "awaiting_approval"
            THEN "gated" ELSE "active"

Row == INSTANCE WorkflowRow WITH state <- row, run <- RunOf

\* What a run does to its row is what WorkflowRow says, which WorkflowRuns
\* builds on: it pauses or ends once, completes only if no approval is
\* awaited, and never touches the row afterwards.
ImplementsRow == Row!RowSpec

\* run() answers its caller, whatever fails, unless the process ends.
Answers == <>(result # "none")

\* AC-12 and AC-17: a run that answered awaiting_approval says so in the table.
ApprovalIsPersisted == result = "awaiting_approval" => row = "awaiting_approval"

\* What goes wrong with an approval goes wrong only next to other steps of its
\* batch: an approval at the head of its batch is in the table when the run
\* answers, and a failure it hides is one of the same batch.
ApprovalAloneIsKept ==
    result = "awaiting_approval" =>
        /\ cursor = 1 => row = "awaiting_approval"
        /\ \A i \in 1 .. Len(history) : history[i].status = "failed" => history[i].step \in Range(batch)

\* The steps of a run: none starts before those it depends on, none counts
\* twice, none is forgotten or skipped without a reason, and the table says how
\* the run came out, an approval next to other steps of its batch excepted.
StepsAreAccounted ==
    /\ TopologicalOrder /\ RecordedOnce
    /\ NothingForgotten /\ SkippedForAReason
    /\ EndsInTheTable /\ ApprovalAloneIsKept

===============================================================================
