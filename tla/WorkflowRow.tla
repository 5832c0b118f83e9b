------------------------------ MODULE WorkflowRow ------------------------------
(***************************************************************************)
(* What one run of a workflow does to its row of workflow_states: the        *)
(* abstract specification of WorkflowExecutor.  The run writes its row while *)
(* it goes on, it either pauses at an approval or ends with a verdict, and   *)
(* after that it leaves the row alone.                                      *)
(***************************************************************************)
VARIABLES
    state,  \* current_state, "none" before the row exists
    run     \* how far the run is, and in the end what it answered

rowVars == <<state, run>>

RunStatus == {"none", "active", "gated", "awaiting_approval", "completed", "failed", "lost"}

Going == run \in {"active", "gated"}

RowInit == state = "none" /\ run = "none"

Begin == run = "none" /\ state = "none" /\ state' = "running" /\ run' = "active"

Progress == Going /\ state' = "running" /\ UNCHANGED run

Gate == Going /\ state' = "awaiting_approval" /\ run' = "gated"

Pause == run = "gated" /\ run' = "awaiting_approval" /\ UNCHANGED state

Complete == run = "active" /\ state' = "completed" /\ run' = "completed"

Fail == Going /\ state' = "failed" /\ run' = "failed"

\* The process ends, or the database fails for good.
Vanish == run \in {"none", "active", "gated"} /\ run' = "lost" /\ UNCHANGED state

RunStep == Progress \/ Gate \/ Pause \/ Complete \/ Fail \/ Vanish

RowNext == Begin \/ RunStep

RowSpec == RowInit /\ [][RowNext]_rowVars
===============================================================================
