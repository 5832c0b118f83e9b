---------------------------- MODULE MCWorkflowRuns ----------------------------
(* A machine that FsmValidator accepts and whose final state has a way out. *)
EXTENDS WorkflowRuns

Reopened ==
    { [from |-> "awaiting_approval", event |-> "VALIDER", to |-> "cloture_confirmee"],
      [from |-> "cloture_confirmee", event |-> "RETOUR", to |-> "reconciliation"] }
===============================================================================
