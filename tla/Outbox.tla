-------------------------------- MODULE Outbox --------------------------------
(***************************************************************************)
(* What the offline queue and the server promise together, whatever         *)
(* happens to the phone, the network and the server in between: an action    *)
(* taken offline is kept, takes effect on the server only after the user     *)
(* took it, and what the user is told about it is true and does not change.  *)
(***************************************************************************)
CONSTANT Mutations

VARIABLES
    fate,       \* fate[m]: what the phone knows of the action m
    effects     \* the actions that took effect on the server

outboxVars == <<fate, effects>>

Fate == {"none", "waiting", "confirmed", "conflict"}

OutboxInit ==
    /\ fate = [m \in Mutations |-> "none"]
    /\ effects = {}

Told(m, before, after) ==
    /\ fate[m] = before
    /\ fate' = [fate EXCEPT ![m] = after]
    /\ UNCHANGED effects

Act(m) == Told(m, "none", "waiting")

\* An effect may come after its conflict was reported, never before the act.
TakeEffect(m) ==
    /\ fate[m] # "none"
    /\ effects' = effects \cup {m}
    /\ UNCHANGED fate

Confirm(m) == m \in effects /\ Told(m, "waiting", "confirmed")

ReportConflict(m) == Told(m, "waiting", "conflict")

OutboxNext ==
    \E m \in Mutations : Act(m) \/ TakeEffect(m) \/ Confirm(m) \/ ReportConflict(m)

OutboxSpec == OutboxInit /\ [][OutboxNext]_outboxVars
===============================================================================
