------------------------------ MODULE MCServices ------------------------------
(***************************************************************************)
(* Five services that share the database and Redis but none of each        *)
(* other's state, checked in one run: the steps of one of them are taken,  *)
(* the others stay as they began.                                          *)
(***************************************************************************)
EXTENDS Integers, WorkflowRuns, TLC

CONSTANTS
    Nobody,                                                                 \* of CrudEntities and TenantScope
    Fields, EntityTime,                                                     \* of CrudEntities
    Entries, Critical, Anonymous, PurgeEvents, Retentions, MaxSize, DropThreshold,
    MinDays, DefaultDays, MaxDays, Limit, AuditTime,                        \* of AuditTrail
    Requests, Tenants, Connections, None, TTL, ScopeTime,                   \* of TenantScope
    Nodes, Loads, L1TTL, L2TTL, MaxMessages, MaxClock                       \* of LayoutCache

ASSUME EntitiesAssumption == Fields # {} /\ EntityTime \in Nat

\* No audited call is both critical and one of the purge's own events
\* (SYNC_AUDIT_ACTIONS), and the buffer is flushed before it overflows.
ASSUME AuditAssumption ==
    /\ Entries \subseteq Nat \ {0} /\ IsFiniteSet(Entries)
    /\ PurgeEvents \subseteq Entries \ Critical
    /\ Retentions \subseteq Int
    /\ MaxSize \in Nat \ {0} /\ DropThreshold \in Nat /\ MaxSize <= DropThreshold
    /\ MinDays \in Nat /\ DefaultDays \in Nat /\ MaxDays \in Nat
    /\ Limit \in Nat \ {0} /\ AuditTime \in Nat

ASSUME ScopeAssumption ==
    /\ None \notin Tenants /\ Nobody \notin Requests
    /\ TTL \in Nat \ {0} /\ ScopeTime \in Nat

ASSUME LayoutAssumption == L1TTL \in Nat /\ L2TTL \in Nat /\ MaxMessages \in Nat /\ MaxClock \in Nat

VARIABLES
    part,                                                                   \* whose steps are taken
    eRow, eClock, ePc, request, copy, changed, stamp, eAnswer, log, eFound, apart,
    buffer, flying, purging, table, created, day, cursor, pages, present, excused,
    active, cache, clock, at, scope, found, setting, holder, grace,
    l1, l2, load, inbox, job, ticks

Entities == INSTANCE CrudEntities WITH
    MaxTime <- EntityTime,
    row <- eRow, clock <- eClock, pc <- ePc, answer <- eAnswer, found <- eFound
Audit == INSTANCE AuditTrail WITH MaxTime <- AuditTime
Scope == INSTANCE TenantScope WITH MaxTime <- ScopeTime
Layout == INSTANCE LayoutCache

entityVars == <<eRow, eClock, ePc, request, copy, changed, stamp, eAnswer, log, eFound, apart>>
auditVars == <<buffer, flying, purging, table, created, day, cursor, pages, present, excused>>
scopeVars == <<active, cache, clock, at, scope, found, setting, holder, grace>>
layoutVars == <<l1, l2, load, inbox, job, ticks>>
serviceVars == <<vars, part, entityVars, auditVars, scopeVars, layoutVars>>

\* A till closing, entered where the run pauses.
Closing ==
    { [from |-> "awaiting_approval", event |-> "VALIDER", to |-> "reconciliation"],
      [from |-> "reconciliation", event |-> "CONFIRMER", to |-> "cloture_confirmee"],
      [from |-> "reconciliation", event |-> "RETOUR", to |-> "awaiting_approval"] }

\* What a tenant's configuration may say: no number, too few days, too many.
AnyRetention == {-1, 0, 3}

ServicesInit ==
    /\ part \in {"runs", "entities", "audit", "scope", "layout"}
    /\ Init /\ Entities!Init /\ Audit!Init /\ Scope!Init /\ Layout!Init

RunsNext == part = "runs" /\ Next
    /\ UNCHANGED <<part, entityVars, auditVars, scopeVars, layoutVars>>
EntitiesNext == part = "entities" /\ Entities!Next
    /\ UNCHANGED <<part, vars, auditVars, scopeVars, layoutVars>>
AuditNext == part = "audit" /\ Audit!Next
    /\ UNCHANGED <<part, vars, entityVars, scopeVars, layoutVars>>
ScopeNext == part = "scope" /\ Scope!Next
    /\ UNCHANGED <<part, vars, entityVars, auditVars, layoutVars>>
LayoutNext == part = "layout" /\ Layout!Next
    /\ UNCHANGED <<part, vars, entityVars, auditVars, scopeVars>>

ServicesNext == RunsNext \/ EntitiesNext \/ AuditNext \/ ScopeNext \/ LayoutNext

ServicesSpec == ServicesInit /\ [][ServicesNext]_serviceVars

-------------------------------------------------------------------------------
(* What the run checks *)

\* Every service keeps its variables in their types.
TypesOK ==
    CASE part = "runs" -> TypeOK
      [] part = "entities" -> Entities!TypeOK
      [] part = "audit" -> Audit!TypeOK
      [] part = "scope" -> Scope!TypeOK
      [] part = "layout" -> Layout!TypeOK

UpdatesAreKept == part = "entities" => Entities!UpdatesAreKept
CheckedSawLatest == Entities!CheckedSawLatest
AuditIsKept == part = "audit" => Audit!AuditIsKept
PagesComplete == part = "audit" => Audit!PagesComplete
DeactivationBites == Scope!DeactivationBites
RunnerSeesItsTenant == part = "scope" => Scope!RunnerSeesItsTenant
CopiesDie == part = "layout" => Layout!CopiesDie
===============================================================================
