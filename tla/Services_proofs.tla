---------------------------- MODULE Services_proofs ----------------------------
(***************************************************************************)
(* Proofs about the services of MCServices: the shared row of a workflow,   *)
(* the tenant scope of a request, the layout cache, the audit log, and the  *)
(* concurrent handlers of CrudEntities, whose own proofs are in             *)
(* CrudEntities_proofs.  They hold for any values of the constants that the *)
(* assumptions of MCServices and of WorkflowRuns allow.                     *)
(***************************************************************************)
EXTENDS MCServices, FiniteSetTheorems, TLAPS

(* The shared row of a workflow *)

\* What makes OneRun inductive: a row, once made, is never unmade, and only
\* the request that makes it starts a run.
RunMadeRow ==
    /\ \A c, d \in starters : c = d
    /\ starters # {} => state # "none"

\* What makes HistoryIsPath inductive: the request about to commit holds the
\* row lock, and what it read under the lock is still what the row says.
SeenIsCurrent ==
    \A c \in Calls : pc[c] = "commit" =>
        /\ locked = c
        /\ seen[c].state = state
        /\ seen[c].entries = entries

\* Only a row that exists is locked or has a history.
RowExists ==
    /\ state = "none" => entries = <<>>
    /\ \A c \in Calls : pc[c] \in {"lock", "commit"} => state # "none"

-------------------------------------------------------------------------------

\* Every variable keeps its type: whatever requests, the run and the machine
\* write into the row is a state and a history the table can hold.
THEOREM TypeCorrect == Spec => []TypeOK
<1>a. {"none", "running", "awaiting_approval", "completed", "failed"} \subseteq RowStates
  BY DEF RowStates
<1>b. \A t \in Machine : t \in Entry
  BY MachineAssumption DEF Entry, RowStates, Events
<1>c. \A t \in Machine : t.to \in RowStates
  BY DEF RowStates
<1>d. MaxCalls \in Nat
  BY MachineAssumption
<1> USE <1>a, <1>d DEF TypeOK, Answer, Row!RunStatus
<1>1. Init => TypeOK
  BY DEF Init, Row!RowInit, NothingSeen
<1>2. TypeOK /\ [Next]_vars => TypeOK'
  <2> SUFFICES ASSUME TypeOK, [Next]_vars PROVE TypeOK'
    OBVIOUS
  <2> USE DEF Goto, Reply
  <2>1. ASSUME NEW c \in Calls, Start(c) PROVE TypeOK'
    BY <2>1 DEF Start, Arrive
  <2>2. ASSUME NEW c \in Calls, NEW e \in Events, Transition(c, e) PROVE TypeOK'
    BY <2>2 DEF Transition, Arrive
  <2>3. ASSUME NEW c \in Calls, CheckExisting(c) PROVE TypeOK'
    BY <2>3 DEF CheckExisting
  <2>4. ASSUME NEW c \in Calls, Create(c) PROVE TypeOK'
    BY <2>4 DEF Create, Row!Begin
  <2>5. ASSUME NEW c \in Calls, Execute(c) PROVE TypeOK'
    BY <2>5 DEF Execute, Row!Progress, Row!Gate, Row!Going
  <2>6. ASSUME NEW c \in Calls, EndRun(c) PROVE TypeOK'
    BY <2>6 DEF EndRun, Row!Complete, Row!Fail, Row!Going
  <2>7. ASSUME NEW c \in Calls, PauseRun(c) PROVE TypeOK'
    BY <2>7 DEF PauseRun, Row!Pause
  <2>8. ASSUME NEW c \in Calls, FindRun(c) PROVE TypeOK'
    BY <2>8 DEF FindRun
  <2>9. ASSUME NEW c \in Calls, LockRow(c) PROVE TypeOK'
    BY <2>9 DEF LockRow
  <2>10. ASSUME NEW c \in Calls, Commit(c) PROVE TypeOK'
    <3>1. PICK t \in Machine : state' = t.to /\ entries' = Append(seen[c].entries, t)
      BY <2>10 DEF Commit
    <3>2. t \in Entry
      BY <1>b
    <3>3. entries' \in Seq(Entry)
      BY <3>1, <3>2
    <3>4. state' \in RowStates
      BY <1>c, <3>1
    <3> QED
      BY <2>10, <3>3, <3>4 DEF Commit, Unlock
  <2>11. ASSUME NEW c \in Calls, Deny(c) PROVE TypeOK'
    BY <2>11 DEF Deny, Unlock
  <2>12. CASE Crash
    BY <2>12 DEF Crash, Row!Going
  <2>13. CASE UNCHANGED vars
    BY <2>13 DEF vars
  <2> QED
    BY <2>1, <2>2, <2>3, <2>4, <2>5, <2>6, <2>7, <2>8, <2>9, <2>10, <2>11, <2>12, <2>13 DEF Next
<1> QED
  BY <1>1, <1>2, PTL DEF Spec

-------------------------------------------------------------------------------

\* However many requests start the workflow at once, however they interleave
\* with transitions, the run and crashes, at most one of them begins a run.
THEOREM OneRunAlways == Spec => []OneRun
<1>1. Init => RunMadeRow
  BY DEF Init, RunMadeRow
<1>2. TypeOK /\ RunMadeRow /\ [Next]_vars => RunMadeRow'
  <2> SUFFICES ASSUME TypeOK, RunMadeRow, [Next]_vars PROVE RunMadeRow'
    OBVIOUS
  <2> USE MachineAssumption DEF RunMadeRow
  <2>1. ASSUME NEW c \in Calls, Create(c) PROVE RunMadeRow'
    BY <2>1 DEF Create, Row!Begin
  <2>2. ASSUME NEW c \in Calls, Execute(c) \/ EndRun(c) \/ PauseRun(c) PROVE RunMadeRow'
    BY <2>2 DEF Execute, EndRun, PauseRun, Row!Progress, Row!Gate, Row!Complete, Row!Fail, Row!Pause
  <2>3. ASSUME NEW c \in Calls, Commit(c) PROVE RunMadeRow'
    BY <2>3 DEF Commit
  <2>4. CASE UNCHANGED <<state, starters>>
    BY <2>4
  <2> QED
    BY <2>1, <2>2, <2>3, <2>4
       DEF Next, Start, Transition, Arrive, CheckExisting, FindRun, LockRow, Deny, Crash, vars
<1>3. RunMadeRow => OneRun
  <2> SUFFICES ASSUME RunMadeRow PROVE Cardinality(starters) <= 1
    BY DEF OneRun
  <2>1. CASE starters = {}
    BY <2>1, FS_EmptySet
  <2>2. CASE starters # {}
    <3>1. PICK c \in starters : starters = {c}
      BY <2>2 DEF RunMadeRow
    <3> QED
      BY <3>1, FS_Singleton
  <2> QED
    BY <2>1, <2>2
<1> QED
  BY <1>1, <1>2, <1>3, TypeCorrect, PTL DEF Spec

-------------------------------------------------------------------------------

PathInv == SeenIsCurrent /\ RowExists /\ HistoryIsPath

\* Each step of the requests, the run and the crash keeps the invariant.
LEMMA PathInductive == TypeOK /\ PathInv /\ [Next]_vars => PathInv'
<1> SUFFICES ASSUME TypeOK, PathInv, [Next]_vars PROVE PathInv'
  OBVIOUS
<1> USE MachineAssumption DEF PathInv, SeenIsCurrent, RowExists
<1>1. ASSUME NEW c \in Calls, Create(c) PROVE PathInv'
  <2>1. CASE state = "none"
    BY <1>1, <2>1 DEF Create, Row!Begin, Goto, Reply, HistoryIsPath, TypeOK
  <2>2. CASE state # "none"
    BY <1>1, <2>2 DEF Create, Goto, Reply, HistoryIsPath, TypeOK
  <2> QED
    BY <2>1, <2>2
<1>2. ASSUME NEW c \in Calls, Execute(c) \/ EndRun(c) PROVE PathInv'
  <2>1. state' # "none" /\ entries' = <<>>
    BY <1>2 DEF Execute, EndRun, Row!Progress, Row!Gate, Row!Complete, Row!Fail
  <2>2. \A d \in Calls : pc'[d] # "commit"
    BY <1>2 DEF Execute, EndRun, Goto, Reply, TypeOK
  <2> QED
    BY <2>1, <2>2 DEF HistoryIsPath
<1>3. ASSUME NEW c \in Calls, LockRow(c) PROVE PathInv'
  BY <1>3 DEF LockRow, Goto, HistoryIsPath, TypeOK
<1>4. ASSUME NEW c \in Calls, Commit(c) PROVE PathInv'
  <2>1. PICK t \in Machine : /\ t.from = state
                             /\ state' = t.to
                             /\ entries' = Append(entries, t)
    BY <1>4 DEF Commit
  <2>2. HistoryIsPath'
    <3>1. entries \in Seq(Entry)
      BY DEF TypeOK
    <3>2. Len(entries') = Len(entries) + 1 /\ entries'[Len(entries')] = t
      BY <2>1, <3>1
    <3>3. \A i \in 1 .. Len(entries) : entries'[i] = entries[i]
      BY <2>1, <3>1
    <3>4. Len(entries) \in Nat /\ (entries = <<>> <=> Len(entries) = 0)
      BY <3>1
    <3>6. \A i \in 1 .. Len(entries') : entries'[i] \in Machine
      BY <3>2, <3>3, <3>4 DEF HistoryIsPath
    <3>5. ASSUME NEW i \in 1 .. Len(entries') - 1
          PROVE entries'[i].to = entries'[i + 1].from
      <4>1. CASE i = Len(entries)
        BY <2>1, <3>2, <3>3, <3>4, <3>5, <4>1 DEF HistoryIsPath
      <4>2. CASE i # Len(entries)
        <5>1. i \in 1 .. Len(entries) - 1 /\ i + 1 \in 1 .. Len(entries) /\ entries # <<>>
          BY <3>2, <3>4, <3>5, <4>2
        <5> QED
          BY <3>3, <5>1 DEF HistoryIsPath
      <4> QED
        BY <4>1, <4>2
    <3> QED
      BY <2>1, <3>2, <3>5, <3>6 DEF HistoryIsPath
  <2>3. \A d \in Calls : pc'[d] # "commit"
    BY <1>4 DEF Commit, Reply, Goto, TypeOK
  <2> QED
    BY <1>4, <2>1, <2>2, <2>3 DEF Commit
<1>5. ASSUME NEW c \in Calls, Deny(c) PROVE PathInv'
  BY <1>5 DEF Deny, Reply, Goto, HistoryIsPath, TypeOK
<1>6. CASE Crash
  BY <1>6 DEF Crash, HistoryIsPath
<1>7. ASSUME NEW c \in Calls,
             \/ Start(c) \/ CheckExisting(c) \/ PauseRun(c) \/ FindRun(c)
             \/ \E e \in Events : Transition(c, e)
      PROVE PathInv'
  BY <1>7 DEF Start, Transition, Arrive, CheckExisting, PauseRun, Row!Pause, FindRun,
              Reply, Goto, HistoryIsPath, TypeOK
<1>8. CASE UNCHANGED vars
  BY <1>8 DEF vars, HistoryIsPath
<1> QED
  BY <1>1, <1>2, <1>3, <1>4, <1>5, <1>6, <1>7, <1>8 DEF Next

\* The invariant behind the row lock holds in every state.
LEMMA PathInvAlways == Spec => [](TypeOK /\ PathInv)
<1>1. Init => PathInv
  BY DEF Init, PathInv, SeenIsCurrent, RowExists, HistoryIsPath
<1> QED
  BY <1>1, PathInductive, TypeCorrect, PTL DEF Spec

\* The history is a path of transitions of the machine that ends at the row's
\* state, for any machine and any number of concurrent transitions.
THEOREM HistoryIsPathAlways == Spec => []HistoryIsPath
BY PathInvAlways, PTL DEF PathInv

\* Whoever is told that it moved the row moved it along a transition for its
\* event out of the state it was in, and nothing but a transition moves a row
\* whose run is over: for any machine, final states with a way out included,
\* and any number of concurrent requests.
THEOREM MovesAreLegal == Spec => OnlyLegalMoves
<1>1. TypeOK /\ PathInv /\ [Next]_vars =>
        [/\ \A c \in Calls : answer[c] = "none" /\ answer'[c] = "moved" =>
               \E t \in Machine : t.event = event[c] /\ Along(t)
         /\ state # "none" /\ ~ Row!Going /\ state' # state =>
               \E t \in Machine : Along(t)]_vars
  <2> SUFFICES ASSUME TypeOK, PathInv, Next
               PROVE  \/ state' = state /\ \A c \in Calls : answer'[c] = "moved" => answer[c] = "moved"
                      \/ (state = "none" \/ Row!Going) /\ \A c \in Calls : answer'[c] = "moved" => answer[c] = "moved"
                      \/ \E c \in Calls, t \in Machine :
                            /\ t.event = event[c] /\ Along(t)
                            /\ \A d \in Calls \ {c} : answer'[d] = answer[d]
    BY DEF vars
  <2> USE DEF TypeOK, Reply, Goto
  <2>1. ASSUME NEW c \in Calls, Create(c)
        PROVE  (state = "none" \/ state' = state) /\ \A d \in Calls : answer'[d] = "moved" => answer[d] = "moved"
    BY <2>1 DEF Create
  <2>2. ASSUME NEW c \in Calls, Execute(c) \/ EndRun(c)
        PROVE  Row!Going /\ \A d \in Calls : answer'[d] = "moved" => answer[d] = "moved"
    BY <2>2 DEF Execute, EndRun, Row!Progress, Row!Gate, Row!Complete, Row!Fail, Row!Going
  <2>3. ASSUME NEW c \in Calls, Commit(c)
        PROVE  \E t \in Machine :
                 /\ t.event = event[c] /\ Along(t)
                 /\ \A d \in Calls \ {c} : answer'[d] = answer[d]
    BY <2>3 DEF Commit, Along, PathInv, SeenIsCurrent
  <2>4. ASSUME NEW c \in Calls,
               \/ Start(c) \/ CheckExisting(c) \/ PauseRun(c) \/ FindRun(c) \/ LockRow(c) \/ Deny(c)
               \/ \E e \in Events : Transition(c, e)
        PROVE  state' = state /\ \A d \in Calls : answer'[d] = "moved" => answer[d] = "moved"
    BY <2>4 DEF Start, Transition, Arrive, CheckExisting, PauseRun, Row!Pause, FindRun, LockRow, Deny
  <2>5. CASE Crash
    BY <2>5 DEF Crash
  <2> QED
    BY <2>1, <2>2, <2>3, <2>4, <2>5 DEF Next
<1> QED
  BY <1>1, PathInvAlways, PTL DEF Spec, OnlyLegalMoves

-------------------------------------------------------------------------------
(* The tenant scope of a request *)

\* Only a request of a tenant asks for its tenant.
AsksForATenant == \A r \in Requests : at[r] \in {"select", "store"} => scope[r] \in Tenants

\* A request borrows one connection at a time, and has one exactly between
\* Connect and ResetAndRelease.
OneEach ==
    /\ \A r \in Requests : at[r] \in {"stamp", "statements", "reset"} <=> \E c \in Connections : holder[c] = r
    /\ \A c, d \in Connections : holder[c] = holder[d] /\ holder[c] # Nobody => c = d

\* Nobody else writes to a connection that is borrowed.
StampHolds ==
    \A r \in Requests, c \in Connections :
        holder[c] = r /\ at[r] = "statements" /\ scope[r] # None => setting[c] = scope[r]

\* An entry lives for TTL at most, and one that still admits a tenant that is
\* inactive dies with the tenant's grace.
EntriesDie ==
    \A t \in Tenants :
        /\ cache[t].expires <= clock + TTL
        /\ cache[t].active /\ ~ active[t] => cache[t].expires <= grace[t]

-------------------------------------------------------------------------------

LEMMA ScopeTypeStep ==
  Scope!TypeOK /\ AsksForATenant /\ [Scope!Next]_Scope!scopeVars => Scope!TypeOK' /\ AsksForATenant'
<1> SUFFICES ASSUME Scope!TypeOK, AsksForATenant, [Scope!Next]_Scope!scopeVars
             PROVE  Scope!TypeOK' /\ AsksForATenant'
  OBVIOUS
<1> DEFINE Typed == Scope!TypeOK' /\ AsksForATenant'
<1> USE ScopeAssumption
    DEF Scope!TypeOK, AsksForATenant, Scope!scopeVars, Scope!Goto, Scope!Finish, Scope!Remember, Scope!Free
<1>1. ASSUME NEW r \in Requests, NEW t \in Tenants, Scope!Use(r, t) PROVE Typed
  BY <1>1 DEF Scope!Use
<1>2. ASSUME NEW r \in Requests, Scope!UsePublic(r) \/ Scope!Respond(r) \/ Scope!EndStatements(r) PROVE Typed
  BY <1>2 DEF Scope!UsePublic, Scope!Respond, Scope!EndStatements
<1>3. ASSUME NEW r \in Requests, Scope!SelectTenant(r) PROVE Typed
  <2>1. active[scope[r]] \in BOOLEAN
    BY <1>3 DEF Scope!SelectTenant
  <2> QED
    BY <1>3, <2>1 DEF Scope!SelectTenant
<1>4. ASSUME NEW r \in Requests, Scope!StoreTenant(r) PROVE Typed
  <2>1. /\ cache' \in [Tenants -> [active : BOOLEAN, expires : 0 .. ScopeTime + TTL]]
        /\ grace' \in [Tenants -> 0 .. ScopeTime + TTL]
    BY <1>4 DEF Scope!StoreTenant
  <2>2. /\ scope' \in [Requests -> Tenants \cup {None}]
        /\ found' \in [Requests -> BOOLEAN]
    BY <1>4 DEF Scope!StoreTenant
  <2>3. at' \in [Requests -> {"idle", "select", "store", "seed", "handler", "stamp", "statements", "reset"}]
    BY <1>4 DEF Scope!StoreTenant
  <2>4. AsksForATenant'
    BY <1>4 DEF Scope!StoreTenant
  <2> QED
    BY <1>4, <2>1, <2>2, <2>3, <2>4 DEF Scope!StoreTenant
<1>5. ASSUME NEW r \in Requests, Scope!SetSessionGuc(r) \/ Scope!Connect(r) PROVE Typed
  BY <1>5 DEF Scope!SetSessionGuc, Scope!Connect
<1>6. ASSUME NEW r \in Requests, Scope!Stamp(r) \/ Scope!ResetAndRelease(r) PROVE Typed
  BY <1>6 DEF Scope!Stamp, Scope!ResetAndRelease
<1>7. ASSUME NEW t \in Tenants, Scope!Toggle(t) PROVE Typed
  BY <1>7 DEF Scope!Toggle
<1>8. CASE Scope!Tick \/ UNCHANGED Scope!scopeVars
  BY <1>8 DEF Scope!Tick
<1> HIDE DEF Scope!TypeOK, AsksForATenant
<1> QED
  BY <1>1, <1>2, <1>3, <1>4, <1>5, <1>6, <1>7, <1>8 DEF Scope!Next

LEMMA OneEachStep == Scope!TypeOK /\ OneEach /\ [Scope!Next]_Scope!scopeVars => OneEach'
<1> SUFFICES ASSUME Scope!TypeOK, OneEach, [Scope!Next]_Scope!scopeVars PROVE OneEach'
  OBVIOUS
<1> USE ScopeAssumption DEF Scope!TypeOK, OneEach, Scope!scopeVars, Scope!Goto, Scope!Finish, Scope!Free
<1>1. ASSUME NEW r \in Requests, Scope!Connect(r) PROVE OneEach'
  BY <1>1 DEF Scope!Connect
<1>2. ASSUME NEW r \in Requests, Scope!ResetAndRelease(r) PROVE OneEach'
  <2>1. Scope!Mine(r) \in Connections /\ holder[Scope!Mine(r)] = r
    BY <1>2 DEF Scope!ResetAndRelease, Scope!Mine
  <2>2. \A c \in Connections : holder'[c] # r
    BY <1>2, <2>1 DEF Scope!ResetAndRelease
  <2>3. \A c \in Connections, q \in Requests \ {r} : holder'[c] = q <=> holder[c] = q
    BY <1>2, <2>1 DEF Scope!ResetAndRelease
  <2> QED
    BY <1>2, <2>1, <2>2, <2>3 DEF Scope!ResetAndRelease
<1>3. ASSUME NEW r \in Requests, Scope!Stamp(r) \/ Scope!EndStatements(r) PROVE OneEach'
  BY <1>3 DEF Scope!Stamp, Scope!EndStatements
<1>4. ASSUME NEW r \in Requests,
             Scope!UsePublic(r) \/ Scope!SelectTenant(r) \/ Scope!StoreTenant(r) \/ Scope!SetSessionGuc(r) \/ Scope!Respond(r)
      PROVE  OneEach'
  BY <1>4 DEF Scope!UsePublic, Scope!SelectTenant, Scope!StoreTenant, Scope!SetSessionGuc, Scope!Respond
<1>5. ASSUME NEW r \in Requests, NEW t \in Tenants, Scope!Use(r, t) PROVE OneEach'
  BY <1>5 DEF Scope!Use
<1>6. CASE UNCHANGED <<at, holder>>
  BY <1>6
<1> HIDE DEF OneEach
<1> QED
  BY <1>1, <1>2, <1>3, <1>4, <1>5, <1>6 DEF Scope!Next, Scope!Toggle, Scope!Tick

LEMMA StampStep == Scope!TypeOK /\ OneEach /\ StampHolds /\ [Scope!Next]_Scope!scopeVars => StampHolds'
<1> SUFFICES ASSUME Scope!TypeOK, OneEach, StampHolds, [Scope!Next]_Scope!scopeVars PROVE StampHolds'
  OBVIOUS
<1> USE ScopeAssumption DEF Scope!TypeOK, OneEach, StampHolds, Scope!scopeVars, Scope!Goto, Scope!Finish, Scope!Free
<1>1. ASSUME NEW r \in Requests, Scope!Connect(r) PROVE StampHolds'
  BY <1>1 DEF Scope!Connect
<1>2. ASSUME NEW r \in Requests, Scope!Stamp(r) \/ Scope!ResetAndRelease(r) PROVE StampHolds'
  <2>1. Scope!Mine(r) \in Connections /\ holder[Scope!Mine(r)] = r
    BY <1>2 DEF Scope!Stamp, Scope!ResetAndRelease, Scope!Mine
  <2>2. \A c \in Connections : holder[c] = r => c = Scope!Mine(r)
    BY <2>1
  <2> QED
    BY <1>2, <2>1, <2>2 DEF Scope!Stamp, Scope!ResetAndRelease
<1>3. ASSUME NEW r \in Requests, Scope!SetSessionGuc(r) PROVE StampHolds'
  BY <1>3 DEF Scope!SetSessionGuc
<1>4. ASSUME NEW r \in Requests,
             \/ Scope!UsePublic(r) \/ Scope!SelectTenant(r) \/ Scope!StoreTenant(r)
             \/ Scope!EndStatements(r) \/ Scope!Respond(r)
      PROVE  StampHolds'
  BY <1>4 DEF Scope!UsePublic, Scope!SelectTenant, Scope!StoreTenant, Scope!EndStatements, Scope!Respond
<1>5. ASSUME NEW r \in Requests, NEW t \in Tenants, Scope!Use(r, t) PROVE StampHolds'
  BY <1>5 DEF Scope!Use
<1>6. CASE UNCHANGED <<at, holder, scope, setting>>
  BY <1>6
<1> HIDE DEF StampHolds
<1> QED
  BY <1>1, <1>2, <1>3, <1>4, <1>5, <1>6 DEF Scope!Next, Scope!Toggle, Scope!Tick

-------------------------------------------------------------------------------

\* However many requests share however few connections, with the middleware
\* writing to any connection that is free: what runs between the runner's SET
\* and its RESET runs under the tenant of its own request.
THEOREM RunnerIsScoped == Scope!Spec => [](Scope!TypeOK /\ Scope!RunnerSeesItsTenant)
<1> DEFINE Inv == Scope!TypeOK /\ AsksForATenant /\ OneEach /\ StampHolds
<1>1. Scope!Init => Inv
  BY ScopeAssumption DEF Scope!Init, Scope!TypeOK, AsksForATenant, OneEach, StampHolds
<1>2. Inv /\ [Scope!Next]_Scope!scopeVars => Inv'
  BY ScopeTypeStep, OneEachStep, StampStep
<1>3. Inv => Scope!TypeOK /\ Scope!RunnerSeesItsTenant
  BY ScopeAssumption DEF OneEach, StampHolds, Scope!RunnerSeesItsTenant, Scope!MayRunOn
<1> QED
  BY <1>1, <1>2, <1>3, PTL DEF Scope!Spec

LEMMA EntriesStep ==
  Scope!TypeOK /\ AsksForATenant /\ EntriesDie /\ [Scope!Next]_Scope!scopeVars => EntriesDie'
<1> SUFFICES ASSUME Scope!TypeOK, AsksForATenant, EntriesDie, [Scope!Next]_Scope!scopeVars PROVE EntriesDie'
  OBVIOUS
<1> USE ScopeAssumption DEF Scope!TypeOK, AsksForATenant, EntriesDie, Scope!scopeVars, Scope!Remember
<1>1. ASSUME NEW r \in Requests, Scope!StoreTenant(r) PROVE EntriesDie'
  BY <1>1 DEF Scope!StoreTenant
<1>2. ASSUME NEW t \in Tenants, Scope!Toggle(t) PROVE EntriesDie'
  BY <1>2 DEF Scope!Toggle
<1>3. CASE Scope!Tick
  BY <1>3 DEF Scope!Tick
<1>4. CASE UNCHANGED <<active, cache, clock, grace>>
  BY <1>4
<1> HIDE DEF EntriesDie
<1> QED
  BY <1>1, <1>2, <1>3, <1>4
     DEF Scope!Next, Scope!Use, Scope!UsePublic, Scope!SelectTenant, Scope!SetSessionGuc,
         Scope!Connect, Scope!Stamp, Scope!EndStatements, Scope!ResetAndRelease, Scope!Respond

\* However long the cache remembers: once the entry that was there when the
\* tenant was deactivated, or that a lookup under way stored afterwards, has
\* lived its life, no request of the tenant is admitted.
THEOREM DeactivationHolds == Scope!Spec => Scope!DeactivationBites
<1> DEFINE Inv == Scope!TypeOK /\ AsksForATenant /\ EntriesDie
<1>1. Scope!Init => Inv
  BY ScopeAssumption DEF Scope!Init, Scope!TypeOK, AsksForATenant, EntriesDie
<1>2. Inv /\ [Scope!Next]_Scope!scopeVars => Inv'
  BY ScopeTypeStep, EntriesStep
<1>3. Inv /\ [Scope!Next]_Scope!scopeVars
        => [\A r \in Requests : at[r] # "seed" /\ at'[r] = "seed" /\ ~ active[scope'[r]]
              => clock < grace'[scope'[r]]]_Scope!scopeVars
  <2> SUFFICES ASSUME Inv, Scope!Next, NEW r \in Requests, at[r] # "seed", at'[r] = "seed", ~ active[scope'[r]]
               PROVE  clock < grace'[scope'[r]]
    OBVIOUS
  <2> USE ScopeAssumption DEF Scope!TypeOK, AsksForATenant, EntriesDie, Scope!Goto, Scope!Finish
  <2>1. ASSUME NEW q \in Requests, NEW t \in Tenants, Scope!Use(q, t) PROVE clock < grace'[scope'[r]]
    BY <2>1 DEF Scope!Use, Scope!Remembered
  <2>2. ASSUME NEW q \in Requests, Scope!StoreTenant(q) PROVE clock < grace'[scope'[r]]
    BY <2>2 DEF Scope!StoreTenant
  <2> QED
    BY <2>1, <2>2
       DEF Scope!Next, Scope!UsePublic, Scope!SelectTenant, Scope!SetSessionGuc,
           Scope!Connect, Scope!Stamp, Scope!EndStatements, Scope!ResetAndRelease, Scope!Respond,
           Scope!Toggle, Scope!Tick
<1> QED
  BY <1>1, <1>2, <1>3, PTL DEF Scope!Spec, Scope!DeactivationBites

-------------------------------------------------------------------------------
(* The layout cache *)

\* A copy in Redis lives from its load, one in a process from the moment it was
\* taken, which may be the last one of the copy in Redis.
ShortLived ==
    /\ l2.expires <= l2.loaded + L2TTL
    /\ \A n \in Nodes : l1[n].expires <= l1[n].loaded + L1TTL + L2TTL

-------------------------------------------------------------------------------

LEMMA LayoutTypeStep == Layout!TypeOK /\ [Layout!Next]_Layout!layoutVars => Layout!TypeOK'
<1> SUFFICES ASSUME Layout!TypeOK, [Layout!Next]_Layout!layoutVars PROVE Layout!TypeOK'
  OBVIOUS
<1> USE LayoutAssumption DEF Layout!TypeOK, Layout!Copies, Layout!Idle, Layout!Absent, Layout!Live, Layout!layoutVars, Layout!Room, Layout!Deliver, Layout!Forget
<1>1. ASSUME NEW c \in Loads, NEW n \in Nodes, Layout!GetLayout(c, n) PROVE Layout!TypeOK'
  BY <1>1 DEF Layout!GetLayout
<1>2. ASSUME NEW c \in Loads, Layout!GetFromRedis(c) PROVE Layout!TypeOK'
  <2>1. load[c].node \in Nodes /\ [load[c] EXCEPT !.at = "source"] \in [at : {"redis", "source", "store"}, node : Nodes]
    BY <1>2 DEF Layout!GetFromRedis
  <2>2. load' \in [Loads -> {Layout!Idle} \cup [at : {"redis", "source", "store"}, node : Nodes]]
    BY <1>2, <2>1 DEF Layout!GetFromRedis
  <2>3. l1' \in [Nodes -> Layout!Copies]
    BY <1>2, <2>1 DEF Layout!GetFromRedis
  <2> QED
    BY <1>2, <2>2, <2>3 DEF Layout!GetFromRedis
<1>3. ASSUME NEW c \in Loads, Layout!LoadLayout(c) PROVE Layout!TypeOK'
  <2>1. load[c].node \in Nodes /\ [load[c] EXCEPT !.at = "store"] \in [at : {"redis", "source", "store"}, node : Nodes]
    BY <1>3 DEF Layout!LoadLayout
  <2>2. load' \in [Loads -> {Layout!Idle} \cup [at : {"redis", "source", "store"}, node : Nodes]]
    BY <1>3, <2>1 DEF Layout!LoadLayout
  <2>3. l1' \in [Nodes -> Layout!Copies]
    BY <1>3, <2>1 DEF Layout!LoadLayout
  <2> QED
    BY <1>3, <2>2, <2>3 DEF Layout!LoadLayout
<1>4. ASSUME NEW c \in Loads, Layout!StoreLayout(c) PROVE Layout!TypeOK'
  BY <1>4 DEF Layout!StoreLayout
<1>5. CASE Layout!AnnounceUpdate
  BY <1>5 DEF Layout!AnnounceUpdate
<1>6. ASSUME NEW n \in Nodes, Layout!OnMessage(n) PROVE Layout!TypeOK'
  BY <1>6 DEF Layout!OnMessage
<1>7. ASSUME NEW n \in Nodes, Layout!DeleteKeys(n) PROVE Layout!TypeOK'
  <2>1. /\ job[n].delete - 1 \in 0 .. MaxMessages
        /\ job[n].publish < MaxMessages => job[n].publish + 1 \in 0 .. MaxMessages
    BY <1>7 DEF Layout!DeleteKeys
  <2>2. CASE job' = [job EXCEPT ![n].delete = @ - 1]
    BY <1>7, <2>1, <2>2 DEF Layout!DeleteKeys
  <2>3. CASE job' = [job EXCEPT ![n].delete = @ - 1, ![n].publish = @ + 1]
    <3>1. job' = [job EXCEPT ![n] = [delete |-> job[n].delete - 1, publish |-> job[n].publish + 1]]
      BY <2>3
    <3> QED
      BY <1>7, <2>1, <3>1 DEF Layout!DeleteKeys
  <2> QED
    BY <1>7, <2>2, <2>3 DEF Layout!DeleteKeys
<1>8. ASSUME NEW n \in Nodes, NEW receivers \in SUBSET Layout!Room, Layout!Publish(n, receivers) PROVE Layout!TypeOK'
  BY <1>8 DEF Layout!Publish
<1>9. CASE Layout!Tick
  BY <1>9 DEF Layout!Tick
<1>10. CASE UNCHANGED Layout!layoutVars
  BY <1>10
<1> HIDE DEF Layout!TypeOK
<1> QED
  BY <1>1, <1>2, <1>3, <1>4, <1>5, <1>6, <1>7, <1>8, <1>9, <1>10 DEF Layout!Next

LEMMA CopiesShortStep == Layout!TypeOK /\ ShortLived /\ [Layout!Next]_Layout!layoutVars => ShortLived'
<1> SUFFICES ASSUME Layout!TypeOK, ShortLived, [Layout!Next]_Layout!layoutVars PROVE ShortLived'
  OBVIOUS
<1> USE LayoutAssumption DEF Layout!TypeOK, ShortLived, Layout!Copies, Layout!Idle, Layout!Absent, Layout!Live, Layout!layoutVars, Layout!Forget
<1>1. ASSUME NEW c \in Loads, Layout!GetFromRedis(c) PROVE ShortLived'
  BY <1>1 DEF Layout!GetFromRedis
<1>2. ASSUME NEW c \in Loads, Layout!LoadLayout(c) \/ Layout!StoreLayout(c) PROVE ShortLived'
  BY <1>2 DEF Layout!LoadLayout, Layout!StoreLayout
<1>3. ASSUME NEW n \in Nodes, Layout!OnMessage(n) \/ Layout!DeleteKeys(n) PROVE ShortLived'
  BY <1>3 DEF Layout!OnMessage, Layout!DeleteKeys
<1>4. CASE UNCHANGED <<l1, l2>>
  BY <1>4
<1> HIDE DEF ShortLived
<1> QED
  BY <1>1, <1>2, <1>3, <1>4 DEF Layout!Next, Layout!GetLayout, Layout!AnnounceUpdate, Layout!Publish, Layout!Tick

-------------------------------------------------------------------------------

\* With any number of processes that take their copy from the one in Redis at
\* any moment of its life, and any loss of messages, no layout is served for
\* longer than the two lives together after its load.
THEOREM CopiesAreShortLived == Layout!Spec => [](Layout!TypeOK /\ Layout!CopiesDie)
<1>1. Layout!Init => Layout!TypeOK /\ ShortLived
  BY LayoutAssumption DEF Layout!Init, Layout!TypeOK, ShortLived, Layout!Copies, Layout!Absent, Layout!Idle
<1>2. Layout!TypeOK /\ ShortLived /\ [Layout!Next]_Layout!layoutVars => Layout!TypeOK' /\ ShortLived'
  BY LayoutTypeStep, CopiesShortStep
<1>3. Layout!TypeOK /\ ShortLived => Layout!CopiesDie
  BY LayoutAssumption DEF Layout!TypeOK, Layout!Copies, ShortLived, Layout!CopiesDie, Layout!Live
<1> QED
  BY <1>1, <1>2, <1>3, PTL DEF Layout!Spec

-------------------------------------------------------------------------------
(* The audit log *)

\* Where an entry can be: at one place of the buffer, in one statement, in the
\* table; an entry that has been logged and is nowhere was lost to a failure or
\* is older than any retention.  The buffer never reaches the size at which it
\* would drop its oldest entry.
InOnePlace ==
    /\ Len(buffer) < MaxSize
    /\ \A i, j \in 1 .. Len(buffer) : buffer[i] = buffer[j] => i = j
    /\ \A b, d \in flying : \A e \in b : e \in d => b = d
    /\ \A i \in 1 .. Len(buffer) :
          /\ buffer[i] \notin table /\ created[buffer[i]] >= 0 /\ buffer[i] \notin Critical
          /\ \A b \in flying : buffer[i] \notin b
    /\ \A b \in flying : \A e \in b : e \notin table /\ created[e] >= 0 /\ (e \in Critical => b = {e})
    /\ \A e \in table : created[e] >= 0
    /\ \A e \in Entries : created[e] >= 0 /\ e \notin excused =>
          \/ \E i \in 1 .. Len(buffer) : buffer[i] = e
          \/ \E b \in flying : e \in b
          \/ e \in table
          \/ created[e] < day - MinDays

-------------------------------------------------------------------------------

LEMMA BufferTyped ==
  ASSUME Audit!TypeOK
  PROVE  /\ Len(buffer) \in Nat /\ DOMAIN buffer = 1 .. Len(buffer)
         /\ \A i \in 1 .. Len(buffer) : buffer[i] \in Entries
         /\ Audit!ToSet(buffer) = {buffer[i] : i \in 1 .. Len(buffer)}
         /\ Audit!ToSet(buffer) \in SUBSET Entries
         /\ \A e : e \in Audit!ToSet(buffer) <=> \E i \in 1 .. Len(buffer) : buffer[i] = e
BY DEF Audit!TypeOK, Audit!ToSet

\* A buffer that is flushed in time grows by the entry or leaves with it.
LEMMA Puts ==
  ASSUME Audit!TypeOK, Len(buffer) < MaxSize, NEW e \in Entries, Audit!Put(buffer, e)
  PROVE  \/ /\ Len(buffer') < MaxSize /\ flying' = flying
            /\ buffer' \in Seq(Entries)
            /\ Len(buffer') = Len(buffer) + 1
            /\ \A i \in 1 .. Len(buffer) : buffer'[i] = buffer[i]
            /\ buffer'[Len(buffer) + 1] = e
         \/ /\ buffer' = <<>>
            /\ flying' = flying \cup {Audit!ToSet(buffer) \cup {e}}
<1> DEFINE kept == Append(buffer, e)
<1>1. Len(buffer) \in Nat /\ Len(buffer) < DropThreshold /\ buffer \in Seq(Entries)
  BY AuditAssumption, BufferTyped DEF Audit!TypeOK
<1>2. IF Len(kept) >= MaxSize
      THEN buffer' = <<>> /\ flying' = flying \cup {Audit!ToSet(kept)}
      ELSE buffer' = kept /\ UNCHANGED flying
  BY <1>1, AuditAssumption DEF Audit!Put
<1>3. /\ kept \in Seq(Entries) /\ Len(kept) = Len(buffer) + 1
      /\ \A i \in 1 .. Len(buffer) : kept[i] = buffer[i]
      /\ kept[Len(buffer) + 1] = e
      /\ DOMAIN kept = 1 .. Len(buffer) + 1
  BY <1>1
<1> HIDE DEF kept
<1>4. Audit!ToSet(kept) = Audit!ToSet(buffer) \cup {e}
  <2>1. \A x : x \in Audit!ToSet(kept) <=> \E i \in 1 .. Len(buffer) + 1 : kept[i] = x
    BY <1>3 DEF Audit!ToSet
  <2>2. \A i \in 1 .. Len(buffer) + 1 : i \in 1 .. Len(buffer) \/ i = Len(buffer) + 1
    BY <1>1
  <2>3. Len(buffer) + 1 \in 1 .. Len(buffer) + 1 /\ \A i \in 1 .. Len(buffer) : i \in 1 .. Len(buffer) + 1
    BY <1>1
  <2>4. \A x : x \in Audit!ToSet(kept) <=> x \in Audit!ToSet(buffer) \/ x = e
    BY <1>3, <2>1, <2>2, <2>3, BufferTyped
  <2> QED
    BY <2>4
<1> QED
  BY <1>1, <1>2, <1>3, <1>4, AuditAssumption

\* s lists the elements of S by their number of elements above.
IsRanking(s, S, above) ==
    /\ s = [i \in 1 .. Cardinality(S) |-> s[i]]
    /\ \A i \in 1 .. Cardinality(S) :
          (\E x \in S : Cardinality(above[x]) = i - 1) => s[i] \in S /\ Cardinality(above[s[i]]) = i - 1

\* A finite set in the order of a strict total order, above[x] being what comes
\* before x: the element with i - 1 others above it is the i-th one.
LEMMA Ranked ==
  ASSUME NEW S, IsFiniteSet(S), NEW above \in [S -> SUBSET S],
         \A x \in S : x \notin above[x],
         \A x, y \in S : y \in above[x] => above[y] \subseteq above[x],
         \A x, y \in S : x = y \/ y \in above[x] \/ x \in above[y],
         NEW s, IsRanking(s, S, above)
  PROVE  /\ s \in Seq(S) /\ Len(s) = Cardinality(S)
         /\ \A x \in S : \E i \in 1 .. Len(s) : s[i] = x
         /\ \A i, j \in 1 .. Len(s) : i < j => s[i] \in above[s[j]]
<1> DEFINE n == Cardinality(S)
           rank == [x \in S |-> Cardinality(above[x])]
<1>1. n \in Nat
  BY FS_CardinalityType
<1>2. ASSUME NEW x \in S PROVE IsFiniteSet(above[x]) /\ Cardinality(above[x]) \in 0 .. n - 1
  <2>1. above[x] \in SUBSET S /\ above[x] # S
    OBVIOUS
  <2>2. IsFiniteSet(above[x]) /\ Cardinality(above[x]) <= n /\ Cardinality(above[x]) # n
    BY <2>1, FS_Subset
  <2>3. Cardinality(above[x]) \in Nat
    BY <2>2, FS_CardinalityType
  <2> QED
    BY <1>1, <2>2, <2>3
<1>3. ASSUME NEW x \in S, NEW y \in S, y \in above[x] PROVE rank[y] < rank[x]
  <2>1. above[y] \in SUBSET above[x] /\ above[y] # above[x]
    BY <1>3
  <2>2. Cardinality(above[y]) <= Cardinality(above[x]) /\ Cardinality(above[y]) # Cardinality(above[x])
    BY <1>2, <2>1, FS_Subset
  <2> QED
    BY <1>2, <2>2
<1>4. rank \in [S -> 0 .. n - 1]
  BY <1>2
<1>5. \A x, y \in S : rank[x] = rank[y] => x = y
  BY <1>3, <1>4
<1>6. \A k \in 0 .. n - 1 : \E x \in S : rank[x] = k
  <2>1. IsFiniteSet(0 .. n - 1) /\ Cardinality(0 .. n - 1) = n
    BY <1>1, FS_Interval
  <2>2. rank \in Injection(S, 0 .. n - 1)
    BY <1>4, <1>5 DEF Injection, IsInjective
  <2>3. rank \in Surjection(S, 0 .. n - 1)
    BY <2>1, <2>2, FS_Injection
  <2> QED
    BY <2>3 DEF Surjection
<1>7. \A i \in 1 .. n : s[i] \in S /\ rank[s[i]] = i - 1
  <2> SUFFICES ASSUME NEW i \in 1 .. n PROVE s[i] \in S /\ rank[s[i]] = i - 1
    OBVIOUS
  <2>1. \E x \in S : Cardinality(above[x]) = i - 1
    BY <1>1, <1>6
  <2> QED
    BY <2>1 DEF IsRanking
<1> HIDE DEF rank
<1>8. s \in Seq(S) /\ Len(s) = n
  <2>1. s \in [1 .. n -> S]
    BY <1>7 DEF IsRanking
  <2> HIDE DEF n
  <2> QED
    BY <1>1, <2>1
<1>9. ASSUME NEW x \in S PROVE \E i \in 1 .. Len(s) : s[i] = x
  <2> DEFINE i == rank[x] + 1
  <2>1. rank[x] \in 0 .. n - 1
    BY <1>4
  <2>2. i \in 1 .. n /\ i - 1 = rank[x]
    BY <1>1, <2>1
  <2> HIDE DEF i
  <2>3. s[i] = x
    BY <1>5, <1>7, <2>2
  <2> QED
    BY <1>8, <2>2, <2>3
<1>10. ASSUME NEW i \in 1 .. Len(s), NEW j \in 1 .. Len(s), i < j PROVE s[i] \in above[s[j]]
  <2>1. /\ s[i] \in S /\ s[j] \in S
        /\ rank[s[i]] < rank[s[j]] /\ ~ (rank[s[j]] < rank[s[i]])
        /\ rank[s[i]] # rank[s[j]]
    BY <1>7, <1>8, <1>10
  <2> QED
    BY <1>3, <2>1
<1> QED
  BY <1>8, <1>9, <1>10

LEMMA SameSize == \A S : Audit!Cardinality(S) = Cardinality(S)
BY DEF Cardinality, Audit!Cardinality

\* The rows of a query, newest first, each one once.
LEMMA NewestFirst ==
  ASSUME Audit!TypeOK, NEW rows \in SUBSET Entries
  PROVE  /\ Audit!Newest(rows) \in Seq(rows)
         /\ \A x \in rows : \E i \in 1 .. Len(Audit!Newest(rows)) : Audit!Newest(rows)[i] = x
         /\ \A i, j \in 1 .. Len(Audit!Newest(rows)) : i < j => Audit!Before(Audit!Newest(rows)[j], Audit!Newest(rows)[i])
<1> DEFINE newer == [x \in rows |-> Audit!Newer(rows, x)]
<1>1. /\ IsFiniteSet(rows)
      /\ \A x \in rows : x \in Nat /\ created[x] \in Int
  <2>1. IsFiniteSet(rows)
    BY AuditAssumption, FS_Subset
  <2> QED
    BY <2>1, AuditAssumption DEF Audit!TypeOK
<1>2. newer \in [rows -> SUBSET rows]
  BY DEF Audit!Newer
<1>3. \A x, y \in rows : y \in newer[x] <=> created[y] > created[x] \/ (created[y] = created[x] /\ y > x)
  BY DEF Audit!Newer
<1>4. IsRanking(Audit!Newest(rows), rows, newer)
  BY SameSize DEF IsRanking, Audit!Newest
<1> HIDE DEF newer
<1>5. /\ \A x \in rows : x \notin newer[x]
      /\ \A x, y \in rows : x = y \/ y \in newer[x] \/ x \in newer[y]
  BY <1>1, <1>3
<1>6. \A x, y \in rows : y \in newer[x] => newer[y] \subseteq newer[x]
  <2> SUFFICES ASSUME NEW x \in rows, NEW y \in rows, y \in newer[x], NEW z \in newer[y] PROVE z \in newer[x]
    OBVIOUS
  <2>1. z \in rows
    BY <1>2
  <2> QED
    BY <1>1, <1>3, <2>1
<1>7. /\ Audit!Newest(rows) \in Seq(rows)
      /\ \A x \in rows : \E i \in 1 .. Len(Audit!Newest(rows)) : Audit!Newest(rows)[i] = x
      /\ \A i, j \in 1 .. Len(Audit!Newest(rows)) : i < j => Audit!Newest(rows)[i] \in newer[Audit!Newest(rows)[j]]
  BY <1>1, <1>2, <1>4, <1>5, <1>6, Ranked
<1>8. \A i \in 1 .. Len(Audit!Newest(rows)) : Audit!Newest(rows)[i] \in rows
  BY <1>7
<1> QED
  BY <1>1, <1>3, <1>7, <1>8 DEF Audit!Before

\* The rows that are left to read, and the page of them that is read.
Unread == IF cursor = 0 THEN table ELSE {x \in table : Audit!Before(x, cursor)}
Page == SubSeq(Audit!Newest(Unread), 1, Audit!Min({Limit, Len(Audit!Newest(Unread))}))

\* A page has the newest of the rows that are left, and all of them when it is
\* the last one.
LEMMA PageRead ==
  ASSUME Audit!TypeOK, Audit!ReadPage
  PROVE  /\ Page \in Seq(Unread) /\ pages' = pages \o Page
         /\ \A i, j \in 1 .. Len(Page) : i < j => Audit!Before(Page[j], Page[i])
         /\ \/ cursor' = -1 /\ \A x \in Unread : \E i \in 1 .. Len(Page) : Page[i] = x
            \/ /\ Len(Page) >= 1 /\ cursor' = Page[Len(Page)]
               /\ \A x \in Unread : Audit!Before(x, cursor') \/ \E i \in 1 .. Len(Page) : Page[i] = x
<1> DEFINE all == Audit!Newest(Unread)
           size == Audit!Min({Limit, Len(all)})
<1>1. Unread \in SUBSET Entries
  BY DEF Audit!TypeOK, Unread
<1>2. /\ all \in Seq(Unread) /\ Len(all) \in Nat
      /\ \A x \in Unread : \E i \in 1 .. Len(all) : all[i] = x
      /\ \A i, j \in 1 .. Len(all) : i < j => Audit!Before(all[j], all[i])
  BY <1>1, NewestFirst
<1>3. pages' = pages \o Page /\ cursor' = IF Len(all) > Limit THEN Audit!Last(Page) ELSE -1
  BY DEF Audit!ReadPage, Unread, Page
<1> HIDE DEF all
<1>4. /\ size \in Nat /\ size <= Len(all)
      /\ Len(all) > Limit => size = Limit
      /\ Len(all) <= Limit => size = Len(all)
  <2>1. Limit \in Nat
    BY AuditAssumption
  <2>2. \E x \in {Limit, Len(all)} : \A y \in {Limit, Len(all)} : x <= y
    BY <1>2, <2>1
  <2>3. size \in {Limit, Len(all)} /\ size <= Limit /\ size <= Len(all)
    BY <2>2 DEF Audit!Min
  <2> QED
    BY <1>2, <2>1, <2>3
<1>p. Page = SubSeq(all, 1, size)
  BY DEF Page, all, size
<1> HIDE DEF size
<1>5. /\ Page \in Seq(Unread) /\ Len(Page) = size
      /\ \A i \in 1 .. size : Page[i] = all[i] /\ i \in 1 .. Len(all)
  BY <1>2, <1>4, <1>p
<1>6. \A i, j \in 1 .. Len(Page) : i < j => Audit!Before(Page[j], Page[i])
  BY <1>2, <1>5
<1>7. CASE Len(all) <= Limit
  <2>1. cursor' = -1
    BY <1>2, <1>3, <1>7, AuditAssumption
  <2> QED
    BY <1>2, <1>3, <1>4, <1>5, <1>6, <1>7, <2>1
<1>8. CASE Len(all) > Limit
  <2>1. size \in 1 .. Len(all) /\ size \in 1 .. size /\ cursor' = all[size]
    BY <1>3, <1>4, <1>5, <1>8, AuditAssumption DEF Audit!Last
  <2>2. ASSUME NEW x \in Unread PROVE Audit!Before(x, cursor') \/ \E i \in 1 .. Len(Page) : Page[i] = x
    <3>1. PICK i \in 1 .. Len(all) : all[i] = x
      BY <1>2
    <3>2. CASE i <= size
      BY <1>4, <1>5, <3>1, <3>2
    <3>3. CASE i > size
      BY <1>2, <2>1, <3>1, <3>3
    <3> QED
      BY <1>4, <3>2, <3>3
  <2> QED
    BY <1>3, <1>5, <1>6, <2>1, <2>2
<1>9. Len(all) \in Nat /\ Limit \in Nat
  BY <1>2, AuditAssumption
<1> QED
  BY <1>7, <1>8, <1>9

LEMMA AuditTypeStep == Audit!TypeOK /\ Len(buffer) < MaxSize /\ [Audit!Next]_Audit!auditVars => Audit!TypeOK'
<1> SUFFICES ASSUME Audit!TypeOK, Len(buffer) < MaxSize, [Audit!Next]_Audit!auditVars PROVE Audit!TypeOK'
  OBVIOUS
<1> USE DEF Audit!auditVars, Audit!process, Audit!reader
<1>a. Audit!ToSet(buffer) \in SUBSET Entries /\ flying \subseteq SUBSET Entries
  BY BufferTyped DEF Audit!TypeOK
<1>b. PurgeEvents \subseteq Entries /\ AuditTime \in Nat
  BY AuditAssumption
<1>0. ASSUME NEW e \in Entries, Audit!Put(buffer, e) PROVE buffer' \in Seq(Entries) /\ flying' \subseteq SUBSET Entries
  <2>1. Audit!ToSet(buffer) \cup {e} \in SUBSET Entries
    BY <1>a
  <2>2. \/ buffer' \in Seq(Entries) /\ flying' = flying
        \/ buffer' = <<>> /\ flying' = flying \cup {Audit!ToSet(buffer) \cup {e}}
    BY <1>0, Puts
  <2>3. ASSUME NEW b \in flying' PROVE b \in SUBSET Entries
    BY <1>a, <2>1, <2>2
  <2>4. <<>> \in Seq(Entries)
    OBVIOUS
  <2> QED
    BY <2>2, <2>3, <2>4 DEF Audit!TypeOK
<1>1. ASSUME NEW e \in Entries, Audit!Log(e) PROVE Audit!TypeOK'
  <2>1. buffer' \in Seq(Entries) /\ flying' \subseteq SUBSET Entries
    <3>1. CASE e \in Critical
      <4>1. {e} \in SUBSET Entries /\ flying' = flying \cup {{e}} /\ buffer' = buffer
        BY <1>1, <3>1 DEF Audit!Log
      <4> QED
        BY <1>a, <4>1 DEF Audit!TypeOK
    <3>2. CASE e \notin Critical
      BY <1>0, <1>1, <3>2 DEF Audit!Log
    <3> QED
      BY <3>1, <3>2
  <2>2. created' \in [Entries -> -1 .. AuditTime]
    BY <1>1 DEF Audit!Log, Audit!TypeOK
  <2> QED
    BY <1>1, <2>1, <2>2 DEF Audit!Log, Audit!TypeOK
<1>2. CASE Audit!Flush
  <2>1. flying' \subseteq SUBSET Entries
    BY <1>a, <1>2 DEF Audit!Flush
  <2>2. buffer' \in Seq(Entries)
    BY <1>2 DEF Audit!Flush
  <2> QED
    BY <1>2, <2>1, <2>2 DEF Audit!Flush, Audit!TypeOK
<1>3. ASSUME NEW batch \in flying, Audit!Insert(batch) PROVE Audit!TypeOK'
  BY <1>3 DEF Audit!Insert, Audit!TypeOK
<1>4. CASE Audit!Crash
  <2>1. PICK done \in SUBSET {b \in flying : b \cap Anonymous = {}} :
           /\ table' = table \cup UNION done
           /\ excused' = excused \cup Audit!ToSet(buffer) \cup ((UNION flying) \ (UNION done))
    BY <1>4 DEF Audit!Crash
  <2>2. UNION done \subseteq Entries /\ UNION flying \subseteq Entries
    BY <1>a
  <2>3. table' \subseteq Entries /\ excused' \subseteq Entries
    BY <1>a, <2>1, <2>2 DEF Audit!TypeOK
  <2> QED
    BY <1>4, <2>3 DEF Audit!Crash, Audit!TypeOK
<1>5. ASSUME NEW days \in Retentions, NEW e \in PurgeEvents, Audit!DeleteOld(days, e) PROVE Audit!TypeOK'
  <2>1. table' \subseteq Entries /\ present' \subseteq Entries /\ purging' \subseteq PurgeEvents
    BY <1>5 DEF Audit!DeleteOld, Audit!TypeOK
  <2> QED
    BY <1>5, <2>1 DEF Audit!DeleteOld, Audit!TypeOK
<1>10. ASSUME NEW e \in PurgeEvents, Audit!LogPurge(e) PROVE Audit!TypeOK'
  <2>1. buffer' \in Seq(Entries) /\ flying' \subseteq SUBSET Entries
    BY <1>0, <1>10, <1>b DEF Audit!LogPurge
  <2>2. created' \in [Entries -> -1 .. AuditTime]
    BY <1>10, <1>b DEF Audit!LogPurge, Audit!TypeOK
  <2> QED
    BY <1>10, <2>1, <2>2 DEF Audit!LogPurge, Audit!TypeOK
<1>6. CASE Audit!BeginReading
  BY <1>6 DEF Audit!BeginReading, Audit!TypeOK
<1>8. CASE Audit!Tick
  BY <1>8, <1>b DEF Audit!Tick, Audit!TypeOK
<1>9. CASE UNCHANGED Audit!auditVars
  BY <1>9 DEF Audit!TypeOK
<1>7. CASE Audit!ReadPage
  <2>1. /\ Page \in Seq(Unread) /\ pages' = pages \o Page
        /\ \/ cursor' = -1
           \/ /\ Len(Page) >= 1
              /\ cursor' = Page[Len(Page)]
    BY <1>7, PageRead
  <2>2. Unread \subseteq Entries
    BY DEF Unread, Audit!TypeOK
  <2>3. Page \in Seq(Entries) /\ pages \in Seq(Entries)
    BY <2>1, <2>2 DEF Audit!TypeOK
  <2>4. pages' \in Seq(Entries) /\ cursor' \in {-1, 0} \cup Entries
    BY <2>1, <2>3
  <2> QED
    BY <1>7, <2>4 DEF Audit!ReadPage, Audit!TypeOK
<1> QED
  BY <1>1, <1>2, <1>3, <1>4, <1>5, <1>6, <1>7, <1>8, <1>9, <1>10 DEF Audit!Next

\* An entry that joins the buffer was nowhere before; what the purge deletes is
\* older than any retention.
LEMMA PutKeeps ==
  ASSUME Audit!TypeOK, InOnePlace, NEW e \in Entries, e \notin Critical, created[e] = -1, Audit!Put(buffer, e),
         created' = [created EXCEPT ![e] = day], UNCHANGED <<day, excused>>,
         table' \subseteq table, \A x \in table \ table' : created[x] < day - MinDays
  PROVE  InOnePlace'
<1> DEFINE n == Len(buffer)
<1>1. /\ n \in Nat /\ \A i \in 1 .. n : buffer[i] \in Entries
      /\ \A x : x \in Audit!ToSet(buffer) <=> \E i \in 1 .. n : buffer[i] = x
      /\ flying \subseteq SUBSET Entries /\ table \subseteq Entries
      /\ \A b \in flying : \A x \in b : x \in Entries
  BY BufferTyped DEF Audit!TypeOK
<1>2. /\ e \notin table
      /\ \A i \in 1 .. n : buffer[i] # e
      /\ \A b \in flying : e \notin b
  BY DEF InOnePlace
<1>3. /\ created'[e] >= 0
      /\ \A x \in Entries : x # e => created'[x] = created[x]
  BY DEF Audit!TypeOK
<1> USE <1>1, <1>2, <1>3
<1>4. CASE /\ Len(buffer') < MaxSize /\ flying' = flying
           /\ Len(buffer') = n + 1
           /\ \A i \in 1 .. n : buffer'[i] = buffer[i]
           /\ buffer'[n + 1] = e
  <2>1. \A i \in 1 .. n + 1 : i \in 1 .. n \/ i = n + 1
    OBVIOUS
  <2>2. n + 1 \in 1 .. n + 1 /\ \A i \in 1 .. n : i \in 1 .. n + 1
    OBVIOUS
  <2> HIDE DEF n
  <2>3. \A i, j \in 1 .. Len(buffer') : buffer'[i] = buffer'[j] => i = j
    BY <1>4, <2>1 DEF InOnePlace, n
  <2>4. \A i \in 1 .. Len(buffer') :
          /\ buffer'[i] \notin table' /\ created'[buffer'[i]] >= 0 /\ buffer'[i] \notin Critical
          /\ \A b \in flying' : buffer'[i] \notin b
    BY <1>4, <2>1 DEF InOnePlace, n
  <2>5. ASSUME NEW x \in Entries, created'[x] >= 0, x \notin excused
        PROVE  \/ \E i \in 1 .. Len(buffer') : buffer'[i] = x
               \/ \E b \in flying' : x \in b
               \/ x \in table'
               \/ created'[x] < day - MinDays
    <3>1. CASE x = e
      BY <1>4, <2>2, <3>1
    <3>2. CASE x # e
      BY <1>4, <2>2, <2>5, <3>2 DEF InOnePlace, n
    <3> QED
      BY <3>1, <3>2
  <2> QED
    BY <1>4, <2>3, <2>4, <2>5 DEF InOnePlace
<1>5. CASE /\ buffer' = <<>>
           /\ flying' = flying \cup {Audit!ToSet(buffer) \cup {e}}
  <2>1. Len(buffer') = 0 /\ MaxSize > 0
    BY <1>5, AuditAssumption
  <2>2. \A b \in flying' : b \in flying \/ b = Audit!ToSet(buffer) \cup {e}
    BY <1>5
  <2>3. \A b, d \in flying' : \A x \in b : x \in d => b = d
    <3>1. \A b, d \in flying : \A x \in b : x \in d => b = d
      BY DEF InOnePlace
    <3>2. \A b \in flying : \A x \in b : x # e /\ x \notin Audit!ToSet(buffer)
      BY DEF InOnePlace
    <3>3. ASSUME NEW b \in flying', NEW d \in flying', NEW x \in b, x \in d, b # d PROVE FALSE
      <4>1. CASE b \in flying /\ d \in flying
        BY <3>1, <3>3, <4>1
      <4>2. CASE b \in flying /\ d = Audit!ToSet(buffer) \cup {e}
        BY <3>2, <3>3, <4>2
      <4>3. CASE d \in flying /\ b = Audit!ToSet(buffer) \cup {e}
        BY <3>2, <3>3, <4>3
      <4> QED
        BY <2>2, <3>3, <4>1, <4>2, <4>3
    <3> QED
      BY <3>3
  <2>4. \A b \in flying' : \A x \in b : x \notin table' /\ created'[x] >= 0 /\ (x \in Critical => b = {x})
    BY <2>2 DEF InOnePlace
  <2>5. ASSUME NEW x \in Entries, created'[x] >= 0, x \notin excused
        PROVE  \/ \E b \in flying' : x \in b
               \/ x \in table'
               \/ created'[x] < day - MinDays
    <3>1. CASE x \in Audit!ToSet(buffer) \cup {e}
      BY <1>5, <3>1
    <3>2. CASE x \notin Audit!ToSet(buffer) \cup {e}
      BY <1>5, <2>5, <3>2 DEF InOnePlace
    <3> QED
      BY <3>1, <3>2
  <2>6. \A x \in table' : created'[x] >= 0
    BY DEF InOnePlace
  <2> QED
    BY <2>1, <2>3, <2>4, <2>5, <2>6 DEF InOnePlace
<1> QED
  BY <1>4, <1>5, Puts DEF InOnePlace

LEMMA Retains ==
  ASSUME NEW days \in Retentions, NEW d \in Int
  PROVE  Audit!ClampRetention(days) \in Int /\ d - Audit!ClampRetention(days) <= d - MinDays
<1> DEFINE raw == IF days = -1 THEN DefaultDays ELSE days
           low == Audit!Min({raw, MaxDays})
<1>1. raw \in Int /\ MaxDays \in Int /\ MinDays \in Int
  BY AuditAssumption
<1> HIDE DEF raw
<1>2. low \in Int
  <2>1. \E x \in {raw, MaxDays} : \A y \in {raw, MaxDays} : x <= y
    BY <1>1
  <2>2. low \in {raw, MaxDays}
    BY <2>1 DEF Audit!Min
  <2> QED
    BY <1>1, <2>2
<1> HIDE DEF low
<1>3. Audit!Max({MinDays, low}) \in Int /\ Audit!Max({MinDays, low}) >= MinDays
  <2>1. \E x \in {MinDays, low} : \A y \in {MinDays, low} : x >= y
    BY <1>1, <1>2
  <2>2. Audit!Max({MinDays, low}) \in {MinDays, low} /\ Audit!Max({MinDays, low}) >= MinDays
    BY <2>1 DEF Audit!Max
  <2> QED
    BY <1>1, <1>2, <2>2
<1> QED
  BY <1>1, <1>3 DEF Audit!ClampRetention, low, raw

LEMMA InOnePlaceStep == Audit!TypeOK /\ InOnePlace /\ [Audit!Next]_Audit!auditVars => InOnePlace'
<1> SUFFICES ASSUME Audit!TypeOK, InOnePlace, [Audit!Next]_Audit!auditVars PROVE InOnePlace'
  OBVIOUS
<1>1. /\ Len(buffer) \in Nat /\ \A i \in 1 .. Len(buffer) : buffer[i] \in Entries
      /\ \A x : x \in Audit!ToSet(buffer) <=> \E i \in 1 .. Len(buffer) : buffer[i] = x
      /\ flying \subseteq SUBSET Entries /\ table \subseteq Entries
      /\ \A b \in flying : \A x \in b : x \in Entries
      /\ \A x \in table : x \in Entries
      /\ day \in Nat /\ created \in [Entries -> -1 .. AuditTime]
      /\ MaxSize > 0 /\ MinDays \in Nat
  BY AuditAssumption, BufferTyped DEF Audit!TypeOK
<1>2. ASSUME NEW e \in Entries, Audit!Log(e) PROVE InOnePlace'
  <2>1. CASE e \notin Critical
    BY <1>2, <2>1, PutKeeps DEF Audit!Log
  <2>2. CASE e \in Critical
    <3>1. /\ created[e] = -1 /\ created' = [created EXCEPT ![e] = day]
          /\ flying' = flying \cup {{e}} /\ UNCHANGED <<buffer, table, day, excused>>
      BY <1>2, <2>2 DEF Audit!Log
    <3>2. /\ e \notin table
          /\ \A i \in 1 .. Len(buffer) : buffer[i] # e
          /\ \A b \in flying : e \notin b
      BY <3>1 DEF InOnePlace
    <3>3. created'[e] >= 0 /\ \A x \in Entries : x # e => created'[x] = created[x]
      BY <1>1, <3>1
    <3>4. \A b, d \in flying' : \A x \in b : x \in d => b = d
      <4>1. \A b, d \in flying : \A x \in b : x \in d => b = d
        BY DEF InOnePlace
      <4>2. \A b \in flying' : b \in flying \/ b = {e}
        BY <3>1
      <4>3. ASSUME NEW b \in flying', NEW d \in flying', NEW x \in b, x \in d, b # d PROVE FALSE
        <5>1. CASE b \in flying /\ d \in flying
          BY <4>1, <4>3, <5>1
        <5>2. CASE b \in flying /\ d = {e}
          BY <3>2, <4>3, <5>2
        <5>3. CASE d \in flying /\ b = {e}
          BY <3>2, <4>3, <5>3
        <5> QED
          BY <4>2, <4>3, <5>1, <5>2, <5>3
      <4> QED
        BY <4>3
    <3>5. \A i \in 1 .. Len(buffer) :
            /\ buffer[i] \notin table /\ created'[buffer[i]] >= 0 /\ buffer[i] \notin Critical
            /\ \A b \in flying' : buffer[i] \notin b
      BY <1>1, <3>1, <3>2, <3>3 DEF InOnePlace
    <3>6. \A b \in flying' : \A x \in b : x \notin table /\ created'[x] >= 0 /\ (x \in Critical => b = {x})
      BY <1>1, <3>1, <3>2, <3>3 DEF InOnePlace
    <3>7. /\ \A x \in table : created'[x] >= 0
          /\ \A x \in Entries : created'[x] >= 0 /\ x \notin excused =>
                \/ \E i \in 1 .. Len(buffer) : buffer[i] = x
                \/ \E b \in flying' : x \in b
                \/ x \in table
                \/ created'[x] < day - MinDays
      BY <1>1, <3>1, <3>2, <3>3 DEF InOnePlace
    <3> QED
      BY <3>1, <3>4, <3>5, <3>6, <3>7 DEF InOnePlace
  <2> QED
    BY <2>1, <2>2
<1>3. CASE Audit!Flush
  <2>1. /\ buffer' = <<>> /\ Len(buffer') = 0 /\ flying' = flying \cup {Audit!ToSet(buffer)}
        /\ UNCHANGED <<table, created, day, excused>>
    BY <1>3 DEF Audit!Flush
  <2>2. \A b \in flying' : b \in flying \/ b = Audit!ToSet(buffer)
    BY <2>1
  <2>3. \A b, d \in flying' : \A x \in b : x \in d => b = d
    BY <1>1, <2>2 DEF InOnePlace
  <2>4. \A b \in flying' : \A x \in b : x \notin table /\ created[x] >= 0 /\ (x \in Critical => b = {x})
    BY <1>1, <2>2 DEF InOnePlace
  <2>5. ASSUME NEW x \in Entries, created[x] >= 0, x \notin excused
        PROVE  (\E b \in flying' : x \in b) \/ x \in table \/ created[x] < day - MinDays
    <3>1. Audit!ToSet(buffer) \in flying'
      BY <2>1
    <3> QED
      BY <1>1, <2>1, <2>5, <3>1 DEF InOnePlace
  <2> QED
    BY <1>1, <2>1, <2>3, <2>4, <2>5 DEF InOnePlace
<1>4. ASSUME NEW batch \in flying, Audit!Insert(batch) PROVE InOnePlace'
  <2>1. /\ flying' = flying \ {batch} /\ UNCHANGED <<buffer, created, day>>
        /\ \/ table' = table \cup batch /\ UNCHANGED excused
           \/ excused' = excused \cup batch /\ UNCHANGED table
    BY <1>4 DEF Audit!Insert
  <2>2. \A b \in flying' : b \in flying /\ \A x \in b : x \notin batch
    BY <2>1 DEF InOnePlace
  <2>3. \A x \in table' : x \in table \/ x \in batch
    BY <2>1
  <2>4. \A x \in batch : created[x] >= 0 /\ \A i \in 1 .. Len(buffer) : buffer[i] # x
    BY DEF InOnePlace
  <2>5. ASSUME NEW x \in Entries, created[x] >= 0, x \notin excused'
        PROVE  \/ \E i \in 1 .. Len(buffer) : buffer[i] = x
               \/ \E b \in flying' : x \in b
               \/ x \in table'
               \/ created[x] < day - MinDays
    BY <2>1, <2>5 DEF InOnePlace
  <2> QED
    BY <1>1, <2>1, <2>2, <2>3, <2>4, <2>5 DEF InOnePlace
<1>5. CASE Audit!Crash
  <2>1. PICK done \in SUBSET {b \in flying : b \cap Anonymous = {}} :
           /\ table' = table \cup UNION done
           /\ excused' = excused \cup Audit!ToSet(buffer) \cup ((UNION flying) \ (UNION done))
    BY <1>5 DEF Audit!Crash
  <2>2. buffer' = <<>> /\ Len(buffer') = 0 /\ flying' = {} /\ UNCHANGED <<created, day>>
    BY <1>5 DEF Audit!Crash
  <2>3. \A x \in table' : created[x] >= 0
    BY <2>1 DEF InOnePlace
  <2>4. ASSUME NEW x \in Entries, created[x] >= 0, x \notin excused'
        PROVE  x \in table' \/ created[x] < day - MinDays
    <3>1. \A i \in 1 .. Len(buffer) : buffer[i] # x
      BY <1>1, <2>1, <2>4
    <3>2. x \in UNION flying => x \in table'
      <4>1. x \notin (UNION flying) \ (UNION done)
        <5>1. \A y : y \in (UNION flying) \ (UNION done) => y \in excused'
          BY <2>1
        <5> QED
          BY <2>4, <5>1
      <4>2. \A y : y \in UNION done => y \in table'
        BY <2>1
      <4> QED
        BY <4>1, <4>2
    <3>3. x \in table => x \in table'
      BY <2>1
    <3>4. x \notin excused
      BY <2>1, <2>4
    <3>5. (\E b \in flying : x \in b) => x \in UNION flying
      OBVIOUS
    <3> QED
      BY <2>4, <3>1, <3>2, <3>3, <3>4, <3>5 DEF InOnePlace
  <2> QED
    BY <1>1, <2>2, <2>3, <2>4 DEF InOnePlace
<1>6. ASSUME NEW days \in Retentions, NEW e \in PurgeEvents, Audit!DeleteOld(days, e) PROVE InOnePlace'
  <2>1. /\ table' \subseteq table /\ UNCHANGED <<buffer, flying, created, day, excused>>
        /\ \A x \in table \ table' : created[x] < day - Audit!ClampRetention(days)
    BY <1>6 DEF Audit!DeleteOld
  <2>2. \A x \in table \ table' : created[x] < day - MinDays
    <3>1. Audit!ClampRetention(days) \in Int /\ day - Audit!ClampRetention(days) <= day - MinDays
      BY <1>1, Retains
    <3>2. \A x \in table : created[x] \in Int
      BY <1>1
    <3> QED
      BY <1>1, <2>1, <3>1, <3>2
  <2> QED
    BY <2>1, <2>2 DEF InOnePlace
<1>9. ASSUME NEW e \in PurgeEvents, Audit!LogPurge(e) PROVE InOnePlace'
  <2>1. e \in Entries /\ e \notin Critical
    BY AuditAssumption
  <2>2. created[e] = -1
    BY <1>9 DEF Audit!LogPurge, Audit!TypeOK
  <2> QED
    BY <1>9, <2>1, <2>2, PutKeeps DEF Audit!LogPurge
<1>7. CASE Audit!Tick
  <2>1. /\ day' = day + 1 /\ UNCHANGED <<buffer, flying, table, created, excused>>
        /\ \A x \in Entries : created[x] \in Int /\ (created[x] < day - MinDays => created[x] < day' - MinDays)
    BY <1>1, <1>7, AuditAssumption DEF Audit!Tick, Audit!process
  <2> QED
    BY <2>1 DEF InOnePlace
<1>8. CASE UNCHANGED <<buffer, flying, table, created, day, excused>>
  BY <1>8 DEF InOnePlace
<1> QED
  BY <1>2, <1>3, <1>4, <1>5, <1>6, <1>7, <1>8, <1>9 DEF Audit!Next, Audit!BeginReading, Audit!ReadPage, Audit!auditVars, Audit!process, Audit!reader

\* What the reader has been given, and what is left to read.
PagesInv ==
    /\ present \subseteq table
    /\ \A i, j \in 1 .. Len(pages) : i < j => Audit!Before(pages[j], pages[i])
    /\ \A i \in 1 .. Len(pages) : created[pages[i]] >= 0
    /\ cursor = 0 => pages = <<>>
    /\ cursor \notin {-1, 0} => Len(pages) >= 1 /\ cursor = pages[Len(pages)]
    /\ cursor \notin {-1, 0} => \A x \in present : Audit!Before(x, cursor) \/ \E i \in 1 .. Len(pages) : pages[i] = x
    /\ cursor = -1 /\ Len(pages) >= 1 => \A x \in present : \E i \in 1 .. Len(pages) : pages[i] = x

\* A row that is logged now has no effect on the order of those that were.
LEMMA OrderStays ==
  ASSUME Audit!TypeOK, PagesInv, NEW e \in Entries, created[e] = -1, created' = [created EXCEPT ![e] = day],
         UNCHANGED <<cursor, pages>>, present' \subseteq present, present' \subseteq table',
         \A x \in present' : x # e
  PROVE  PagesInv'
<1>1. \A x \in Entries : x # e => created'[x] = created[x]
  BY DEF Audit!TypeOK
<1>2. \A i \in 1 .. Len(pages) : pages[i] \in Entries /\ pages[i] # e
  <2>1. \A i \in 1 .. Len(pages) : pages[i] \in Entries
    BY DEF Audit!TypeOK
  <2> QED
    BY <2>1 DEF PagesInv
<1>3. cursor \notin {-1, 0} => cursor \in Entries /\ cursor # e
  <2>1. cursor \notin {-1, 0} => Len(pages) \in 1 .. Len(pages) /\ cursor = pages[Len(pages)]
    BY DEF PagesInv, Audit!TypeOK
  <2> QED
    BY <1>2, <2>1
<1>4. \A x \in present' : x \in Entries /\ x \in present /\ x # e
  BY DEF Audit!TypeOK
<1>5. \A i, j \in 1 .. Len(pages) : i < j => Audit!Before(pages[j], pages[i])'
  BY <1>1, <1>2 DEF PagesInv, Audit!Before
<1>6. cursor \notin {-1, 0} => \A x \in present' : Audit!Before(x, cursor)' \/ \E i \in 1 .. Len(pages) : pages[i] = x
  BY <1>1, <1>3, <1>4 DEF PagesInv, Audit!Before
<1> QED
  BY <1>1, <1>2, <1>3, <1>4, <1>5, <1>6 DEF PagesInv

LEMMA PageStep == ASSUME Audit!TypeOK, InOnePlace, PagesInv, Audit!ReadPage PROVE PagesInv'
<1> DEFINE n == Len(pages)
           k == Len(Page)
<1>1. /\ UNCHANGED <<table, created, present>> /\ cursor >= 0 /\ cursor \in Int
      /\ cursor # 0 => cursor \in Entries
  BY AuditAssumption DEF Audit!ReadPage, Audit!TypeOK
<1>2. /\ Page \in Seq(Unread) /\ pages' = pages \o Page
      /\ \A i, j \in 1 .. k : i < j => Audit!Before(Page[j], Page[i])
      /\ \/ cursor' = -1 /\ \A x \in Unread : \E i \in 1 .. k : Page[i] = x
         \/ /\ k >= 1 /\ cursor' = Page[k]
            /\ \A x \in Unread : Audit!Before(x, cursor') \/ \E i \in 1 .. k : Page[i] = x
  BY PageRead
<1>3. /\ Unread \subseteq table
      /\ \A x \in table : x \in Entries /\ created[x] \in Int /\ created[x] >= 0
      /\ \A x \in Entries : created[x] \in Int /\ x \in Int /\ x \notin {-1, 0}
      /\ \A i \in 1 .. k : Page[i] \in Unread
  <2>1. Unread \subseteq table
    BY DEF Unread
  <2>2. \A x \in table : x \in Entries /\ created[x] \in Int /\ created[x] >= 0
    BY DEF Audit!TypeOK, InOnePlace
  <2>3. \A x \in Entries : created[x] \in Int /\ x \in Int /\ x \notin {-1, 0}
    BY AuditAssumption DEF Audit!TypeOK
  <2> QED
    BY <1>2, <2>1, <2>2, <2>3
<1>4. /\ n \in Nat /\ k \in Nat /\ Len(pages') = n + k
      /\ \A i \in 1 .. n : pages'[i] = pages[i] /\ pages[i] \in Entries
      /\ \A i \in 1 .. k : pages'[n + i] = Page[i]
      /\ \A i \in n + 1 .. n + k : pages'[i] = Page[i - n] /\ i - n \in 1 .. k
      /\ \A i \in 1 .. n + k : i \in 1 .. n \/ i \in n + 1 .. n + k
  <2>1. pages \in Seq(Entries) /\ Page \in Seq(Entries)
    BY <1>2, <1>3 DEF Audit!TypeOK
  <2> QED
    BY <1>2, <2>1
<1> HIDE DEF n, k
<1>5. \A i \in 1 .. n + k : created[pages'[i]] >= 0
  BY <1>3, <1>4 DEF PagesInv, n
<1>6. ASSUME NEW i \in 1 .. n + k, NEW j \in 1 .. n + k, i < j PROVE Audit!Before(pages'[j], pages'[i])
  <2>1. CASE j \in 1 .. n
    <3>1. i \in 1 .. n
      BY <1>4, <1>6, <2>1
    <3> QED
      BY <1>4, <1>6, <2>1, <3>1 DEF PagesInv, n
  <2>2. CASE i \in n + 1 .. n + k /\ j \in n + 1 .. n + k
    <3>1. i - n < j - n /\ i - n \in 1 .. k /\ j - n \in 1 .. k
      BY <1>4, <1>6, <2>2
    <3> QED
      BY <1>2, <1>4, <2>2, <3>1
  <2>3. CASE i \in 1 .. n /\ j \in n + 1 .. n + k
    <3>1. cursor # 0
      BY <1>4, <2>3 DEF PagesInv, n
    <3>2. cursor \notin {-1, 0} /\ n >= 1 /\ cursor = pages[n]
      BY <1>1, <3>1 DEF PagesInv, n
    <3>3. Audit!Before(pages'[j], cursor) /\ pages'[j] \in Entries
      BY <1>3, <1>4, <2>3, <3>1 DEF Unread
    <3>4. i = n \/ (i < n /\ n \in 1 .. n)
      BY <1>4, <2>3
    <3>5. pages'[i] = cursor \/ Audit!Before(cursor, pages'[i])
      BY <1>4, <2>3, <3>2, <3>4 DEF PagesInv, n
    <3>6. pages'[i] \in Entries /\ cursor \in Entries
      BY <1>1, <1>4, <2>3, <3>1
    <3> QED
      BY <1>3, <3>3, <3>5, <3>6 DEF Audit!Before
  <2> QED
    BY <1>4, <1>6, <2>1, <2>2, <2>3
<1>7. \A x \in present : x \in Unread \/ \E i \in 1 .. n : pages[i] = x
  BY <1>1 DEF PagesInv, Unread, n
<1>8. \A x : (\E i \in 1 .. n : pages[i] = x) \/ (\E i \in 1 .. k : Page[i] = x) =>
                \E i \in 1 .. n + k : pages'[i] = x
  <2>1. \A i \in 1 .. n : i \in 1 .. n + k
    BY <1>4
  <2>2. \A i \in 1 .. k : n + i \in 1 .. n + k
    BY <1>4
  <2> QED
    BY <1>4, <2>1, <2>2
<1>9. CASE cursor' = -1 /\ \A x \in Unread : \E i \in 1 .. k : Page[i] = x
  <2>1. \A x \in present : \E i \in 1 .. n + k : pages'[i] = x
    BY <1>7, <1>8, <1>9
  <2>2. ~ (cursor' = 0) /\ ~ (cursor' \notin {-1, 0})
    BY <1>9
  <2> QED
    BY <1>1, <1>4, <1>5, <1>6, <2>1, <2>2 DEF PagesInv, Audit!Before
<1>10. CASE /\ k >= 1 /\ cursor' = Page[k]
            /\ \A x \in Unread : Audit!Before(x, cursor') \/ \E i \in 1 .. k : Page[i] = x
  <2>1. \A x \in present : Audit!Before(x, cursor') \/ \E i \in 1 .. n + k : pages'[i] = x
    BY <1>7, <1>8, <1>10
  <2>2. cursor' \in Entries /\ cursor' = pages'[n + k] /\ n + k >= 1
    BY <1>3, <1>4, <1>10
  <2>3. cursor' # 0 /\ cursor' # -1
    BY <1>3, <2>2
  <2> QED
    BY <1>1, <1>4, <1>5, <1>6, <2>1, <2>2, <2>3 DEF PagesInv, Audit!Before
<1> QED
  BY <1>2, <1>9, <1>10

LEMMA PagesInvStep == Audit!TypeOK /\ InOnePlace /\ PagesInv /\ [Audit!Next]_Audit!auditVars => PagesInv'
<1> SUFFICES ASSUME Audit!TypeOK, InOnePlace, PagesInv, [Audit!Next]_Audit!auditVars PROVE PagesInv'
  OBVIOUS
<1> USE DEF Audit!auditVars, Audit!process, Audit!reader
<1>1. ASSUME NEW e \in Entries, Audit!Log(e) PROVE PagesInv'
  <2>1. /\ created[e] = -1 /\ created' = [created EXCEPT ![e] = day]
        /\ UNCHANGED <<table, cursor, pages, present>>
    BY <1>1 DEF Audit!Log
  <2>2. \A x \in present : x # e /\ x \in table
    BY <2>1 DEF InOnePlace, PagesInv
  <2>3. present' \subseteq table'
    BY <2>1, <2>2
  <2> QED
    BY <2>1, <2>2, <2>3, OrderStays
<1>2. ASSUME NEW days \in Retentions, NEW e \in PurgeEvents, Audit!DeleteOld(days, e) PROVE PagesInv'
  BY <1>2 DEF Audit!DeleteOld, PagesInv, Audit!Before
<1>9. ASSUME NEW e \in PurgeEvents, Audit!LogPurge(e) PROVE PagesInv'
  <2>1. created[e] = -1
    BY <1>9 DEF Audit!LogPurge, Audit!TypeOK
  <2>2. /\ created' = [created EXCEPT ![e] = day]
        /\ UNCHANGED <<table, cursor, pages, present>>
    BY <1>9 DEF Audit!LogPurge
  <2>3. \A x \in present : x # e /\ x \in table
    BY <2>1 DEF InOnePlace, PagesInv
  <2>4. present' \subseteq table'
    BY <2>2, <2>3
  <2>5. e \in Entries
    BY AuditAssumption
  <2> QED
    BY <2>1, <2>2, <2>3, <2>4, <2>5, OrderStays
<1>3. ASSUME UNCHANGED <<created, Audit!reader>>, table \subseteq table' PROVE PagesInv'
  BY <1>3 DEF PagesInv, Audit!Before
<1>4. ASSUME NEW batch \in flying, Audit!Insert(batch) PROVE PagesInv'
  BY <1>3, <1>4 DEF Audit!Insert
<1>5. CASE Audit!Crash
  BY <1>3, <1>5 DEF Audit!Crash
<1>6. CASE Audit!BeginReading
  <2>1. /\ cursor' = 0 /\ present' = table /\ pages = <<>> /\ Len(pages) = 0
        /\ UNCHANGED <<table, created, pages>>
    BY <1>6 DEF Audit!BeginReading
  <2> QED
    BY <2>1 DEF PagesInv, Audit!Before
<1>7. CASE Audit!ReadPage
  BY <1>7, PageStep
<1>8. CASE Audit!Flush \/ Audit!Tick \/ UNCHANGED Audit!auditVars
  BY <1>3, <1>8 DEF Audit!Flush, Audit!Tick
<1> QED
  BY <1>1, <1>2, <1>4, <1>5, <1>6, <1>7, <1>8, <1>9 DEF Audit!Next

-------------------------------------------------------------------------------
(* The theorems *)

LEMMA AuditInductive == Audit!Spec => [](Audit!TypeOK /\ InOnePlace /\ PagesInv)
<1>1. Audit!Init => Audit!TypeOK /\ InOnePlace /\ PagesInv
  <2> SUFFICES ASSUME Audit!Init PROVE Audit!TypeOK /\ InOnePlace /\ PagesInv
    OBVIOUS
  <2>1. Len(buffer) = 0 /\ Len(pages) = 0 /\ MaxSize > 0 /\ AuditTime \in Nat
    BY AuditAssumption DEF Audit!Init
  <2> QED
    BY <2>1 DEF Audit!Init, Audit!TypeOK, InOnePlace, PagesInv
<1>2. Audit!TypeOK /\ InOnePlace /\ PagesInv /\ [Audit!Next]_Audit!auditVars => (Audit!TypeOK /\ InOnePlace /\ PagesInv)'
  <2>1. InOnePlace => Len(buffer) < MaxSize
    BY DEF InOnePlace
  <2> QED
    BY <2>1, AuditTypeStep, InOnePlaceStep, PagesInvStep
<1> QED
  BY <1>1, <1>2, PTL DEF Audit!Spec

LEMMA OneOfIt ==
  ASSUME NEW S, NEW x \in S, \A y \in S : y = x
  PROVE  Cardinality(S) = 1
<1>1. S = {x}
  OBVIOUS
<1> QED
  BY <1>1, FS_Singleton

LEMMA NoneOfIt == ASSUME NEW S, \A y \in S : FALSE PROVE Cardinality(S) = 0
<1>1. S = {}
  OBVIOUS
<1> QED
  BY <1>1, FS_EmptySet

THEOREM AuditAtAllTimes == Audit!Spec => []Audit!AuditIsKept
<1>1. Audit!TypeOK /\ InOnePlace => Audit!AuditIsKept
  <2> SUFFICES ASSUME Audit!TypeOK, InOnePlace PROVE Audit!NothingLostQuietly /\ Audit!CriticalNeverWaits
    BY DEF Audit!AuditIsKept
  <2>1. Audit!CriticalNeverWaits
    BY BufferTyped DEF Audit!CriticalNeverWaits, InOnePlace
  <2>2. Audit!NothingLostQuietly
    <3> SUFFICES ASSUME NEW e \in Entries, created[e] >= 0, e \notin excused
                 PROVE  LET waiting == Cardinality({i \in DOMAIN buffer : buffer[i] = e})
                            inserting == Cardinality({b \in flying : e \in b})
                        IN  \/ waiting + inserting + (IF e \in table THEN 1 ELSE 0) = 1
                            \/ waiting + inserting = 0 /\ created[e] < day - MinDays
      BY SameSize DEF Audit!NothingLostQuietly, Audit!Logged
    <3> DEFINE places == {i \in DOMAIN buffer : buffer[i] = e}
               batches == {b \in flying : e \in b}
    <3>1. \A i : i \in places <=> i \in 1 .. Len(buffer) /\ buffer[i] = e
      BY BufferTyped
    <3>2. CASE \E i \in 1 .. Len(buffer) : buffer[i] = e
      <4>1. PICK i \in 1 .. Len(buffer) : buffer[i] = e
        BY <3>2
      <4>2. i \in places /\ \A j \in places : j = i
        BY <3>1, <4>1 DEF InOnePlace
      <4>3. \A b \in batches : FALSE
        BY <4>1 DEF InOnePlace
      <4>4. e \notin table
        BY <4>1 DEF InOnePlace
      <4>5. Cardinality(places) = 1 /\ Cardinality(batches) = 0
        <5> HIDE DEF places, batches
        <5> QED
          BY <4>2, <4>3, OneOfIt, NoneOfIt
      <4> QED
        BY <4>4, <4>5
    <3>3. CASE ~ \E i \in 1 .. Len(buffer) : buffer[i] = e
      <4>1. Cardinality(places) = 0
        <5>1. \A i \in places : FALSE
          BY <3>1, <3>3
        <5> HIDE DEF places
        <5> QED
          BY <5>1, NoneOfIt
      <4>2. CASE \E b \in flying : e \in b
        <5>1. PICK b \in flying : e \in b
          BY <4>2
        <5>2. b \in batches /\ \A d \in batches : d = b
          BY <5>1 DEF InOnePlace
        <5>3. e \notin table
          BY <5>1 DEF InOnePlace
        <5>4. Cardinality(batches) = 1
          <6> HIDE DEF batches
          <6> QED
            BY <5>2, OneOfIt
        <5> QED
          BY <4>1, <5>3, <5>4
      <4>3. CASE ~ \E b \in flying : e \in b
        <5>1. \A b \in batches : FALSE
          BY <4>3
        <5>2. Cardinality(batches) = 0
          <6> HIDE DEF batches
          <6> QED
            BY <5>1, NoneOfIt
        <5>3. e \in table \/ created[e] < day - MinDays
          BY <3>3, <4>3 DEF InOnePlace
        <5> QED
          BY <4>1, <5>2, <5>3
      <4> QED
        BY <4>2, <4>3
    <3> QED
      BY <3>2, <3>3
  <2> QED
    BY <2>1, <2>2
<1> QED
  BY <1>1, AuditInductive, PTL

THEOREM PagesAtAllTimes == Audit!Spec => []Audit!PagesComplete
<1>1. Audit!TypeOK /\ PagesInv => Audit!PagesComplete
  <2> SUFFICES ASSUME Audit!TypeOK, PagesInv PROVE Audit!PagesComplete
    OBVIOUS
  <2>1. /\ Len(pages) \in Nat /\ DOMAIN pages = 1 .. Len(pages)
        /\ \A i \in 1 .. Len(pages) : pages[i] \in Entries
        /\ \A x : x \in Audit!ToSet(pages) <=> \E i \in 1 .. Len(pages) : pages[i] = x
        /\ pages # <<>> => Len(pages) >= 1
    BY DEF Audit!TypeOK, Audit!ToSet
  <2>2. \A x \in Entries : x \in Int /\ created[x] \in Int
    BY AuditAssumption DEF Audit!TypeOK
  <2>3. ASSUME NEW i \in DOMAIN pages, NEW j \in DOMAIN pages, i < j
        PROVE  pages[i] # pages[j] /\ created[pages[i]] >= created[pages[j]]
    <3>1. Audit!Before(pages[j], pages[i]) /\ pages[i] \in Entries /\ pages[j] \in Entries
      BY <2>1, <2>3 DEF PagesInv
    <3> QED
      BY <2>2, <3>1 DEF Audit!Before
  <2>4. cursor = -1 /\ pages # <<>> => present \subseteq Audit!ToSet(pages)
    BY <2>1 DEF PagesInv
  <2> QED
    BY <2>3, <2>4 DEF Audit!PagesComplete
<1> QED
  BY <1>1, AuditInductive, PTL

-------------------------------------------------------------------------------
(* The services together *)

\* The proofs about CrudEntities, read in the variables of MCServices.
EntitiesProofs == INSTANCE CrudEntities_proofs WITH
    MaxTime <- EntityTime,
    row <- eRow, clock <- eClock, pc <- ePc, answer <- eAnswer, found <- eFound

\* Whoever's step it is, every service takes one of its own or none.
LEMMA EachStep ==
  [ServicesNext]_serviceVars =>
    /\ [Next]_vars
    /\ [Entities!Next]_Entities!vars
    /\ [Audit!Next]_Audit!auditVars
    /\ [Scope!Next]_Scope!scopeVars
    /\ [Layout!Next]_Layout!layoutVars
BY DEF ServicesNext, RunsNext, EntitiesNext, AuditNext, ScopeNext, LayoutNext, serviceVars, vars,
       entityVars, auditVars, scopeVars, layoutVars, Entities!vars, Audit!auditVars,
       Audit!process, Audit!reader, Scope!scopeVars, Layout!layoutVars

\* What the services do in one run is what each of them does on its own.
LEMMA ServicesAreThemselves == ServicesSpec => Spec /\ Entities!Spec /\ Audit!Spec /\ Scope!Spec /\ Layout!Spec
<1>1. ServicesInit => Init /\ Entities!Init /\ Audit!Init /\ Scope!Init /\ Layout!Init
  BY DEF ServicesInit
<1> QED
  BY <1>1, EachStep, PTL DEF ServicesSpec, Spec, Entities!Spec, Audit!Spec, Scope!Spec, Layout!Spec

LEMMA EntitiesProved ==
  Entities!Spec => [](Entities!TypeOK /\ Entities!UpdatesAreKept) /\ Entities!CheckedSawLatest
<1>1. EntitiesProofs!Parameters
  BY EntitiesAssumption DEF EntitiesProofs!Parameters
<1>2. Entities!Init => EntitiesProofs!Init
  BY DEF Entities!Init, EntitiesProofs!Init, Entities!NoRow, EntitiesProofs!NoRow,
         Entities!NoBase, EntitiesProofs!NoBase
<1>3. [Entities!Next]_Entities!vars => [EntitiesProofs!Next]_EntitiesProofs!vars
  BY DEF Entities!Next, EntitiesProofs!Next, Entities!vars, EntitiesProofs!vars,
         Entities!Tick, EntitiesProofs!Tick, Entities!Arrive, EntitiesProofs!Arrive,
         Entities!Execute, EntitiesProofs!Execute, Entities!Find, EntitiesProofs!Find,
         Entities!Compare, EntitiesProofs!Compare, Entities!Write, EntitiesProofs!Write,
         Entities!Insert, EntitiesProofs!Insert, Entities!Fail, EntitiesProofs!Fail,
         Entities!Goto, EntitiesProofs!Goto, Entities!Finish, EntitiesProofs!Finish,
         Entities!Outdated, EntitiesProofs!Outdated, Entities!Edited, EntitiesProofs!Edited,
         Entities!Differing, EntitiesProofs!Differing, Entities!Commit, EntitiesProofs!Commit,
         Entities!NoRow, EntitiesProofs!NoRow, Entities!NoBase, EntitiesProofs!NoBase,
         Entities!Column, EntitiesProofs!Column
<1>4. Entities!Spec => EntitiesProofs!Spec
  BY <1>2, <1>3, PTL DEF Entities!Spec, EntitiesProofs!Spec
<1>5. EntitiesProofs!AloneInvariant => Entities!TypeOK
  BY DEF EntitiesProofs!AloneInvariant, EntitiesProofs!Invariant,
         Entities!TypeOK, EntitiesProofs!TypeOK, Entities!RowType, EntitiesProofs!RowType,
         Entities!Request, EntitiesProofs!Request, Entities!Answer, EntitiesProofs!Answer,
         Entities!NoBase, EntitiesProofs!NoBase, Entities!Column, EntitiesProofs!Column
<1>6. EntitiesProofs!UpdatesAreKept => Entities!UpdatesAreKept
  <2>1. /\ \A f \in Fields : EntitiesProofs!LastWriter(f) = Entities!LastWriter(f)
        /\ EntitiesProofs!Committed("update") = Entities!Committed("update")
        /\ EntitiesProofs!Committed("delete") = Entities!Committed("delete")
    BY DEF Entities!LastWriter, EntitiesProofs!LastWriter, Entities!Committed, EntitiesProofs!Committed
  <2>2. EntitiesProofs!SerialWhenApart => Entities!SerialWhenApart
    <3>1. \A S : EntitiesProofs!Cardinality(S) = Entities!Cardinality(S)
      BY DEF Entities!Cardinality, EntitiesProofs!Cardinality
    <3> QED
      BY <2>1, <3>1 DEF Entities!SerialWhenApart, EntitiesProofs!SerialWhenApart
  <2>3. EntitiesProofs!LostOnlyToOverlap => Entities!LostOnlyToOverlap
    BY DEF Entities!LostOnlyToOverlap, EntitiesProofs!LostOnlyToOverlap
  <2>4. EntitiesProofs!ConflictHasCause => Entities!ConflictHasCause
    BY DEF Entities!ConflictHasCause, EntitiesProofs!ConflictHasCause
  <2> QED
    BY <2>2, <2>3, <2>4 DEF Entities!UpdatesAreKept, EntitiesProofs!UpdatesAreKept
<1>7. EntitiesProofs!CheckedSawLatest => Entities!CheckedSawLatest
  <2>1. [\A c \in Calls :
          /\ apart
          /\ ePc[c] = "find" /\ ePc'[c] = "save"
          /\ request[c].base # EntitiesProofs!NoBase /\ ~ request[c].force
          => \A i \in request[c].seen + 1 .. Len(log) : log[i].at = request[c].base]_EntitiesProofs!vars
        => [\A c \in Calls :
          /\ apart
          /\ ePc[c] = "find" /\ ePc'[c] = "save"
          /\ request[c].base # Entities!NoBase /\ ~ request[c].force
          => \A i \in request[c].seen + 1 .. Len(log) : log[i].at = request[c].base]_Entities!vars
    BY DEF EntitiesProofs!NoBase, EntitiesProofs!vars, Entities!NoBase, Entities!vars
  <2> QED
    BY <2>1, PTL DEF EntitiesProofs!CheckedSawLatest, Entities!CheckedSawLatest
<1> QED
  BY <1>1, <1>4, <1>5, <1>6, <1>7, EntitiesProofs!AloneInductive, EntitiesProofs!UpdatesAlwaysKept,
     EntitiesProofs!CheckedUpdatesSawLatest, PTL

OneOfTheParts == part \in {"runs", "entities", "audit", "scope", "layout"}

\* Every service keeps its variables in their types, for any values of the
\* constants.
THEOREM TypesAlwaysOK == ServicesSpec => []TypesOK
<1>1. /\ OneOfTheParts
      /\ TypeOK /\ Entities!TypeOK /\ Audit!TypeOK /\ Scope!TypeOK /\ Layout!TypeOK
      => TypesOK
  BY DEF OneOfTheParts, TypesOK
<1>2. ServicesInit => OneOfTheParts
  BY DEF ServicesInit, OneOfTheParts
<1>3. OneOfTheParts /\ [ServicesNext]_serviceVars => OneOfTheParts'
  BY DEF OneOfTheParts, ServicesNext, RunsNext, EntitiesNext, AuditNext, ScopeNext, LayoutNext, serviceVars
<1> QED
  BY <1>1, <1>2, <1>3, ServicesAreThemselves, TypeCorrect, EntitiesProved, AuditInductive, RunnerIsScoped,
     CopiesAreShortLived, PTL DEF ServicesSpec

\* Two updates of an entity that read and write apart leave what one after the
\* other would leave, a change is only lost to an overlapping one, and every
\* conflict that is reported has a cause: for any number of concurrent calls.
THEOREM UpdatesAlwaysKept == ServicesSpec => []UpdatesAreKept
<1>1. Entities!UpdatesAreKept => UpdatesAreKept
  BY DEF UpdatesAreKept
<1> QED
  BY <1>1, ServicesAreThemselves, EntitiesProved, PTL

\* An update that compared and found no conflict saw every later commit that
\* carries another time than its own.
THEOREM CheckedUpdatesSawLatest == ServicesSpec => CheckedSawLatest
BY ServicesAreThemselves, EntitiesProved, PTL DEF CheckedSawLatest

\* An entry of the audit log that met neither a failing statement nor the end
\* of the process is in one place until its retention is over, and no critical
\* one waits: for any number of entries and any size of the buffer below the
\* threshold at which it would drop.
THEOREM AuditAlwaysKept == ServicesSpec => []AuditIsKept
<1>1. Audit!AuditIsKept => AuditIsKept
  BY DEF AuditIsKept
<1> QED
  BY <1>1, ServicesAreThemselves, AuditAtAllTimes, PTL

\* Whoever reads the audit log to its last page sees every row that was there
\* and still is, once and newest first: for any size of the pages and of the
\* table, whatever is logged and purged between two of them.
THEOREM PagesAlwaysComplete == ServicesSpec => []PagesComplete
<1>1. Audit!PagesComplete => PagesComplete
  BY DEF PagesComplete
<1> QED
  BY <1>1, ServicesAreThemselves, PagesAtAllTimes, PTL

\* A query on a pooled connection runs under the tenant of the request that
\* made it: for any number of requests and connections.
THEOREM RunnerAlwaysScoped == ServicesSpec => []RunnerSeesItsTenant
<1>1. Scope!RunnerSeesItsTenant => RunnerSeesItsTenant
  BY DEF RunnerSeesItsTenant
<1> QED
  BY <1>1, ServicesAreThemselves, RunnerIsScoped, PTL

\* A tenant that was deactivated longer ago than the cached answer lives gets
\* no request in.
THEOREM DeactivationAlwaysBites == ServicesSpec => DeactivationBites
BY ServicesAreThemselves, DeactivationHolds, PTL DEF DeactivationBites

\* No process serves a layout for longer than the two lives of its copies after
\* the load, whatever invalidation messages are lost.
THEOREM CopiesAlwaysDie == ServicesSpec => []CopiesDie
<1>1. Layout!CopiesDie => CopiesDie
  BY DEF CopiesDie
<1> QED
  BY <1>1, ServicesAreThemselves, CopiesAreShortLived, PTL
===============================================================================
