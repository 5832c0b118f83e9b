----------------------------- MODULE TenantScope ------------------------------
(***************************************************************************)
(* Under which tenant a request reaches the database: the middleware with  *)
(* its cache of active tenants (core/security/middleware, tenants/         *)
(* tenants.service.ts), the pool of connections, and the query runner that *)
(* stamps the connection it borrows (common/database).                     *)
(*                                                                         *)
(* The policies compare tenant_id with a setting of the session, so that   *)
(* what counts is the setting of the connection a statement runs on.  A    *)
(* step ends at an await.  Left out: the signature of the token (see       *)
(* Sessions), the statements' rows.                                        *)
(***************************************************************************)
EXTENDS Naturals, FiniteSets

CONSTANTS
    Requests,       \* requests under way at one time
    Tenants,
    Connections,    \* of the pool
    None,           \* no tenant: an unset setting, a public route
    Nobody,         \* holds the connections that are free
    TTL,            \* of the cache
    MaxTime         \* bound: ticks of the clock

VARIABLES
    active,     \* is_active of each tenant, in its row
    cache,      \* what the process remembers of it, and until when
    clock,
    at,         \* where each request is
    scope,      \* its tenant: the store of its AsyncLocalStorage
    found,      \* its local is_active between the SELECT and the cache
    setting,    \* app.current_tenant_id of each connection
    holder,     \* who has borrowed it
    grace       \* history: until when a deactivated tenant may still be admitted

scopeVars == <<active, cache, clock, at, scope, found, setting, holder, grace>>

Free == {c \in Connections : holder[c] = Nobody}

TypeOK ==
    /\ active \in [Tenants -> BOOLEAN]
    /\ cache \in [Tenants -> [active : BOOLEAN, expires : 0 .. MaxTime + TTL]]
    /\ clock \in 0 .. MaxTime /\ grace \in [Tenants -> 0 .. MaxTime + TTL]
    /\ at \in [Requests -> {"idle", "select", "store", "seed", "handler", "stamp", "statements", "reset"}]
    /\ scope \in [Requests -> Tenants \cup {None}] /\ found \in [Requests -> BOOLEAN]
    /\ setting \in [Connections -> Tenants \cup {None}]
    /\ holder \in [Connections -> Requests \cup {Nobody}]

\* The cache is empty: an entry that has expired stands for one that is absent.
Init ==
    /\ active = [t \in Tenants |-> TRUE]
    /\ cache = [t \in Tenants |-> [active |-> FALSE, expires |-> 0]]
    /\ clock = 0 /\ grace = [t \in Tenants |-> 0]
    /\ at = [r \in Requests |-> "idle"]
    /\ scope = [r \in Requests |-> None] /\ found = [r \in Requests |-> FALSE]
    /\ setting = [c \in Connections |-> None]
    /\ holder = [c \in Connections |-> Nobody]

Goto(r, label) == at' = [at EXCEPT ![r] = label]
Finish(r) ==
    /\ Goto(r, "idle")
    /\ scope' = [scope EXCEPT ![r] = None]
    /\ found' = [found EXCEPT ![r] = FALSE]

-------------------------------------------------------------------------------
(* The middleware *)

Remembered(t) == cache[t].expires > clock
Remember(t, isActive) == cache' = [cache EXCEPT ![t] = [active |-> isActive, expires |-> clock + TTL]]

\* Mutant: a hit renews the entry.
UseRenews(r, t) ==
    /\ at[r] = "idle"
    /\ \/ Remembered(t) /\ cache[t].active /\ Goto(r, "seed") /\ Remember(t, TRUE)
       \/ ~ Remembered(t) /\ Goto(r, "select") /\ UNCHANGED cache
    /\ scope' = [scope EXCEPT ![r] = t]
    /\ UNCHANGED <<active, clock, found, setting, holder, grace>>

\* A request with a token.  A tenant that is remembered as inactive is refused.
Use(r, t) ==
    /\ at[r] = "idle"
    /\ \/ Remembered(t) /\ cache[t].active /\ Goto(r, "seed")
       \/ ~ Remembered(t) /\ Goto(r, "select")
    /\ scope' = [scope EXCEPT ![r] = t]
    /\ UNCHANGED <<active, cache, clock, found, setting, holder, grace>>

\* A public route or a timer has no store.
UsePublic(r) ==
    /\ at[r] = "idle"
    /\ Goto(r, "handler")
    /\ UNCHANGED <<active, cache, clock, scope, found, setting, holder, grace>>

SelectTenant(r) ==
    /\ at[r] = "select"
    /\ found' = [found EXCEPT ![r] = active[scope[r]]]
    /\ Goto(r, "store")
    /\ UNCHANGED <<active, cache, clock, scope, setting, holder, grace>>

\* What was read is remembered from now on, and decides.
StoreTenant(r) ==
    /\ at[r] = "store"
    /\ Remember(scope[r], found[r])
    /\ grace' = [grace EXCEPT ![scope[r]] = IF found[r] /\ ~ active[scope[r]] THEN clock + TTL ELSE @]
    /\ IF found[r] THEN Goto(r, "seed") /\ UNCHANGED <<scope, found>> ELSE Finish(r)
    /\ UNCHANGED <<active, clock, setting, holder>>

\* setSessionGuc: the query takes a connection, any one, and gives it back; what
\* it sets stays.  If it fails the request goes on.
SetSessionGuc(r) ==
    /\ at[r] = "seed"
    /\ \/ \E c \in Free : setting' = [setting EXCEPT ![c] = scope[r]]
       \/ UNCHANGED setting
    /\ Goto(r, "handler")
    /\ UNCHANGED <<active, cache, clock, scope, found, holder, grace>>

-------------------------------------------------------------------------------
(* The handler *)

\* A query of a repository takes a connection, any one, and gives it back; a
\* statement of the query runner runs on the one that was borrowed.  Both leave
\* the state here as it is.
MayRunOn(r) ==
    CASE at[r] = "handler"    -> Free
      [] at[r] = "statements" -> {c \in Connections : holder[c] = r}
      [] OTHER                -> {}

\* withConnection: a connection is borrowed.
Connect(r) ==
    /\ at[r] = "handler"
    /\ \E c \in Free : holder' = [holder EXCEPT ![c] = r]
    /\ Goto(r, "stamp")
    /\ UNCHANGED <<active, cache, clock, scope, found, setting, grace>>

Mine(r) == CHOOSE c \in Connections : holder[c] = r

\* Mutant: the runner trusts that the middleware has set the tenant.
StampNot(r) ==
    /\ at[r] = "stamp"
    /\ Goto(r, "statements")
    /\ UNCHANGED <<active, cache, clock, scope, found, setting, holder, grace>>

\* The borrowed connection gets the tenant, if there is one; a failure is the
\* end of the call.
Stamp(r) ==
    /\ at[r] = "stamp"
    /\ \/ /\ scope[r] # None
          /\ setting' = [setting EXCEPT ![Mine(r)] = scope[r]]
          /\ Goto(r, "statements")
       \/ scope[r] = None /\ Goto(r, "statements") /\ UNCHANGED setting
       \/ scope[r] # None /\ Goto(r, "reset") /\ UNCHANGED setting
    /\ UNCHANGED <<active, cache, clock, scope, found, holder, grace>>

EndStatements(r) ==
    /\ at[r] = "statements"
    /\ Goto(r, "reset")
    /\ UNCHANGED <<active, cache, clock, scope, found, setting, holder, grace>>

\* RESET and release.  A connection that has died is replaced by a new one, on
\* which nothing is set either.
ResetAndRelease(r) ==
    /\ at[r] = "reset"
    /\ setting' = [setting EXCEPT ![Mine(r)] = None]
    /\ holder' = [holder EXCEPT ![Mine(r)] = Nobody]
    /\ Goto(r, "handler")
    /\ UNCHANGED <<active, cache, clock, scope, found, grace>>

Respond(r) ==
    /\ at[r] = "handler"
    /\ Finish(r)
    /\ UNCHANGED <<active, cache, clock, setting, holder, grace>>

-------------------------------------------------------------------------------
(* Environment *)

\* Somebody changes the row of a tenant; nobody calls invalidate.
Toggle(t) ==
    /\ active' = [active EXCEPT ![t] = ~ @]
    /\ grace' = [grace EXCEPT ![t] = IF active[t] THEN clock + TTL ELSE 0]
    /\ UNCHANGED <<cache, clock, at, scope, found, setting, holder>>

Tick ==
    /\ clock < MaxTime /\ clock' = clock + 1
    /\ UNCHANGED <<active, cache, at, scope, found, setting, holder, grace>>

Next ==
    \/ \E r \in Requests, t \in Tenants : Use(r, t)
    \/ \E r \in Requests :
          \/ UsePublic(r) \/ SelectTenant(r) \/ StoreTenant(r) \/ SetSessionGuc(r)
          \/ Connect(r) \/ Stamp(r) \/ EndStatements(r) \/ ResetAndRelease(r)
          \/ Respond(r)
    \/ \E t \in Tenants : Toggle(t)
    \/ Tick

Spec == Init /\ [][Next]_scopeVars

-------------------------------------------------------------------------------
(* Properties *)

\* What a request runs through the query runner runs under its own tenant,
\* whatever the other requests and the middleware do to the connections of the
\* pool in the meantime.
RunnerSeesItsTenant ==
    \A r \in Requests : at[r] = "statements" /\ scope[r] # None => \A c \in MayRunOn(r) : setting[c] = scope[r]

\* A deactivated tenant is admitted for no longer than the entry lives that was
\* there at the deactivation, or that a lookup under way put there afterwards:
\* nothing that a request does makes an old answer live on.
DeactivationBites ==
    [][\A r \in Requests : at[r] # "seed" /\ at'[r] = "seed" /\ ~ active[scope'[r]]
           => clock < grace'[scope'[r]]]_scopeVars

\* The repositories run inside the context of the request that the middleware
\* has propagated (comment of TenantAwareQueryRunner).
RepositorySeesItsTenant ==
    \A r \in Requests : at[r] = "handler" => \A c \in MayRunOn(r) : setting[c] = scope[r]

===============================================================================
