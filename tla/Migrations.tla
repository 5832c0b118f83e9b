------------------------------ MODULE Migrations ------------------------------
(***************************************************************************)
(* The migrations of the database (apps/nestjs/migrations), applied and    *)
(* reverted one at a time, each in a transaction: what they do to tables,  *)
(* row-level security, policies, the role scalario_app and its privileges, *)
(* and to the columns that later migrations add or change.                 *)
(*                                                                         *)
(* The role that runs them owns the tables.  Indexes, constraints and the  *)
(* other columns are left out.                                             *)
(***************************************************************************)
EXTENDS Naturals, FiniteSets

VARIABLES
    applied,    \* migrations 0 .. applied - 1 are in force
    schema,     \* what they have made of the database
    before      \* the schema that each migration met when it was first applied

vars == <<applied, schema, before>>

AuthTablesOf == {"tenants", "users", "refresh_tokens"}
BusinessTables == {"screen_configs", "entities", "workflow_states", "audit_logs", "sync_mutations", "embeddings"}
TenantTables == {"users", "refresh_tokens"} \cup BusinessTables
AllTables == AuthTablesOf \cup BusinessTables \cup {"flow_pending_delays"}

DML == {"SELECT", "INSERT", "UPDATE", "DELETE"}
Privileges == DML \cup {"TRUNCATE"}
Policies == {"user_tenant_isolation", "tenant_isolation"}
Columns == {"tenants.config", "config.abac_rules", "tenants.handle", "workflow_states.triggered_by",
            "workflow_states.entity_id NULL", "workflow_states.history JSONB", "app.current_tenant_id"}

Schemas ==
    [tables : SUBSET AllTables, rls : SUBSET AllTables, forced : SUBSET AllTables,
     policies : SUBSET (AllTables \X Policies),
     may : SUBSET (AllTables \X Privileges),            \* what scalario_app may do
     defaults : SUBSET {"tables", "sequences"},         \* default privileges it has in the schema
     role : BOOLEAN, columns : SUBSET Columns]

Empty == [tables |-> {}, rls |-> {}, forced |-> {}, policies |-> {}, may |-> {}, defaults |-> {},
          role |-> FALSE, columns |-> {}]

-------------------------------------------------------------------------------
(* Statements *)

\* CREATE TABLE IF NOT EXISTS: a new table gets the default privileges.
Create(s, new) ==
    [s EXCEPT !.tables = @ \cup new,
              !.may = @ \cup (IF "tables" \in s.defaults THEN (new \ s.tables) \X DML ELSE {})]

\* DROP TABLE takes the table's policies and privileges with it.
Drop(s, old) ==
    [s EXCEPT !.tables = @ \ old, !.rls = @ \ old, !.forced = @ \ old,
              !.policies = {p \in @ : p[1] \notin old}, !.may = {p \in @ : p[1] \notin old}]

Add(s, column) == [s EXCEPT !.columns = @ \cup {column}]
Remove(s, column) == [s EXCEPT !.columns = @ \ {column}]

-------------------------------------------------------------------------------
(* The migrations *)

AuthTables(s) ==
    [Create(s, AuthTablesOf) EXCEPT !.rls = @ \cup {"users"},
                                    !.policies = @ \cup {<<"users", "user_tenant_isolation">>}]
UndoAuthTables(s) == Drop(s, AuthTablesOf)

TenantRoles(s) == Add(s, "tenants.config")
UndoTenantRoles(s) == Remove(s, "tenants.config")

\* The default of the setting, where the database allows it.
TenantIdDefault(s) == Add(s, "app.current_tenant_id")
UndoTenantIdDefault(s) == Remove(s, "app.current_tenant_id")

\* Mutant: the placeholder is not restored.
UndoRlsPoliciesForgets(s) ==
    [Drop(s, BusinessTables) EXCEPT !.rls = @ \ {"refresh_tokens"}, !.policies = {}]

RlsPolicies(s) ==
    [Create(s, BusinessTables) EXCEPT
        !.rls = @ \cup TenantTables, !.forced = @ \cup TenantTables,
        !.policies = (@ \ {<<"users", "user_tenant_isolation">>}) \cup (TenantTables \X {"tenant_isolation"})]

\* Row security is disabled on every table and then enabled on users again; that
\* it is forced on users and refresh_tokens is not undone.
UndoRlsPolicies(s) ==
    [Drop(s, BusinessTables) EXCEPT !.rls = {"users"}, !.policies = {<<"users", "user_tenant_isolation">>}]

\* Mutant: the same privileges on every table.
RlsAppUserAlike(s) ==
    [s EXCEPT !.role = TRUE, !.may = s.tables \X DML, !.defaults = {"tables", "sequences"}]

RlsAppUser(s) ==
    [s EXCEPT !.role = TRUE,
              !.may = @ \cup ((s.tables \ {"audit_logs"}) \X DML) \cup ({"audit_logs"} \X {"SELECT", "INSERT"}),
              !.defaults = {"tables", "sequences"}]

\* Everything the role was granted is revoked, so that it can be dropped.
UndoRlsAppUser(s) == [s EXCEPT !.role = FALSE, !.may = {}, !.defaults = {}]

TenantAbacRules(s) == Add(s, "config.abac_rules")
UndoTenantAbacRules(s) == Remove(s, "config.abac_rules")

\* The way back leaves the privileges as they are.
AuditLogPolicies(s) ==
    [s EXCEPT !.may = (@ \ ({"audit_logs"} \X {"UPDATE", "DELETE", "TRUNCATE"}))
                        \cup ({"audit_logs"} \X {"SELECT", "INSERT"})]

WorkflowExecutor(s) ==
    [s EXCEPT !.columns = @ \cup {"workflow_states.triggered_by", "workflow_states.entity_id NULL",
                                  "workflow_states.history JSONB"}]

AddTenantHandleNetwork(s) == Add(s, "tenants.handle")
UndoTenantHandleNetwork(s) == Remove(s, "tenants.handle")

CreateFlowPendingDelays(s) == Create(s, {"flow_pending_delays"})
UndoFlowPendingDelays(s) == Drop(s, {"flow_pending_delays"})

Last == 10

\* What migration n makes of a schema.
Up(n, s) ==
    CASE n = 1  -> AuthTables(s)
      [] n = 2  -> TenantRoles(s)
      [] n = 3  -> TenantIdDefault(s)
      [] n = 4  -> RlsPolicies(s)
      [] n = 5  -> RlsAppUser(s)
      [] n = 6  -> TenantAbacRules(s)
      [] n = 7  -> AuditLogPolicies(s)
      [] n = 8  -> WorkflowExecutor(s)
      [] n = 9  -> AddTenantHandleNetwork(s)
      [] n = 10 -> CreateFlowPendingDelays(s)
      [] OTHER  -> s

Down(n, s) ==
    CASE n = 1  -> UndoAuthTables(s)
      [] n = 2  -> UndoTenantRoles(s)
      [] n = 3  -> UndoTenantIdDefault(s)
      [] n = 4  -> UndoRlsPolicies(s)
      [] n = 5  -> UndoRlsAppUser(s)
      [] n = 6  -> UndoTenantAbacRules(s)
      [] n = 9  -> UndoTenantHandleNetwork(s)
      [] n = 10 -> UndoFlowPendingDelays(s)
      [] OTHER  -> s

\* The change of the history's type back to an array has a subquery in its
\* USING clause, which PostgreSQL does not accept.  A migration that fails leaves
\* everything as it was.
Succeeds(n) == n # 8

-------------------------------------------------------------------------------

TypeOK == applied \in 0 .. Last + 1 /\ schema \in Schemas /\ before \in [0 .. Last -> Schemas \cup {Empty}]

Init == applied = 0 /\ schema = Empty /\ before = [n \in 0 .. Last |-> Empty]

\* migration:run.  A migration without a password for the role fails.
Migrate ==
    /\ applied <= Last
    /\ applied' = applied + 1
    /\ schema' = Up(applied, schema)
    /\ before' = IF before[applied] = Empty THEN [before EXCEPT ![applied] = schema] ELSE before

\* migration:revert
Revert ==
    /\ applied > 0
    /\ Succeeds(applied - 1)
    /\ applied' = applied - 1
    /\ schema' = Down(applied - 1, schema)
    /\ UNCHANGED before

Next == Migrate \/ Revert

Spec == Init /\ [][Next]_vars

-------------------------------------------------------------------------------
(* Properties *)

Isolated(s, table) == table \in s.rls \cap s.forced /\ <<table, "tenant_isolation">> \in s.policies

\* On every way to a version, with reverts in between, the application's role
\* reaches no table of a tenant without the policy and adds to the audit log
\* only (migrations 4, 5 and 7: grants and policies are made apart, and default
\* privileges open every later table).  tenants has no tenant_id.  The table of
\* delays has one and no policy: migration 10 makes none.
ConfinedRole ==
    /\ \A p \in schema.may : p[1] \in {"tenants", "flow_pending_delays"} \/ Isolated(schema, p[1])
    /\ \A privilege \in {"UPDATE", "DELETE", "TRUNCATE"} : <<"audit_logs", privilege>> \notin schema.may

\* A revert gives back the schema that the migration met (the down() of each),
\* but for what is forced.
RevertRestores ==
    [][applied' < applied =>
          [schema' EXCEPT !.forced = {}] = [before[applied'] EXCEPT !.forced = {}]]_vars

===============================================================================
