# Scalario: a formal model

Scalario is a multi-tenant business platform: a Flutter client that goes on
working offline, and a NestJS server over PostgreSQL and Redis, whose screens,
flows and workflows are data. This directory holds TLA+ models of the parts in
which several actors meet (calls, processes, messages, timers, failures) and of the
algorithms that interpret that data, the TLC configurations that check them on
small instances, and proofs, checked by TLAPS, of what matters most for every
instance.

Paths without a prefix are under `src/apps/nestjs/src/`, `flutter:` stands for
`src/apps/flutter/lib/`, and STORY-nnn is the file of that name in
`src/_bmad-output/stories/`, the documents that state what the code is meant to do.

Contents: [the system](#the-system) · [plan](#plan) · [modules](#modules) ·
[runs](#runs) · [fairness](#fairness) · [proofs](#proofs) ·
[only model-checked](#what-is-only-model-checked) · [divergences](#divergences) ·
[not modelled](#what-is-not-modelled) · [further hazards](#further-hazards)

## The system

### Modelled components

| Component | State | Operations | Talks to |
|---|---|---|---|
| Offline queue, `flutter: core/sync`, `core/vault/dao` | table `sync_queue_items` (survives the process); the worker's `_isDraining`, `_isActive`, batch | `enqueue`, `start`, `triggerDrain`, `pause`, `resume`, the drain loop, five DAO updates | connectivity events, the server through `SyncApiClient` |
| Bulk endpoint, `sync/sync.controller.ts` | the results of the request under way | `processBatch`: one dispatch after the other | the dispatcher |
| Dispatcher and idempotency, `engines/action/services` | table `sync_mutations`: one row per client mutation, `pending`, `success` or `error` | `dispatch`: `checkAndReserve`, the handler, `markSuccess`, `markError` | handlers, the workflow executor, the state machine |
| CRUD handlers, `engines/action/handlers` | table `entities` | `crud.create`, `crud.update` with the `base_updated_at` check, `crud.delete` | TypeORM's `save` |
| Workflow executor, `engines/workflow/executor` | `ready`, `inDegree`, `completed`, `skipped`, `history`; the run's row of `workflow_states` | `run`, `executeDag`, `processStep`, `skipBranch`, retries | step dispatcher, the row it shares with the state machine |
| Workflow state machine, `engines/workflow/fsm` | the same row | `transition` under a row lock | the dispatcher, the row |
| Flow engine, `engines/flow` | the pending calls of a recursion, visited steps, `context.data`; table `flow_pending_delays` | `compile`, `execute`, `executeStep`, webhooks with retries, the cron job that resumes delays | the flow dispatcher, receivers of webhooks |
| Sessions, `core/auth`, `core/cache/services/token-blacklist.service.ts` | table `refresh_tokens`; the blacklist of access tokens in Redis | `login`, `refresh` with detection of reuse, `logout`, the guard | Redis, the database |
| Role lists, `core/security/services/roles.service.ts` | `tenants.config`, a copy in Redis, a copy in each node's memory | `getRolesForTenant`, `patchRoles`, `invalidateCache` | Redis: GET, SET EX, DEL, PUBLISH |
| Tenant scope, `core/security/middleware`, `common/database` | a cache of active tenants; the setting `app.current_tenant_id` of every pooled connection, on which row-level security decides | the middleware, repositories, `withConnection` of the query runner | the pool, every service |
| Audit log, `core/audit` | the buffer, the INSERTs under way, table `audit_logs` | `log`, `flush`, the purge, reading page by page | auth, dispatcher, executor |
| Layout cache, `core/cache/services/bdui-cache.service.ts`, `bdui/cache` | an LRU per node, copies in Redis, channel `bdui:invalidate` | `getLayout`, `set`, `invalidate`, the listener | Redis, the other nodes |
| Making of a layout, `bdui/services`, `bdui/filters` | none | `loadScreenConfig` with `$ref`s, generated screens, `normalizeScreenConfig`, the filter for roles | layout cache, generation |
| Generation by a language model, `engines/mind`, `ai-relay` | a conversation for each surface | `generate` with validation and retries, `prune`, `buildWindow`, three callers | models behind a fallback |
| Formulas, `engines/algo` | the depth and the steps of one evaluation | `eval`, `validate`, the primitives | none |
| Validators and scripts, `engines/workflow/validator`, `fsm-validator.ts`, `catalog-loader`, `src/scripts` | none | Kahn's algorithm, `validateDAG`, `FsmValidator.validate`, the catalogue at boot and in the script, the script of the schemas | files |
| Migrations, `src/apps/nestjs/migrations` | the schema: tables, policies, privileges | eleven ups and downs | PostgreSQL |

### Where it is hard

* **Interleaving.** Node.js runs one callback at a time, and every `await` lets
  another call in. In every module an action is what happens between two awaits,
  or one statement of the database.
* **Two commits that ought to be one.** The handler's effect and the row that
  says it succeeded; the check of `updated_at` and the save; the row of a role
  list and the deletion of its copies; the revocation of a token and the one that
  takes its place.
* **State that outlives its request.** The setting of a pooled connection, the
  buffer of the audit log, the conversation of a surface, a copy in a cache.
* **Crashes.** The app is killed, the server process ends, between any two steps.
* **An unreliable network.** A request is lost, or refused, or arrives after the
  client gave up on it and sent another. A Redis message is delivered to some.
* **Shared rows.** A run of a workflow and the transitions of the state machine
  write one row; several nodes copy one list.
* **Data that is a program.** Graphs of steps, nested screens and formulas come from
  tenants and from a model; the same check exists twice, in the application and in a
  script.

### What makes each component correct

* *Queue*: no row is stranded in flight; an answered row is not queued again;
  older rows are not left behind; every row is settled in the end.
* *Dispatcher*: a success is never reported without an effect and is not taken
  back; the effect happens once unless an attempt was recorded as failed.
* *End to end*: what the user is told is true and final (`Outbox`).
* *Entities*: updates are lost only to overlapping ones; a conflict has a cause;
  a checked update saw the latest state.
* *Executor*: steps start after what they depend on, run once, are skipped only
  for a reason, and are not forgotten; the table and the answer agree.
* *State machine*: the history is a path; a workflow has one run; a request moves the
  row from where it is at that moment, along a transition for its event.
* *Flow engine*: every step that ran has a reason to, every step that has one ran;
  executions end.
* *Sessions*: a refresh token is exchanged once; reuse ends the family; a token
  that was logged out stays out.
* *Role lists, layouts*: a copy is current once a change is over, and otherwise
  stale for no longer than its lives add up to.
* *Tenant scope*: a statement runs under the tenant of its own request; a tenant
  that is switched off is kept out.
* *Audit log*: an entry is written, or something that failed explains why not; a
  reader who turns pages misses nothing.
* *Layouts*: who may see a component sees it, and nobody else; a generated
  component that the root leads to is on the screen.
* *Generation*: only what passed validation is shown; the model is sent a
  conversation without holes.
* *Formulas*: a primitive obeys its law; what `validate` accepts, evaluates.
* *Definitions*: a verdict is right; what the script passes, the application starts
  with; a green script has checked what it counts.
* *Migrations*: the application's role sees tenants' tables only through their
  policies; a way back restores what was there.

## Plan

Order of the work, the most important behaviour first; what is done is marked ✓.

1. ✓ `ActionDispatcher`, and its proofs: every change of data passes through it.
2. ✓ `SyncQueue`, `SyncServer` (extends `ActionDispatcher`), and `OfflineSync`,
   which composes both over a network and implements the abstract `Outbox`.
3. ✓ `WorkflowExecutor`, which implements the abstract `WorkflowRow`, and
   `WorkflowRuns`, which is built on `WorkflowRow` and adds concurrent starts and
   transitions; proofs of both.
4. ✓ `CrudEntities`: the optimistic check at the round trips TypeORM makes; proofs.
5. ✓ `RolesCache`: two cache tiers and an invalidation channel; proofs.
6. ✓ `Sessions`: rotation of refresh tokens, reuse, logout; proofs.
7. ✓ `TenantScope`: connections, their settings and the cache of tenants; proofs.
8. ✓ `LayoutCache`: as `RolesCache`, with the listener that publishes what it
   receives; proofs.
9. ✓ `AuditTrail`: buffer, flush, purge, pages; proofs.
10. ✓ `Flow`: compilation, execution, delays.
11. ✓ The pure parts: `Definitions`, `Screens`, `Algo`, `Migrations`; and `Mind`,
    which has a conversation.
12. ✓ Proofs of the queue (`SyncQueue_proofs`), and of what phone, network and server
    do together: the promise of `Outbox` (`OfflineSync_proofs`).
13. ✓ Proofs that every safety property of the run `services` holds of its
    composed specification (`Services_proofs`).
14. ✓ Proofs about what runs in `engines`: executor, flow engine, generator, migrations
    and the validation of definitions (`Runtime_proofs`).

What is left, in this order:

* the HTTP idempotency cache in front of the dispatcher, composed with
  `ActionDispatcher`: a cached answer agrees with the row;
* the removal of a role with the count of its users, and the client's reconnection
  to the live channel.

## Modules

    Outbox <------------- OfflineSync          WorkflowRow <---- WorkflowExecutor
    (implemented by)       |       |             ^ (instance of)  (implements it)
                       SyncQueue  SyncServer     |
                                   | extends   WorkflowRuns
                               ActionDispatcher

    Sessions    RolesCache    CrudEntities    TenantScope    AuditTrail    LayoutCache
    Flow        Definitions   Migrations      Screens        Algo          Mind

    MCAccess    = RolesCache + Sessions
    MCServices  = WorkflowRuns + CrudEntities + AuditTrail + TenantScope + LayoutCache
    MCRuntime   = WorkflowExecutor + Flow + Migrations + Mind + Definitions
    MCEngines   = MCRuntime + Screens + Algo

An `MC...` module adds what TLC needs: symmetry sets and definitions of workflows,
flows, screens and formulas. `MCAccess`, `MCServices`, `MCRuntime` and `MCEngines` put modules into
one run that share no state: the variable `part`, chosen at the start, says whose steps are
taken, and the others stay as they began. The run is then the union of the runs
of the parts. What the services assume of their constants is named in `MCServices`, one
assumption for each, where they get their values; `Services_proofs` proves its theorems
from those and no other. `MCAccess` is laid out in the same way, around `RolesCache`.
`MCWorkflowRuns` is a machine whose final state has a way out, for the run that shows it
being taken. `MCRuntime` is the part of `MCEngines` which `Runtime_proofs` is
about: its assumptions are there, and the properties that `MCEngines` takes over.
`MCEngines` adds the modules whose recursive operators keep the prover out, and the sets
that TLC draws from. It instantiates `Flow`, `Screens` and `Algo` a second time with
empty inputs, to use their constructors for writing the inputs down.

`Filters` is `Array.prototype.filter`, which executor, flow engine and generator use
(entry steps, successors, system messages): the elements of a sequence that are in a set,
in their order, as an expression that the provers can take apart.

Operators whose comment begins with "Mutant" are defined before the operator they
vary and are used by nothing: each is a plausible mistake in the code, and TLC
finds a property violated when it takes the operator's place.

### ActionDispatcher

A call of `dispatch()` is a small program; `pc[c]` names its next round trip to
the database.

| State or action | Code |
|---|---|
| `row[m]` | `sync_mutations.status`, by `client_mutation_id` (unique) |
| `applied[m]` | how many times a handler committed the effect of `m` |
| `Dispatch`, `RejectUnknown` | `dispatch` up to `checkAndReserve`: validation and resolution, which change nothing |
| `FindExisting`, `InsertPending` | `checkAndReserve`: the SELECT with the branch on its result, and the INSERT |
| `HandlerCommits`, `HandlerThrows` | `handler.execute`, `WorkflowExecutor.run`, `WorkflowFsm.transition` |
| `MarkSuccess`, `MarkSuccessFails`, `MarkError`, `MarkErrorFails` | the tail of the `try` and the `catch` |
| `Crash` | the process ends: calls are gone, rows stay |

Workflow actions and standard ones differ in what a replay answers (`Cached`) and
in what a failing `markError` leads to. The handler's effect is one step here;
`CrudEntities`, `WorkflowExecutor` and `WorkflowRuns` open it.

### SyncQueue

`status`, `retries`, `retryAt`, `createdAt` are the columns of the table; `phase`,
`active`, `batch`, `results`, `fault`, `unmarked` are the worker's fields and the
locals of `_drain`. The phases are the awaits of the loop: `fetch` (query), `claim`
(mark `sending`), `post` (request), `settle` (loop over results), `fail` (loop of
the catch block), `cooldown` (the pause between batches). `Trigger` is the guard
of `triggerDrain`: an event during a drain is dropped, as in the code. `Start`
includes `recoverInFlight`. `now` is the second in which a row is created: drift
stores seconds, so rows of one second are ordered by id. `faults` is chosen once
per behaviour: a statement of the local database may throw (`localStore`), a
response may lack results (`malformed`).

### SyncServer, OfflineSync, Outbox

`SyncServer` extends `ActionDispatcher` with the controller's loop over the body;
the call of a request is the dispatch it awaits. `ItemOf` is what the controller
pushes for what the dispatcher returned or threw.

`OfflineSync` joins one phone to the server. `transit[r]` is a request on its way,
`awaited` the one the phone waits for. A request that the phone gave up on is still
delivered, processed and answered; its answer reaches nobody. Requests overtake
each other and may be lost; HTTP does not duplicate them, the phone's retries do.
`refusals` is chosen once per behaviour: `"token"` (an access token that has
expired, 401) or `"header"` (the requests lack `X-Client-Mutation-Id` and every one
is answered 400, which is what the client of this commit meets).

`Outbox` has two variables, the fate of each action as the phone knows it and the
set of actions that took effect. The mapping: fate is the row's status (`pending`,
`sending` and `error` are all "waiting"), the effects are the mutations with
`applied > 0`.

### WorkflowExecutor, WorkflowRow, WorkflowRuns

`WorkflowExecutor` is one run: `ready`, `inDegree`, `completed`, `skipped`,
`stepError`, `history` are the locals of `executeDag`. The steps of a batch act
concurrently (`work[i]`); after `allSettled` their results are handled in the order
of the batch (`cursor`); `skipBranch` is a loop of its own (`SkipOne`). The
condition of a step, and whether a step fails, are free choices; so is the
definition, out of the constant `Workflows`. Definitions satisfy what `validateDAG`
establishes (`WorkflowDef`); that there is no cycle is said of sets, every set of steps
has one that depends on none of it. That `validateDAG` does establish this is the theorem
`AcceptedCanRun`. It does not look at the targets of a branch: that they are steps is
what the model adds. (For a target that is none the code would write a record `skipped`
of a step that does not exist, and go on.) The entry steps and
`Successors` keep the order of the array (`Among`). A step's output is left out: no control depends on it except through
conditions.

`WorkflowRow` says what a run may do to its row. `WorkflowRuns` takes its actions
for the run and adds what happens around it: starts that race (check, then INSERT
under `UNIQUE (entity_id, workflow_id)`), and transitions that read the row under
`FOR UPDATE`, decide and commit. The run's UPDATE waits for the row lock but does
not look at what the row says. The machine is any set of transitions: a state that is
final may have some too, as for the validator and for `transition()` it may. (That
XState's pure `transition` takes one out of a final state is modelled from its use;
the library is not in the repository.)

### CrudEntities

One row of `entities`. A handler reads it (`Find`: existence, the `updated_at`
check, the copy with the payload merged); `save` reads it again and compares
(`Compare`), and then writes the columns that differ (`Write`), which is how an
overlapping update of another field is lost: `data` is one column. `updated_at` is
the database's time at the start of the writing transaction. The value of a field
is the call that wrote it, so `log`, the history of commits, tells whose value is
where.

### RolesCache

`db`, `l2`, `l1[n]` are the row and its copies; `wire[n]` counts messages on their
way to node `n`. A lookup and a patch are small programs like a dispatch. A copy has
the ticks it has left to live; `age[v]` says for how long list `v` has not been the
row's. Every Redis command may fail, an UPDATE may succeed and look like a failure,
a node may restart. A patch is a call of `patchRoles`; what keeps the route from calling
it is under Divergences.

### Sessions

One user. A login or a rotation issues a refresh token and an access token together,
and one number stands for both; `parent` says what it was exchanged for.

| State or action | Code |
|---|---|
| `row[t]`, `born[t]` | the row of `refresh_tokens` (`revoked_at`) and its time |
| `until[t]` | the entry of the access token's `jti` in Redis |
| `Login`, `Refresh`, `Guarded` | the routes, up to their first await |
| `Exists`, `Admit` | the guard's lookup, which lets the call pass when Redis fails, and what follows |
| `FindToken` | the SELECT by hash with its three outcomes: unknown or expired, revoked, live |
| `Purge` | reuse: one UPDATE of every live row of the user |
| `Revoke`, `CheckAccount`, `SaveToken` | the UPDATE by id, the reads of user, tenant and roles, the new row |
| `RevokeAtLogout`, `Blacklist` | the row, and then the SET with what is left of the token's life |
| `Tick`, `Crash` | time; the calls end and rows and Redis stay |

Four history variables record what the properties except: `overlapped` (tokens found
live by two rotations), `purged`, `escaping` and `spared` (rotations past their check
when a reuse was detected, and what they went on to issue), `loggedOut`.

### TenantScope

Row-level security compares `tenant_id` with a setting of the session, so that the
state that counts is `setting[c]` of each connection of the pool. `Use`,
`SelectTenant` and `StoreTenant` are the middleware with its cache; `UsePublic` is
a route or a timer without a tenant. `SetSessionGuc` takes any free connection, sets
the tenant on it and gives it back. What a repository does needs no action of its own: `MayRunOn`
gives the connections its statement may run on, any that is free. `Connect`, `Stamp`,
`EndStatements` and `ResetAndRelease` are `withConnection` of
`common/database/tenant-aware-query-runner.ts`. `Toggle` is a change of
`tenants.is_active`, which reaches no cache.

### AuditTrail

`Log` inserts a critical entry at once (`flying` holds the INSERTs under way) and puts
any other into `buffer`, which `Put` flushes when it is full; `Flush` is the timer and
the shutdown. `Insert` ends one INSERT, which fails as a whole if one of its entries
lacks a column that may not be null. `DeleteOld` with `ClampRetention` deletes old rows, and
`LogPurge` logs that it did, after the await (`purging` is the event in between). `BeginReading` and `ReadPage` are `list` with its cursor, called again and
again while rows arrive and are purged (the route refuses such calls, see Divergences: this is
about the handler); `Newest` is its ORDER BY, by time and then id.

### LayoutCache

`GetLayout`, `GetFromRedis`, `LoadLayout`, `StoreLayout` are the awaits of
`BduiService.getLayout` through both tiers. `AnnounceUpdate` is a message on the
channel from outside; `OnMessage` is what both subscribers of a node do with one
(memory is purged, an invalidation begins), `DeleteKeys` and `Publish` are the rest of
the invalidation. `Publish` reaches any subset of the nodes, the sender included.

### Flow

`Adjacency` is what the compiler makes of a node. The runtime's recursion is turned
inside out: `agenda` holds the calls that are pending, innermost first, and
`scopes` the sets of visited steps, one for the flow and one for every iteration of
a loop. What is left of a loop is one entry of the agenda, with the index of the item
that is next; the steps of an iteration are put in front of it. There is an action for each
kind of step, `Loop`, `NextItem` and `Leave` for loops, an attempt of a webhook per `Webhook`, and `ReadDue` and `ResumeOne` for the
cron job.

### Mind

`Generate`, `Accept`, `Retry`, `GiveUp` and `NoModel` are `generate` cut where it
awaits the model, so that two calls on one surface take turns in its conversation.
`Pruned` and `WindowOf` are `prune` and `buildWindow` on the sizes of messages.
`store` is what the service keeps and `said` what was ever said: `NoHoles` compares
them with each prompt. `Shown` is what the three callers (relay, screens, flow
controller) make of an outcome. `Errors` is the validation, with its two engines.

### Definitions, Screens, Algo, Migrations

Here the code is a function, and a behaviour applies it to one input.

* `Definitions`: `ValidateDAG` with `Kahn` and `ValidateFsm`. The loops of the sort and of
  the search are functions of the number of turns (`Sorting`, `Searching`): `Leave` is what a
  turn of the sort does to queue, degrees and result, and an edge is the place where it is
  written, since a dependency may be written twice. `Starts`, the check of the
  catalogue when the application boots, and `ScriptPasses`, its copy in
  `src/scripts/validate-catalogue.ts`; `RunSchemaScript`, with its counters and its
  exit code. What a JSON schema accepts is part of the input; `compiles` says that
  `addSchema` takes it, which compiles nothing. An error of the compilation comes from
  `getSchema` for each example (`src/scripts/validate-schemas.mjs:144`, `:193`), which then
  fares otherwise than expected; for a schema without examples it never shows.
* `Screens`: `Own` is the row of `screen_configs` or else the file, which may be no JSON
  (`Garbage`); `ResolveRefs` over a tree of files, `ToComponentConfig` and `FromRoot` for
  generated screens, `Normalize`, and `Apply`, the filter for roles, which fails on a null
  and on children that are no list (`FilterFails`). JSON is a tagged value.
* `Algo`: `Eval` and the primitives. A number is a fraction, a date the number of its day.
  The date primitives parse and print in UTC and step with `getDay` and `setDate`, which
  are local (`engines/algo/primitives.ts:170`, `:229`): day numbers are exact in a process
  that runs in UTC, which the image of the Dockerfile does. West of it `days_ouvres` takes
  other days for weekends, and where clocks change `add_days` may be a day off. `eq`, `ne`,
  `filter` and `unique` compare lists and rows by identity in the code and by content
  here; no formula that is checked compares any.
* `Migrations`: what each `up` and `down` does to tables, row-level security, policies,
  the role and its privileges; `before` remembers what each one met.

`Screens` and `Algo` recurse over their inputs with RECURSIVE operators, since those
inputs are trees.

## Runs

| Run | Instance | States | Shows |
|---|---|---|---|
| `dispatcher` | 3 calls, 2 mutations (one of a workflow), 4 entries into `dispatch()` | 27 000 | a success has an effect behind it and is kept; one effect unless a failure was recorded |
| `queue` | 2 mutations, batch of 1, 2 tries, 2 seconds, 2 kills, with and without faults | 116 000 | nothing stranded, older first, nothing answered is sent again, all settled |
| `offline` | 2 mutations in a batch, one a workflow's, 2 requests, 3 dispatches, 2 kinds of refusal | 1 749 000 | implements `Outbox`; a first attempt conflicts for a reason |
| `offline_live` | 1 mutation, 2 requests, 1 kill, 1 crash of the server | 388 000 | implements `Outbox` through crashes; every mutation is answered or given up |
| `access` | roles: 2 nodes, 1 lookup at a time, 2 patches, lives of 1 and 2 ticks; sessions: 2 calls, 3 pairs of tokens, 2 logins, 1 tick, lives of 1 tick with 1 of tolerance | 5 858 000 | lists current when quiet, stale for two lives at most, patches add up; a token is exchanged once and reuse ends the family, overlapping rotations excepted; a logged-out token is refused for its life |
| `services` | runs of a workflow and entities with 3 calls; audit log with 5 entries; 2 requests of 2 tenants on 1 connection; layouts on 2 nodes | 2 669 000 | one run, its history a path, every move legal; updates lost to overlaps only; audit kept and read whole; tenants apart and kept out; copies of layouts die |
| `engines` | 518 workflows, flows of 3 nodes, all orders of migrations, some 8000 definitions, 7400 screens, 7500 formulas, 2 conversations | 295 000 | every property of the engines and of definitions; `WorkflowRow` implemented; all of it ends |
| `executor_approval` | the definitions with an approval | violation | an awaited approval is overwritten by `running` |
| `offline_duplicate` | 1 mutation, 3 tries | violation | an effect happens twice |
| `scope_pool` | 2 tenants, 2 requests, 2 connections | violation | a repository runs under another request's tenant |
| `layout_storm` | 1 node, 1 update | violation | an invalidation never ends |
| `final_exit` | a final state with a transition, 3 calls | violation | a workflow that has ended is moved on |

What each property of `services` and `engines` is about:

| Property | Module | States |
|---|---|---|
| `TypesOK` | both | each part keeps its variables in their types |
| `OneRun`, `HistoryIsPath` | `WorkflowRuns` | one run for an entity and a workflow; its history a path of transitions of the machine that ends at its state, and that begins again where the run overwrites it |
| `OnlyLegalMoves` | `WorkflowRuns` | who is told "moved" moved the row along a transition for its event from where it was at that moment; nothing else moves a row whose run is over |
| `UpdatesAreKept` | `CrudEntities` | handlers that do not overlap lose nothing; those that do, lose only to each other; who has seen the latest commit meets no conflict |
| `CheckedSawLatest` | `CrudEntities` | an update that passed the check had the latest state before it, commits of one millisecond excepted |
| `AuditIsKept` | `AuditTrail` | an entry that was logged waits, is being inserted, is a row, was purged after its retention, or went down with a statement or a process; a critical one never waits |
| `PagesComplete` | `AuditTrail` | who reads to the last page has seen every row that was there throughout, once, newest first |
| `RunnerSeesItsTenant` | `TenantScope` | between its SET and its RESET the query runner works under its request's tenant |
| `DeactivationBites` | `TenantScope` | a tenant that is switched off is let in only by a cache entry made before, or by a lookup that was under way |
| `CopiesDie` | `LayoutCache` | no copy in memory outlives its load by more than both lives (300 s and 60 s; STORY-018:338 gives 5 minutes as the most when a message is lost) |
| `StepsAreAccounted` | `WorkflowExecutor` | steps start after what they depend on, are recorded once, are not forgotten, are skipped for a reason; table and answer agree |
| `NoStartAfterFailure`, `ImplementsRow` | `WorkflowExecutor` | no batch begins after a failure; the executor does to its row only what `WorkflowRow` allows |
| `ResultsAreExplained` | `Flow` | what ran had a reason, once per pass; what had a reason ran |
| `ConfinedRole`, `RevertRestores` | `Migrations` | no table of a tenant is open to the application's role without its policy, the audit log is only added to; a revert restores the schema |
| `VerdictsAreRight` | `Definitions` | both validators say exactly what is the case, in terms of closed sets of steps and states |
| `ScriptsAreRight` | `Definitions` | the script lets pass what the application starts with; exit code 0 means that everything was right |
| `LayoutsAreRight` | `Screens` | as many components as there are places whose ancestors are all visible; a generated component under the root is on the screen; a null, or children that are no list, cost the whole layout exactly when everything above them is visible |
| `FormulasMean` | `Algo` | each primitive obeys a law that does not compute it; what `validate` accepts has that value under any variables |
| `NoHoles` | `Mind` | a prompt is a contiguous piece of what was said, in order |
| `OnlyValidIsShown` | `Mind` | what is shown comes of a valid answer or is the caller's own degraded form |
| `Ends` | all | a run is answered, a flow ends, who asked the generator hears from it |

**Why the bounds are enough.** A mutation needs two concurrent calls to race for its
row and a third that comes back after one of them failed; two mutations show that
rows do not disturb each other, and one of the two is a workflow's because the two
kinds answer differently. The queue needs two rows for an order and a batch of one
for a limit that bites; two kills put one into the recovery from another; two tries
reach both sides of `retryCount + 1 < maxRetries`. Two requests at once are the
retry and the attempt it meets. In the executor a batch of two with three ready
steps leaves one in `ready`, and three steps are the smallest DAG with a join; the
joins of branches, which need more, are given by name. Two nodes are the one that
changes something and the other. Three handlers of one row are the one that created it and
two that meet. Three pairs of tokens are a login, its rotation, and either a second
rotation of the first (a reuse) or another login; a tick with a tolerance takes an
access token past its life and into the seconds added to it. One connection in
`services` is the pool at its limit, where every request meets what the last one
left; a TTL of 2 in a clock of 2 gives a hit the time to renew an entry if it could;
`scope_pool` has two connections, which is what lets a query land on the wrong one.
Five audit entries are two ordinary ones that fill the buffer of 2, a critical one,
one without a user and the purge's own; pages of one row make every row a border,
and retentions of -1, 0 and 3 days are no number, too small and too large for the
clamp. Flows of three nodes hold every kind of node next to every other, with
names of steps that do not exist, cycles, and delays and webhooks in loops. Layouts
are nested three deep with files that refer to files; the recursion's stack is cut at
two references. The generator's numbers are small but keep their order: the prompt
is larger than its nominal size, a large message alone overflows the window.

Each bound on a counter (`MaxKills`, `MaxCrashes`, `MaxDispatches`, `MaxCalls`,
`MaxTime`, `MaxSeconds`, `MaxClock`, `MaxMessages`, `MaxLogins`, `MaxTokens`) is a guard
that names it. `RolesCache.Tick` has two more in its guard: no call lasts for more than
one tick (a minute), and no message is on its way at a tick. Without them nothing could
be said of how old a copy is: the code has no other limit on either. `Flows` holds no
loop whose body leads back to it: such a flow does not end (see Divergences).

`CHECK_DEADLOCK FALSE` stands in the runs in which the system stops by itself when
its bound is used up, when all calls have ended, or when the one answer is there.

**The violations**

* `offline_duplicate`: the handler commits; `markSuccess` fails; the row is set to
  `error`, and the phone's retry is let through to the handler.
* `executor_approval`: an action and an approval share a batch. The approval writes
  `awaiting_approval`; the loop over the results then writes `running` for the
  action, and `run()` answers `awaiting_approval`. The row says `running`, which
  keeps every later start out, and the state machine does not know that state.
* `scope_pool`: the middleware of each of two requests sets its tenant on a connection
  of the pool and gives the connection back. Nothing ties the repositories of a request to the
  connection that was set, nor resets it: they run under the tenant that was set last
  on the one they get.
* `final_exit`: a definition that `FsmValidator` accepts has `on` in a state of type
  `final`, and `FsmBuilder` copies both. The workflow ends; the next request asks
  `getNextTransitions` for what that state offers, and is moved on. STORY-031:119
  (AC-07) and `src/catalog/schemas/workflow.schema.json:53` say that there is no
  transition out of a final state; it is left to whoever writes the definition.
* `layout_storm`: a node hears of an update on `bdui:invalidate`; its listener calls
  `invalidate`, which ends by publishing on `bdui:invalidate`, which the node hears.

## Fairness

* `SyncQueue`: weak fairness of the drain's own steps (the event loop runs), of the
  end of a request (the client has timeouts), of the start after a kill, of
  `resume`, of the end of a backoff. `MobileSpec` adds strong fairness of a
  connectivity event while the worker is idle and active: nothing in the code wakes
  it up at `next_retry_at`, so progress does rest on such events. `EventuallySettled`
  is about behaviours in which the app is not paused for ever over and over
  (`Foreground`), and excepts the case in which rows that were given up fill the
  batch (see Divergences).
* `OfflineSync`: the same of the phone, weak fairness of the server's steps and of a
  request's departure from the network; every request may be lost.
* `WorkflowExecutor`: weak fairness of `Run`, which assumes that the call of each step
  returns (the number of its retries is bounded). Nothing is assumed of the end of
  the process.
* `Flow`: weak fairness of `Execute`, the same assumption; a webhook has a timeout.
  Nothing is assumed of the cron job.
* `Mind`: weak fairness of `Hear`: a call of a model returns or fails.
* `LayoutCache!AfterUpdate`, in `layout_storm` only: what a node has begun it goes on
  with. The counterexample takes every step that fairness asks for.
* Everything else is safety and needs none.

## Proofs

Eight modules hold theorems; `tlapm` proves every obligation of them. TLC shows the
same properties on the small instances above; the theorems hold for every value of
the constants that satisfies the module's assumption.

| Module | Assumes |
|---|---|
| `ActionDispatcher_proofs` | `DispatcherAssumption`: the bound is a number, the workflow's mutations are mutations, `NoMutation` is none |
| `SyncQueue_proofs` | `QueueAssumption`: the mutations are a finite set of numbers, the limits are numbers |
| `OfflineSync_proofs` | `OfflineAssumption`: what the two above assume, and that `NoCall` is none |
| `Access_proofs` | `RolesAssumption`: both lives are at least one tick, `None` is no node, a call is a lookup or a patch |
| | `SessionsAssumption`: the bounds and the access token's life are numbers |
| `Sessions_proofs` | `Parameters`: the same |
| `Runtime_proofs` | `ExecutorAssumption`: a definition has no cycle, and names steps of its own; a batch has room for a step, a step is tried once at least |
| | `FlowsAssumption`: flows are sequences of nodes, values are integers, a collection holds arrays of integers |
| | `TalksAssumption`: sizes, window and number of retries are numbers, `Nothing` is not an answer |
| | `SubjectsAssumption`: what is written down is finite: steps and dependencies are sequences, states, schemas and examples are finitely many |
| `CrudEntities_proofs` | `Parameters`: there is a field; the clock's bound is a number |
| `Services_proofs` | `MachineAssumption`: the machine is deterministic, as a definition is whose events are the keys of an object; `"none"` is not a state. Nothing is assumed of final states |
| | `EntitiesAssumption`: `Parameters`, of the run's constants |
| | `AuditAssumption`: entries are a finite set of numbers, the critical ones are none of the purge's, the buffer is flushed before it is so long that it drops entries; a page has room for a row |
| | `ScopeAssumption`: `None` is no tenant and `Nobody` no request, an entry lives for a tick at least |
| | `LayoutAssumption`: lives and bounds are numbers |

Except for the queue's mutations, the audit's entries and what is written in one file (a
flow, a workflow, a machine, a suite of schemas) no set is assumed finite. A bound such as `MaxDispatches` may have any value, so
that a theorem holds of behaviours of any length. `Parameters` is a hypothesis of the
theorems of `CrudEntities_proofs`, and of those of `Sessions_proofs`; `Services_proofs` and
`Access_proofs` instantiate these modules and discharge it from `EntitiesAssumption` and
`SessionsAssumption`.

`Services_proofs` proves each service on its own, and then that a step of the run is a
step or a stutter of each of them (`EachStep`), whatever `part` says. Each property of the
run follows from what is proved of its service; `TypesOK` from all of them. `Access_proofs`
does the same for the sessions, after its proofs about the role lists, whose variables are
those of the run.

`Runtime_proofs` is laid out in the same way, with `RuntimeSpec`. A step of the run
`engines` is one of `RuntimeSpec` or leaves its variables alone (`EnginesNext`, where `RunsOn` is
`RuntimeNext`), so that what is proved of `RuntimeSpec` is what the run checks, of all
constants. Nothing is assumed of flows besides their shape: their steps may name steps that do not
exist, lead back to themselves, and carry one identifier twice. That a flow ends is neither
assumed nor proved. Nor is anything assumed of the workflows and machines that are
validated, besides that they are finite.

**Dispatcher.** `SuccessIsApplied` speaks of rows and answers and is not inductive:
from a state in which a call is about to write `success` with nothing applied,
`MarkSuccess` breaks it. `EffectPrecedesRecord` rules that state out (a call at
`markSuccess` has committed) and says that only a call that has ended holds a
success as its answer. `AppliedOnceUnlessErred` is not inductive because two calls at
the handler would both commit. `RowIsLock` is why that does not happen: while a
mutation has never been recorded as failed, its row is the lock of the one call that
works on it. If two calls are past `InsertPending`, they are the same call; before
that there is no row and nothing is applied; at the handler nothing is applied yet.
`SuccessKept`, an action property, follows from the same invariant: the call that
would overwrite a success would have to hold a lock that has been released.

**Runs of a workflow.** `OneRun` needs `RunMadeRow`: at most one request began a run, and
once one has, the row exists, so that no later INSERT succeeds. `HistoryIsPath` is stated of
what is committed; the committing step appends a pair it computed earlier, from what
it read. `SeenIsCurrent` says that this is still so: whoever is about to commit holds
the row lock and what it read is the current state. `RowExists` says that a
transition past its SELECT has a row under it. `PathInv` is the conjunction of the
three, and inductive. `MovesAreLegal` follows from it: what a committing request decides
on is what it read, and that is the state the row is in when the request commits. (That a
final state is never left is not a theorem: see the run `final_exit`.)

**Role lists.** `StaleIsBounded` looks at memory alone, and a list in memory came from
Redis, from a lookup under way, or from the row. `AgesFit` says of each of these how
old a list can be given the life left to its copy: age + life left never exceeds the
lives of the tiers it has been through, and a lookup adds the tick it may take. The
bound in `StaleIsBounded` is what remains when the life left is at its least.
`CurrentWhenQuiet` speaks of quiet states only, and quiet states are reached from
others: `StaleIsDoomed` says that in any state a copy that is out of date has
somebody on the way to remove it (a patch that has not yet deleted it, or a message
on the wire to its node), unless something has happened that the property excepts.
When it is quiet nobody is on the way, so no copy is out of date. `PatchesAddUp` is
about patches that take turns (`TakingTurns`): the one under way read the list that is
still the row's, and every list there ever was is contained in it.

**Sessions.** `RotationIsSafe` excepts tokens that two rotations found live. The other
case needs an account of who may still exchange a token: `RowIsLock` says that if a
token was not found live twice then at most one call is past the check, that the row is revoked before
the pair is made, and that once there is a pair nobody is past the check.
For reuse, `NoneEscapesUnseen` says that whoever exchanges a token of a family that
was purged was past its check at that moment and is in `escaping`, so that what it
issues is in `spared`. `LoggedOutIsRefused` follows from `EntryOutlivesToken`: the
entry in Redis stays for as long as the token has left, so that only the tolerance of
the guard lies beyond it.

**Executor.** A run goes through five invariants, each of which rests on those before it.
`Orderly` says where `run()` is: which results of the batch were handled, that those
were good, that an entry of `work` and its record in the history speak of one step,
that an approval at the head of the batch is still in the row. No batch begins after a
failure (`NoStartAfterFailure`) because of it, and each step maps to one of `WorkflowRow`, or
to none. `Explained` adds what is needed for why steps are skipped and what table and
answer say at the end. `Accounted` is about the counters. `inDegree` is at most the number of steps
that a step still waits for (`Counted`), and a step that waits for none is in `ready` or in the
batch, so that when `ready` has run out everything is done: otherwise the set of steps
that are not done would have one that depends on none of it, which is where the
absence of cycles comes in (`NoneIsLeft`). `Hanging` is the other direction: `inDegree` is
at least that number, so that no step starts early or twice. It holds only of definitions whose branches
hang on their conditions (`BranchesHang`), as the property says: for others the code
lowers a counter once for the skipped branch and once more for the edge. The proof
goes by kinds of step (`StepsOfTheDag`): a batch is taken, a result
is handled, a step is closed and its successors told, and everything else is quiet.

**Flow engine.** `ResultsAreExplained` speaks of results, and of the end of a flow; both are made by
what is pending before. `FlowInv` says what holds between the steps of the recursion. `Framed` is its
shape: an entry of the agenda belongs to a scope that was opened and names a step of the
flow, and what is left of a loop is of a loop that was visited in its scope. `FlowKept` is about the data.
`Reasons` is the argument, in both directions. What is pending in a scope is due there, because
the scope begins with it or a result of the scope leads to it (`AgendaIsDue`), so that each result has a
reason when it is written (`AllExplained`); what has a result was visited, so that none is
written twice (`VisitedIsKnown`). What is due has a result, was executed inside a loop, or is pending
(`DueIsPending`), and a loop that has begun is pending once (`OneLoop`) until it has its
result. When the agenda has run out nothing is pending, and what is due has been
done. An action is one of five kinds of step (one that changes nothing here, one that is skipped, one that is
executed and leads on, a loop that is begun, an item that is begun: `FlowSteps`), and the invariant is
proved for each kind instead of each action. That the compiled lists lead where the flow's own
words say is part of that lemma; the mutant `AdjacencySwapped` is what it rules out.

**Generator.** `NoHoles` speaks of a prompt that was sent. `Tailed` says what the service keeps
of a conversation: summaries, and then the end of what was ever said, in its order. `prune` keeps
that (its lemmas on `Among` say that what is filtered out of such a sequence is its summaries),
and `Numbered` says that what was said is numbered as it was said. `Stretch` says that `buildWindow`,
which takes messages as long as they fit, makes the system's prompt and an unbroken stretch
of what was said, which stays one while other calls add to it. `OnlyValidIsShown` is about the records of calls: of a call that
has ended on a text that was refused, the relay shows its degraded form and the others nothing
(`RefusedIsHidden`), whatever the attempt was. A step of the generator is one of a call, which adds nothing,
one or two messages to its surface (`MindStep`). Calls of one surface meet
in `store` and `said` only, so that both parts of the invariant hold however they interleave.

**Migrations.** Migrations are reverted in the reverse order of their application, so that the
schema could be thought to be a function of the version; it is not, because migration 4
forces row-level security on tables of migration 1 and its `down` leaves it forced.
`MigrationsInv` says that the schema is that of its version in everything else
(`IsVersion`), that from version 5 on the tables of tenants are forced, and that `before`
holds, for each migration that was applied, a schema of the version it met.
`RoleIsConfined` follows by looking at the versions; `RevertsRestore` because a revert
leads to the version that `before` remembers, and two schemas of one version
differ in what is forced only (`OneVersion`).

**Validators.** `VerdictsAreRight` compares two loops with what their results mean, in terms of
sets that the loops do not compute; `DefinitionsInv` ties the verdict that is there to the input that
is, and the rest is about operators. Three inductions go over the number of turns. The
library's theorems on induction take a predicate as parameter and are of no use here;
`Induction` and `Recursion` say the same of sets of numbers and of functions that follow
their last value, and are proved from the well-founded order of the numbers.
Of Kahn's sort, `InvOfSort` says that each step is waiting for as many edges as its degree says, that
those of degree 0 are queued or sorted, once, and that what is sorted comes after what it
depends on. A turn that finds a queue makes the sorted list longer, so that after as many turns as
there are steps the queue is empty, and then what is not sorted is the largest set of steps each
of which depends on one of it: a cycle, or what hangs on one (`Stuck`). Of the search through
a machine's states: each turn finds a state or is the last to find any, so that as many
turns as states suffice; what is found is in every set that contains the initial state
and what it leads to, and is such a set itself. `AcceptedCanRun` links the validator with the executor:
the definition that is made of accepted steps satisfies `WorkflowDef`, on which every
theorem about the executor rests.
For `ScriptsMeanIt` the exit code is taken apart into counters, and a counter of failures is 0
if and only if the set of what failed is empty, which needs that it is finite.

**Queue.** `AnsweredIsFinal` looks at one step; `Tidy` (what the batch, the results and
the phase have to do with each other) and `Answers` say that whatever a step writes
belongs to a row in flight, and no row in flight is an answered one. The first half of
`RowsGoInOrder` is that every row `sending` belongs to work that goes on (`WorkIsInFlight`,
`InFlightIsHeld`). The second is `BatchIsOldest`: what is in the batch has nothing
eligible and older outside of it. That the query establishes it is the lemma
`FetchTakesOldest`, by cardinality: the query takes a row if fewer than `BatchLimit` rows come
before it, and what comes before an older row comes before a younger one too.

**Offline synchronisation.** The steps of the phone are steps of `SyncQueue` (`PhoneIsAQueue`),
so that `SyncQueue_proofs` is used as it stands, in the variables of `OfflineSync`. What the phone
trusts is the answer to its own request: `RequestIsWhole` follows a body through network,
controller and back, and says that the answers and what is still to do make up the
batch. `EffectsFirst` says of each place in which a success is recorded or reported (the row,
a call, the answers of a request, the phone's results) that the effect is there. With
`OnlyWhatWasEnqueued` every step maps to one of `Outbox` or to none (`PromiseKept`).
`ConflictIsGenuine` is about mutations that were sent once. Whether one was is seen in
the phone's columns (`PhoneRemembers`), and as long as it was, one request at most carries it
and its row is absent until that request's call reserves it (`SentOnce`), so that the
dispatcher has no older row to take for a conflict.

**Entities.** `LostOnlyToOverlap` compares what a commit overwrote with what it had
seen. `LogIsRow` ties the row to the last commit in `log`; `CopyIsOfRow` says that a
handler's copy is the row it found, with its payload; `KeptOrOverlapped` that in each
row of the log the value of a field is there from the commit before, or from a call
that had seen that one, or from a call it overlapped. `ConflictHasCause` needs only
that a handler which answered is done with the row (`DoneIsDone`). What is said of handlers
that do not meet (`apart`) rests on `Alone`: there is one at work, it came after every
commit, and its copy differs from the row in the column that it changes. `Timed` gives the
times of commits their order, and `RowComesFirst` says that only the first request creates.
That the history then is serial goes by the last commit that wrote a field.

**Tenants.** `OneEach` says that a request between `Connect` and `ResetAndRelease` holds
one connection and no other request holds that one, which makes `Mine` well defined;
`StampHolds` that the setting of that connection is the request's tenant from `Stamp`
on: the middleware sets only connections that are free. `DeactivationBites` is `EntriesDie`: an entry that
says active about a tenant that is not, dies at `grace` at the latest, and a lookup
that still carries the old answer raises `grace` when it stores it.

**Audit.** `InOnePlace` says where an entry is: at one place of the buffer, in one statement, or
in the table, and that one which is nowhere was lost to a failure or is older than any
retention. The buffer is flushed at `MaxSize`, so that it never reaches `DropThreshold`.
`PagesComplete` is `PagesInv`: every row of the start that is still there has been shown or
comes after the cursor. A row that is inserted meanwhile changes nothing in the order of those
(`OrderStays`), and a page is the longest head of what is unread (`PageRead`), which rests on
a lemma on sequences that rank a finite set (`Ranked`).

**Layouts.** `CopiesDie` is about memory, and a copy in memory is taken from Redis at any
moment of its life there. `ShortLived` says of both tiers how long a copy lives after
its load: for a life in Redis, and for the two together in memory.

## What is only model-checked

* Liveness (`EventuallySettled`, `Settles`, `Ends`): fairness and ENABLED are out of the
  prover's reach.
* `LayoutsAreRight`, `FormulasMean`: `Screens` and `Algo` recurse over trees (components,
  files that refer to files, formulas) with recursive operators, and the prover cannot work
  in a module that reaches one; what is computed for every tree is an induction over
  data, for which the theorems of the library cannot be used. They are checked over the bounded inputs
  above against definitions that do not follow the code.

## Divergences

Five disagreements between the code and what the stories or comments say of it have
a run in which TLC finds them (see Runs). The following were met while modelling and
have none, because the code shows them without a search or because it makes no promise
that a run could refute. Stories are quoted by line. The models do what the code does.

*Client*

* A permanent error leaves `next_retry_at` as it was
  (`flutter: core/vault/dao/sync_queue_dao.dart:151`), and the query for eligible rows
  takes any row of status `error` whose time has come (`:67`): a row that was given
  up after a first retry is sent again with every batch. STORY-034:104 (AC-16) wants
  no automatic retry of it. `EventuallySettled` excepts the case in which such rows
  fill the batch.
* A row enqueued between the drain's last query, which finds nothing, and the end of
  the drain is not sent: `triggerDrain` returns because `_isDraining` is still set
  (`flutter: core/sync/sync_queue_worker.dart:73`). It waits for another row or for a
  change of connectivity; STORY-034:85 (AC-06) drains until nothing is pending.
* The requests carry no `X-Client-Mutation-Id` (`flutter: core/sync/sync_api_client.dart:68`),
  on which the interceptor insists for this endpoint
  (`core/idempotency/idempotency.interceptor.ts:58`, registered for the whole
  application; STORY-036:272). Unless something on the way adds it, every batch is
  answered 400 and given up. `OfflineSync` has this as `refusals = "header"`.
* There is no timer at `next_retry_at` (STORY-034:103), no table of valid transitions
  (STORY-034:96), and no order between rows of one second or across a backoff
  (STORY-034:91). A 409 that means "in progress" is taken for a conflict, which
  is final (STORY-034:105).
* The conflict resolver is called by nobody (STORY-035:97). If it were: it sends the
  phone's clock as the base (`flutter: core/sync/conflict_resolver.dart:97`;
  STORY-035:264) and does not look at the response (`:115`; STORY-035:99). The client
  never sends `base_updated_at`, so that the server's check is not used by it.

*Actions, entities and workflows*

* The check of `updated_at` and the save are not atomic (STORY-035:29): two updates
  with the same base may both pass, and the first is lost. `LostOnlyToOverlap` is the
  exact extent of it.
* An update with a stale base is refused whatever it changes (STORY-035:116, AC-16);
  a delete has no base (STORY-035:92); an update that read the row before a delete
  puts it back to active.
* The bulk endpoint does not pass the conflict's data on (`sync/sync.controller.ts:90`).
* A replay answers without the entity (`engines/action/services/idempotency.service.ts:41`;
  STORY-028:123).
* A run's UPDATE replaces the column `history` instead of adding to it
  (STORY-031:159), and the start that loses the race fails with the database's error
  and not with a 409 (STORY-032:344).
* A step that fails beside an approval is hidden by the approval (STORY-030:138), and
  the targets of a branch need not depend on the condition (STORY-030:136).

*Sessions and role lists*

* The guard tolerates 30 seconds past the end of an access token
  (`core/auth/strategies/jwt.strategy.ts:19`), and the entry of a logged-out one dies at
  its end: for these seconds the token is let in again. STORY-018:349 gives the window
  as 0. `LoggedOutIsRefused` excepts them.
* Reuse revokes refresh tokens and leaves the access tokens of the family alone
  (STORY-018:364 has all of them blacklisted). The entry of a refresh token's hash in
  the blacklist is read by nobody.
* On the routes that read the audit log and patch the roles, `@UsePipes` puts the validation of
  the query or the body on the method (`core/audit/controllers/audit.controller.ts:50`,
  `tenants/tenants-roles.controller.ts:52`), and a pipe on a method is given every parameter,
  the slug in the path included: it is no object, so that the request is answered 400 before
  the handler is called. `PagesComplete` and the properties of the role lists are about the
  handlers, `list` and `patchRoles`.
* The UPDATE that revokes a token does not look at `revoked_at`
  (`core/auth/auth.service.ts:202`): two rotations that both found it live issue a pair
  each, and a reuse detected between them does not stop the second. A crash between the
  revocation and the new row leaves the client with a token that counts as reused.
* Any revoked token counts as reuse, one of an earlier login or of a logout too, and ends
  the later sessions of the user.
* A lookup that read the list before a patch stores it in Redis after the DEL
  (`core/security/services/roles.service.ts:79`): it is served for up to 300 s there and 60 s more
  in memory. STORY-018:340 gives 60 s as the most. `StaleIsBounded` has both lives.

*Tenant scope and the database*

* Login and refresh query tables with forced row-level security before a tenant is
  set: what they see depends on what the connection was left with. A query runner
  without a context stamps nothing and inherits the same.
* `TenantAwareQueryRunner.withConnection`, `RlsBypassService`, `VaultTransactionService`,
  `applyAbilityToQuery` and `TenantsService.invalidate` are called by nothing outside
  of tests. The models have the first and none of the others.
* The way back of migration 8 has a subquery in a USING clause (line 64), which
  PostgreSQL refuses: no database goes back below it. Had it worked, that of
  migration 4 would leave `users` and `refresh_tokens` forced; `RevertRestores`
  excepts what is forced.
* Migration 10 makes a table with a `tenant_id` and no policy, which
  `1700000000003-tenant-id-default.ts:18` asks of every table of a tenant.
  `ConfinedRole` excepts it.

*Audit log*

* The event of the purge is logged without a user (`core/audit/services/audit-purge.service.ts:115`),
  and the column is NOT NULL (`1700000000004-rls-policies.ts:112`): the INSERT fails,
  and with it the other entries of its batch. STORY-020:173 (AC-23) has it logged.
  A failed login to an unknown tenant has no tenant and is lost too.
* The buffer is flushed at 100 entries (`core/audit/services/audit-log.service.ts:92`)
  and never reaches the 10 000 at which it would drop the oldest (`:79`).

*Flow engine*

* The steps after a delay are not among its successors in a compiled flow
  (`engines/flow/flow-compiler.service.ts:126`), unlike what the catalogue describes
  (`flow_catalog.json:19`): they are entry steps of their own, run at once, and a
  resumed delay has nothing to execute. The same holds of notify and assign.
* In the pattern for conditions `>` comes before `>=` (`engines/flow/flow-runtime.service.ts:142`):
  `>= 5` is read as `>` with the value `= 5`, which never holds; likewise `<=`.
* An approval is logged and counts as given: `on_rejected` is never followed.
* A loop whose body leads back to it never ends, since each iteration begins with
  nothing visited. The compiler accepts it. A flow whose steps are all led to has no
  entry, does nothing and succeeds.
* When a loop ends it deletes its variable (`:267`), the data field of that name with it.

*Definitions*

* Neither the service nor the script checks the graph of a file of type workflow: both
  do so for the workflows inside of domains, modules and fusions. The boot logs that a
  file is refused and not the errors of its graph.
* `WF_UNREACHABLE` and the second `WF_NO_ENTRY_POINT`
  (`engines/workflow/validator/workflow-validator.service.ts:91`, `:121`) cannot occur: without
  a cycle every step is reached from one that depends on nothing. `cyclicSteps` has the steps
  behind a cycle too.
* The type of a file is inferred from its path at boot and from its directory in the
  script; `ScriptsAreRight` is about files for which both say the same.
* `component-config` is counted as passed without its version being looked at
  (`src/scripts/validate-schemas.mjs:88`).

*Screens, formulas, generation*

* A screen found in the old flat place keeps its `$ref`s
  (`bdui/services/catalogue-loader.service.ts:34`). A reference to nothing leaves null in a
  zone, which the filter dereferences, and children that are a single component, or one
  behind a reference, are no list, whose `filter` it calls
  (`bdui/filters/rbac-component-filter.ts:41`): the whole layout is an error. So it is when
  the flat file does not parse; one in the new place that does not is taken for no screen.
* A leaf inside a container of a generated screen is shown twice, in the container
  and in its zone. Components that hold each other give no screen.
* `MAX_DEPTH` counts the formulas looked at, not the nesting
  (`engines/algo/algo-engine.service.ts:54`). Both branches of an `if` are evaluated.
  `validate` refuses every formula that reads a variable it needs. Arguments
  that are optional in a schema are not optional in a tuple of this version of zod, so that
  `convertir_devise` never reads its table of rates, which would divide where it
  should multiply (`engines/algo/primitives.ts:269`).
* `buildWindow` drops messages from the end (`engines/mind/context-window.service.ts`), so that what
  no longer fits is what was just asked; the system prompt is about twice the size
  that `prune` reckons with. Summaries are kept as system messages, which
  `buildWindow` skips (`src/DESIGN.md:455` promises them to the model). A
  conversation is known by its surface alone, so that tenants share it, and none is ever cleared.
* The clients of the models are stubs that return a screen: the generation of a flow
  always uses up its retries. The relay's messages carry the surface that the model
  names, whatever was asked for.
* `ScalarioTypeChecker` and `ConfigMigrator` are called by nothing.

## What is not modelled

A step of a workflow that never answers: `WF(Run)` has each of them return. The
contents of payloads, results and messages. The database's isolation beyond single
statements, unique indexes, row locks and the setting of a session. Signatures and
hashes. Three components are modelled in part: of the role lists, the removal of a role with its
count of users is left out; of the audit log, the interceptor that logs a route, the
filters of a query and the hour of the purge; of the formulas, the primitives on
text, those that read the clock, and what binary floating point rounds away. And these
components are left out:

| Component | Main source | Why |
|---|---|---|
| HTTP idempotency cache | `core/idempotency/idempotency.interceptor.ts` | What it does for POST /sync and /actions without the header is in OfflineSync (the requests of the client carry none). What it adds for keyed requests, an answer that is kept for a day, lies above ActionDispatcher, whose promise does not depend on it. |
| Rate limiter | `core/cache/services/rate-limiter.service.ts` | Each call is one or two Redis commands that fail open; the only sequence is INCR and EXPIRE. |
| Live channel | `engines/live/scalario-live.gateway.ts` | A socket per client, rooms, a map of connections and a client that reconnects. Events carry no number and are not kept: nothing is promised of their delivery. |
| Tenants and provisioning | `tenants/tenants.service.ts` | Check-then-insert guarded by unique indexes, and one transaction. The cache of the active flag is in TenantScope, the list of roles in tenants.config in RolesCache. |
| Vault transactions and soft delete | `engines/vault/transaction.service.ts` | A list of statements in one transaction; its atomicity is the database's. |
| Module and data dispatchers | `engines/action/services/module-resolver.service.ts` | Reads only: catalogue files, one cache of a minute, queries. |
| Action handlers that call out | `engines/action/handlers/flow-execute.handler.ts` | Thin calls of the flow engine and of the workflow executor; what they call is listed on its own. |
| Access control | `core/security/guards/rbac.guard.ts` | Guards without state of their own; the rules are rows that nothing changes at run time. |
| Navigation and templates | `bdui/services/bdui-navigation.service.ts` | Reading and filtering of lists: no protocol. |
| Configuration engine | `engines/config/config-migrator.ts` | A chain of two functions over a document; nothing calls it. |
| Payment, jobs, dynamic objects, health | `payment/payment-adapter.registry.ts` | Adapters and workers that are stubs, and single inserts. |
| Client vault, bootstrap and conflicts | `flutter: core/vault/bootstrap_service.dart` | Bootstrap writes one transaction; the cleaner deletes in LRU order; the conflict resolver is called by nobody. The queue's part of the vault is in SyncQueue. |
| Client interface | `flutter: engine/canvas_rule/rule.dart` | Widgets, rules, themes and translations: rendering. |
| Schemas and shared types | `src/packages/bdui-schema/package.json` | Types and generated schemas. |

## Further hazards

PROJECT.json lists the hazards the modules are about, and those closest to them. These
are others that the code has:

| Kind | Where | What |
|---|---|---|
| interleaving | `flutter: core/sync/sync_queue_worker.dart:73` | an enqueue, a connectivity event or a resume arrives while a drain is on its way out of its loop, and is dropped. EventuallySettled supposes a later event; without one the row waits, as described under the divergences. |
| stale state | `flutter: core/vault/dao/sync_queue_dao.dart:151` | a row given up keeps the next_retry_at of an earlier failure and stays eligible.  |
| resource bound | `flutter: core/vault/dao/sync_queue_dao.dart:69` | the LIMIT of the batch: rows that come back first keep later ones out.  |
| liveness | `flutter: core/sync/sync_queue_worker.dart:177` | a backoff ends and no timer, only a later event, starts a drain.  |
| numeric edge | `flutter: core/sync/sync_queue_worker.dart:147` | retryCount + 1 < maxRetries: the last allowed attempt.  |
| partial failure | `flutter: core/sync/sync_queue_worker.dart:138` | a local statement throws half-way through the results: the whole batch, answered rows included, is treated as a network failure.  |
| partial failure | `flutter: core/sync/sync_api_client.dart:83` | a response without results, or with fewer than were sent, leaves rows 'sending' until the next start. The rows wait for recoverInFlight; the run queue includes these responses, the first half of RowsGoInOrder and EventuallySettled are stated for complete ones. |
| unreliable delivery | `flutter: core/sync/sync_queue_worker.dart:89` | a request the client gave up on reaches the server after the retry did.  |
| partial failure | `sync/sync.controller.ts:83` | the mutations of a batch end differently: each must get its own result, and an error must not pass for a success.  |
| ordering | `flutter: core/sync/sync_queue_worker.dart:79` | the wall clock of the phone goes back: next_retry_at and created_at are compared with it. The model's clock does not run backwards. |
| protocol sequence | `core/idempotency/idempotency.interceptor.ts:58` | the client does not send the header the endpoint insists on: without something on the way that adds it every batch is answered 400. The whole exchange fails in the same way each time; README, Divergences. |
| ordering | `engines/workflow/executor/workflow-executor.service.ts:257` | the results are handled in the order of the batch, not of their arrival: an approval ends the loop before later results are looked at.  |
| liveness | `engines/workflow/executor/workflow-executor.service.ts:199` | run() must answer whatever its steps throw.  |
| crash recovery | `engines/workflow/executor/workflow-executor.service.ts:82` | the process ends during a run: the row stays 'running', nothing resumes the run and every later start of the entity is refused. There is no recovery in the code to check; WorkflowRow shows the lost run as Vanish. |
| stale state | `engines/workflow/fsm/workflow-definition.resolver.ts:66` | definitions, absent ones included, are cached for the life of the process and not invalidated when the tenant's configuration changes. Nothing in the code changes a definition. |
| numeric edge | `engines/action/handlers/crud-update.handler.ts:56` | two commits within one millisecond have the same updated_at for the client, and a transaction that began earlier may commit later: the comparison then lets an outdated update through.  |
| interleaving | `engines/action/handlers/crud-delete.handler.ts:35` | a delete races an update: each writes the columns that differ from what it reads again, and an update that read the row before the delete puts status back to 'active'. The race itself breaks no promise that the code makes; the property says that it needs an overlap. |
| crash recovery | `core/security/services/roles.service.ts:104` | the process ends between the UPDATE and the invalidation: nobody will delete the copies.  |
| ordering | `core/security/services/roles.service.ts:110` | the copy in memory is dropped before the one in Redis: a lookup in between fills it again and only the message removes it.  |
| stale state | `tenants/tenants-roles.controller.ts:61` | a role is counted as unused and removed while a user is given it. The users table is not modelled. |
| crash recovery | `core/audit/constants.ts:39` | an event that must not be lost with the process is given to the buffer.  |
| timeout retry | `engines/flow/flow-webhook.service.ts:55` | retries end: a last answer that counts as one that may be tried again must still lead to on_error.  |
| numeric edge | `engines/workflow/validator/kahn.ts:19` | a dependency that is named twice counts twice on the way up and must count twice on the way down.  |
| other | `src/scripts/validate-catalogue.ts:33` | the application and the script carry the same validation twice: one that is changed alone lets pass what the other refuses.  |
| other | `bdui/filters/rbac-component-filter.ts:41` | props.children that are an object and no list pass the loader and end in a TypeError of the filter, for the roles that see the component and for no others. |
| protocol sequence | `bdui/services/a2ui-to-screen-config.service.ts:90` | the lists are filled in two passes and a component can be a child, a leaf and a KPI: one that the root leads to must not fall between them.  |
| other | `engines/algo/algo-engine.service.ts:103` | validate evaluates without variables: what it accepts must not depend on them.  |
| interleaving | `core/idempotency/idempotency.interceptor.ts:82` | lookup and store (L105) surround the handler: two copies of a request both miss and both run it, only sync_mutations holds the second one back. The properties cover the layer below, which sees both copies; the cache itself is not modelled. |
| stale state | `core/idempotency/idempotency.interceptor.ts:105` | the store is not awaited by the response and may fail: a retry finds no answer, or the answer 'in progress' is kept as the answer for a day. The cache is not modelled. |
| atomicity | `core/cache/services/bdui-cache.service.ts:115` | SCAN gives no snapshot: a layout stored while the keys are being listed may be neither listed nor deleted. One screen is modelled, whose keys are few. |
| ordering | `core/cache/services/bdui-cache.service.ts:106` | memory is purged before Redis: a get in between fills it again from the copy that is about to be deleted. In LayoutCache; CopiesDie bounds how long such a copy lives. |
| partial failure | `core/cache/services/rate-limiter.service.ts:29` | INCR succeeds and EXPIRE is lost: the counter has no expiry and is never 1 again, so the key stays over its limit for ever. Two lines of code; not worth a module of its own. |
| resource bound | `core/audit/services/audit-log.service.ts:79` | a flush empties the buffer at 100 entries (L92), so that the 10 000 at which the oldest is dropped are never reached: against a slow database the batches under way have no bound. In AuditTrail; no property says how many there may be. |
| crash recovery | `core/audit/services/audit-log.service.ts:153` | shutdown flushes what is in the buffer and does not wait for a flush that is under way. In AuditTrail: Crash is where entries may be lost. |
| partial failure | `engines/flow/flow-resume.service.ts:80` | a step that throws leaves the row, and the job tries it again every five seconds without end; one that fails without throwing is dropped. What the compiler makes has nothing to resume, see the divergences. |
| protocol sequence | `engines/flow/flow-compiler.service.ts:104` | steps that follow a delay, notify or assign are not among its successors and become entry steps of their own: they run at once and the delay has nothing to resume. In Flow as it is; see the divergences. |
| timeout retry | `engines/flow/flow-webhook.service.ts:23` | the request is aborted and sent again while the receiver may be carrying out the first one. The receiver is not part of the code. |
| unreliable delivery | `engines/live/scalario-live.service.ts:46` | an event emitted while the client reconnects is lost and nothing tells the client. The code makes no promise that this would break. |
| timeout retry | `flutter: core/live/scalario_live_client.dart:63` | the attempts are counted from zero as soon as the channel object exists, before it is connected: against a server that is down the delay never grows. A line about a timer; the client's reconnection is not modelled. |
| stale state | `flutter: core/live/scalario_live_client.dart:46` | connect() while connected keeps the old subscription: its onDone schedules another reconnection beside the new channel. The client's reconnection is not modelled. |
| atomicity | `core/security/services/roles.service.ts:103` | the whole of tenants.config is written back with what was read: a change of another part of it, made in between, is lost. Only the list of roles is modelled. |
| atomicity | `tenants/tenants-handle.controller.ts:48` | the handle is looked for and then saved: two tenants that ask for the same one at once meet only at the unique index, as an error 500. Left to the database. |
| partial failure | `engines/vault/transaction.service.ts:41` | with rollbackOnError = false a failure releases the connection with its transaction still open: the next user of the pool inherits it. What the pool does with it is not in the code; no caller passes false. |
| ordering | `flutter: core/sync/conflict_resolver.dart:97` | an override is sent with the client's clock as base_updated_at, which is compared with the server's: a clock that is behind makes every override a conflict, one ahead overwrites what it has not seen. The client never calls the resolver; ConflictHasCause and CheckedSawLatest are about a base that comes from the server. |
| partial failure | `flutter: core/sync/conflict_resolver.dart:115` | the response to an override is ignored: a refusal is recorded as resolved. The client never calls the resolver. |
| interleaving | `flutter: core/vault/cache_cleaner.dart:58` | layouts are deleted one at a time from a list that was read before: one written again meanwhile is deleted with its new content. The layouts can be fetched again. |
