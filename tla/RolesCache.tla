------------------------------ MODULE RolesCache ------------------------------
(***************************************************************************)
(* RolesService (core/security/services) on several nodes, for one tenant:   *)
(* the list of roles in tenants.config, a copy in Redis (L2), a copy in the  *)
(* memory of each node (L1), and the channel roles:invalidate.  A lookup     *)
(* fills the copies it misses; patchRoles writes the row and then removes    *)
(* them.  A call to PostgreSQL or to Redis is two actions: it takes effect   *)
(* there, and its answer is processed by the node.                          *)
(*                                                                         *)
(* A patch adds one role and is named after it.  Removing a role differs     *)
(* only in the list that is written.  Time is counted in ticks of a minute;  *)
(* only what is left of a copy's life, and how long a list has been out of   *)
(* date, is kept.  Left out is the pipe on the route of patchRoles, which    *)
(* is given the slug as well and refuses it: a patch here is a call of the   *)
(* handler.                                                                *)
(***************************************************************************)
EXTENDS Naturals

CONSTANTS
    Nodes,      \* the NestJS processes
    Lookups,    \* the calls of getRolesForTenant that can be under way at once
    Patches,    \* the calls of patchRoles, each with the role that it adds
    None,       \* no copy, nowhere
    L1TTL,      \* the life of a copy in memory (L1_TTL_MS)
    L2TTL       \* the life of a copy in Redis (TTL_SECONDS.ROLES)

ASSUME RolesAssumption ==
    /\ L1TTL \in Nat \ {0} /\ L2TTL \in Nat \ {0}
    /\ None \notin Nodes
    /\ Lookups \cap Patches = {}

VARIABLES
    db,         \* the list in the row
    l1,         \* the copy in the memory of each node
    l2,         \* the copy in Redis
    wire,       \* the invalidations on their way to each node
    pc,         \* where each lookup and each patch is
    at,         \* the node it runs on
    list,       \* the list it holds
    age,        \* history: for how long each earlier list has been out of date
    late,       \* the calls under way that began before the last tick
    raced,      \* history: a lookup was under way during an invalidation
    lost,       \* history: an invalidation was not carried out or not received
    mixed       \* history: two patches were under way at once

vars == <<db, l1, l2, wire, pc, at, list, age, late, raced, lost, mixed>>

-------------------------------------------------------------------------------

List == SUBSET Patches

Copy(ttl) == {None} \cup [roles : List, left : 1 .. ttl]

MaxAge == L1TTL + L2TTL + 1

Call == Lookups \cup Patches

LookupStep == {"idle", "get", "hit", "read", "row", "set"}

PatchStep == {"new", "find", "update", "written", "del", "publish", "done"}

TypeOK ==
    /\ db \in List
    /\ l1 \in [Nodes -> Copy(L1TTL)]
    /\ l2 \in Copy(L2TTL)
    /\ wire \in [Nodes -> Nat]
    /\ pc \in [Call -> LookupStep \cup PatchStep]
    /\ \A l \in Lookups : pc[l] \in LookupStep
    /\ \A p \in Patches : pc[p] \in PatchStep
    /\ at \in [Call -> Nodes \cup {None}]
    /\ list \in [Call -> List]
    /\ \E past \in SUBSET List : age \in [past -> 0 .. MaxAge]
    /\ late \in SUBSET Call
    /\ raced \in BOOLEAN /\ lost \in BOOLEAN /\ mixed \in BOOLEAN

Init ==
    /\ db = {}
    /\ l1 = [n \in Nodes |-> None]
    /\ l2 = None
    /\ wire = [n \in Nodes |-> 0]
    /\ pc = [c \in Call |-> IF c \in Lookups THEN "idle" ELSE "new"]
    /\ at = [c \in Call |-> None]
    /\ list = [c \in Call |-> {}]
    /\ age = [v \in {} |-> 0]
    /\ late = {}
    /\ raced = FALSE /\ lost = FALSE /\ mixed = FALSE

UnderWay(c) == pc[c] \notin {"idle", "new", "done"}

\* The row is written and not every node has dropped its copy.
Invalidating ==
    \/ \E p \in Patches : pc[p] \in {"written", "del", "publish"}
    \/ \E n \in Nodes : wire[n] > 0

Goto(c, step) == pc' = [pc EXCEPT ![c] = step]

\* A call ends; what it held is gone.
End(c, step) ==
    /\ Goto(c, step)
    /\ at' = [at EXCEPT ![c] = None]
    /\ list' = [list EXCEPT ![c] = {}]
    /\ late' = late \ {c}

Return(l) == End(l, "idle")

-------------------------------------------------------------------------------
(* getRolesForTenant.  A lookup that finds a copy in memory returns it at      *)
(* once and changes nothing.                                                  *)

Miss(l, n) ==
    /\ pc[l] = "idle"
    /\ l1[n] = None
    /\ Goto(l, "get")
    /\ at' = [at EXCEPT ![l] = n]
    /\ raced' = (raced \/ Invalidating)
    /\ UNCHANGED <<db, l1, l2, wire, list, age, late, lost, mixed>>

\* Mutant: reading a copy in Redis prolongs its life.
RedisGetRenews(l) ==
    /\ pc[l] = "get"
    /\ \/ /\ l2 # None
          /\ list' = [list EXCEPT ![l] = l2.roles]
          /\ l2' = [l2 EXCEPT !.left = L2TTL]
          /\ Goto(l, "hit")
       \/ /\ Goto(l, "read")
          /\ UNCHANGED <<list, l2>>
    /\ UNCHANGED <<db, l1, wire, at, age, late, raced, lost, mixed>>

\* Redis answers, or fails and the row is read instead.
RedisGet(l) ==
    /\ pc[l] = "get"
    /\ \/ /\ l2 # None
          /\ list' = [list EXCEPT ![l] = l2.roles]
          /\ Goto(l, "hit")
       \/ /\ Goto(l, "read")
          /\ UNCHANGED list
    /\ UNCHANGED <<db, l1, l2, wire, at, age, late, raced, lost, mixed>>

Remember(l) == l1' = [l1 EXCEPT ![at[l]] = [roles |-> list[l], left |-> L1TTL]]

Hit(l) ==
    /\ pc[l] = "hit"
    /\ Remember(l)
    /\ Return(l)
    /\ UNCHANGED <<db, l2, wire, age, raced, lost, mixed>>

\* PostgreSQL answers, or fails and the lookup throws.
ReadRow(l) ==
    /\ pc[l] = "read"
    /\ \/ /\ list' = [list EXCEPT ![l] = db]
          /\ Goto(l, "row")
          /\ UNCHANGED <<at, late>>
       \/ Return(l)
    /\ UNCHANGED <<db, l1, l2, wire, age, raced, lost, mixed>>

Row(l) ==
    /\ pc[l] = "row"
    /\ Remember(l)
    /\ Goto(l, "set")
    /\ UNCHANGED <<db, l2, wire, at, list, age, late, raced, lost, mixed>>

\* Redis stores the copy, or fails; the lookup returns either way.
RedisSet(l) ==
    /\ pc[l] = "set"
    /\ \/ l2' = [roles |-> list[l], left |-> L2TTL]
       \/ UNCHANGED l2
    /\ Return(l)
    /\ UNCHANGED <<db, l1, wire, age, raced, lost, mixed>>

-------------------------------------------------------------------------------
(* patchRoles and setRolesForTenant. *)

\* Mutant: the list is taken from the cache.
FindTenantCached(p, n) ==
    /\ pc[p] = "new"
    /\ list' = [list EXCEPT ![p] = (IF l1[n] # None THEN l1[n].roles ELSE db) \cup {p}]
    /\ Goto(p, "update")
    /\ at' = [at EXCEPT ![p] = n]
    /\ mixed' = (mixed \/ \E q \in Patches \ {p} : UnderWay(q))
    /\ UNCHANGED <<db, l1, l2, wire, age, late, raced, lost>>

\* The first findOne, and the list that results from it.
FindTenant(p, n) ==
    /\ pc[p] = "new"
    /\ list' = [list EXCEPT ![p] = db \cup {p}]
    /\ Goto(p, "update")
    /\ at' = [at EXCEPT ![p] = n]
    /\ mixed' = (mixed \/ \E q \in Patches \ {p} : UnderWay(q))
    /\ UNCHANGED <<db, l1, l2, wire, age, late, raced, lost>>

\* UPDATE tenants SET config.  It may fail, or succeed and look like a failure;
\* either ends the patch.
WriteRow(p) ==
    /\ pc[p] = "update"
    /\ \/ /\ db' = list[p]
          /\ age' = [v \in DOMAIN age \cup {db} |-> IF v = db THEN 0 ELSE age[v]]
          /\ \/ Goto(p, "written") /\ UNCHANGED <<at, list, late, lost>>
             \/ End(p, "done") /\ lost' = TRUE
          /\ raced' = (raced \/ \E l \in Lookups : UnderWay(l))
       \/ /\ End(p, "done")
          /\ UNCHANGED <<db, age, lost, raced>>
    /\ UNCHANGED <<l1, l2, wire, mixed>>

\* invalidateCache drops the copy of its own node first.
Forget(p) ==
    /\ pc[p] = "written"
    /\ l1' = [l1 EXCEPT ![at[p]] = None]
    /\ Goto(p, "del")
    /\ UNCHANGED <<db, l2, wire, at, list, age, late, raced, lost, mixed>>

\* Redis fails: what is left of the invalidation is skipped.
Skip(p) ==
    /\ pc[p] \in {"del", "publish"}
    /\ End(p, "done")
    /\ lost' = TRUE
    /\ UNCHANGED <<db, l1, l2, wire, age, raced, mixed>>

\* Mutant: the copy in Redis is left to expire.
RedisDelNot(p) ==
    /\ pc[p] = "del"
    /\ Goto(p, "publish")
    /\ UNCHANGED <<db, l1, l2, wire, at, list, age, late, raced, lost, mixed>>

RedisDel(p) ==
    /\ pc[p] = "del"
    /\ l2' = None
    /\ Goto(p, "publish")
    /\ UNCHANGED <<db, l1, wire, at, list, age, late, raced, lost, mixed>>

Publish(p) ==
    /\ pc[p] = "publish"
    /\ wire' = [n \in Nodes |-> wire[n] + 1]
    /\ End(p, "done")
    /\ UNCHANGED <<db, l1, l2, age, raced, lost, mixed>>

\* The handler of the channel drops the copy of its node.
Receive(n) ==
    /\ wire[n] > 0
    /\ wire' = [wire EXCEPT ![n] = @ - 1]
    /\ l1' = [l1 EXCEPT ![n] = None]
    /\ UNCHANGED <<db, l2, pc, at, list, age, late, raced, lost, mixed>>

\* The subscriber was not connected when the message was published.
Drop(n) ==
    /\ wire[n] > 0
    /\ wire' = [wire EXCEPT ![n] = @ - 1]
    /\ lost' = TRUE
    /\ UNCHANGED <<db, l1, l2, pc, at, list, age, late, raced, mixed>>

-------------------------------------------------------------------------------

Older(copy) ==
    IF copy = None \/ copy.left = 1 THEN None ELSE [copy EXCEPT !.left = @ - 1]

\* A minute passes.  Bound: no call lasts longer than a minute, that is, at most
\* one tick falls within it, and no message is on its way for that long.
Tick ==
    /\ late = {}
    /\ \A n \in Nodes : wire[n] = 0
    /\ l1' = [n \in Nodes |-> Older(l1[n])]
    /\ l2' = Older(l2)
    /\ age' = [v \in DOMAIN age |-> IF age[v] < MaxAge THEN age[v] + 1 ELSE MaxAge]
    /\ late' = {c \in Call : UnderWay(c)}
    /\ UNCHANGED <<db, wire, pc, at, list, raced, lost, mixed>>

\* The process of a node ends and begins again: its memory, its calls and its
\* subscription are gone.
Restart(n) ==
    LET here == {c \in Call : at[c] = n}
    IN  /\ l1' = [l1 EXCEPT ![n] = None]
        /\ wire' = [wire EXCEPT ![n] = 0]
        /\ pc' = [c \in Call |-> IF c \notin here THEN pc[c]
                                 ELSE IF c \in Lookups THEN "idle" ELSE "done"]
        /\ lost' = (lost \/ \E p \in here : pc[p] \in {"written", "del", "publish"})
        /\ at' = [c \in Call |-> IF c \in here THEN None ELSE at[c]]
        /\ list' = [c \in Call |-> IF c \in here THEN {} ELSE list[c]]
        /\ late' = late \ here
        /\ UNCHANGED <<db, l2, age, raced, mixed>>

Lookup(l) == RedisGet(l) \/ Hit(l) \/ ReadRow(l) \/ Row(l) \/ RedisSet(l)

Patch(p) == WriteRow(p) \/ Forget(p) \/ RedisDel(p) \/ Publish(p) \/ Skip(p)

Message(n) == Receive(n) \/ Drop(n)

Next ==
    \/ Tick
    \/ \E n \in Nodes :
          \/ Message(n) \/ Restart(n)
          \/ \E l \in Lookups : Miss(l, n)
          \/ \E p \in Patches : FindTenant(p, n)
    \/ \E l \in Lookups : Lookup(l)
    \/ \E p \in Patches : Patch(p)

Spec == Init /\ [][Next]_vars

-------------------------------------------------------------------------------
(* Properties. *)

Copies == {l1[n] : n \in Nodes} \cup {l2}

Stale(copy) == copy # None /\ copy.roles # db

\* STORY-018 AC-21, STORY-015 AC-14: once a patch is done and its message has
\* arrived everywhere, no copy of an earlier list is left, unless a lookup was
\* under way meanwhile or some part of an invalidation was lost.
CurrentWhenQuiet ==
    ~ Invalidating /\ ~ raced /\ ~ lost => \A copy \in Copies : ~ Stale(copy)

\* However lookups, patches, losses and restarts interleave, no node serves a
\* list that has been out of date for longer than the two lives together.
StaleIsBounded ==
    \A n \in Nodes : Stale(l1[n]) => age[l1[n].roles] <= L1TTL + L2TTL

\* Patches that do not overlap add up: the row has the role of every patch that
\* wrote it.
PatchesAddUp ==
    ~ mixed => \A p, q \in Patches :
        pc[p] = "done" /\ pc[q] = "written" /\ p \in UNION DOMAIN age => p \in db

===============================================================================
