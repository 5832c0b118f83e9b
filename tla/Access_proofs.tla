----------------------------- MODULE Access_proofs -----------------------------
(***************************************************************************)
(* Proofs about RolesCache for any nodes, lookups and patches and any lives  *)
(* of the copies, and what Sessions_proofs proves, read in MCAccess, where    *)
(* one run checks both.                                                     *)
(***************************************************************************)
EXTENDS MCAccess, TLAPS

\* The list v is the current one, or has been out of date for k ticks at most.
OldAtMost(v, k) == v # db => v \in DOMAIN age /\ age[v] <= k

Extra(c) == IF c \in late THEN 1 ELSE 0

\* What makes StaleIsBounded inductive: the age of the list in each copy, and
\* of the list a lookup holds, against the life that is left of the copy.  A
\* lookup holds what it read for one tick at most; what it read in Redis was
\* stored there by a lookup of the same kind.
AgesFit ==
    /\ \A n \in Nodes : l1[n] # None => OldAtMost(l1[n].roles, L1TTL + L2TTL + 1 - l1[n].left)
    /\ l2 # None => OldAtMost(l2.roles, L2TTL + 1 - l2.left)
    /\ \A l \in Lookups :
          /\ pc[l] \in {"row", "set"} => OldAtMost(list[l], Extra(l))
          /\ pc[l] = "hit" => OldAtMost(list[l], L2TTL + Extra(l))

\* The row is written and the patch still has to drop the copy in Redis.
Deleting(p) == pc[p] \in {"written", "del"}

Clearing(p) == pc[p] \in {"written", "del", "publish"}

\* What makes CurrentWhenQuiet inductive: as long as nothing raced and nothing
\* was lost, a stale copy has somebody on the way to remove it, and no lookup
\* holds a list while that is so.
StaleIsDoomed ==
    ~ raced /\ ~ lost =>
        /\ \A n \in Nodes : Stale(l1[n]) => wire[n] > 0 \/ \E p \in Patches : Clearing(p)
        /\ Stale(l2) => \E p \in Patches : Deleting(p)
        /\ Invalidating => \A l \in Lookups : ~ UnderWay(l)
        /\ \A l \in Lookups : pc[l] \in {"hit", "row", "set"} => list[l] = db

\* What makes PatchesAddUp inductive: patches that take turns write the list
\* they read with their own role added, so every earlier list is part of the
\* list in the row.
TakingTurns ==
    ~ mixed =>
        /\ \A p, q \in Patches : UnderWay(p) /\ UnderWay(q) => p = q
        /\ \A p \in Patches : pc[p] = "update" => list[p] = db \cup {p}
        /\ \A v \in DOMAIN age : v \subseteq db

-------------------------------------------------------------------------------

LEMMA OlderType ==
  ASSUME NEW ttl \in Nat \ {0}, NEW copy \in Copy(ttl)
  PROVE  Older(copy) \in Copy(ttl)
BY DEF Older, Copy

LEMMA FreshType ==
  ASSUME NEW ttl \in Nat \ {0}, NEW v \in List
  PROVE  [roles |-> v, left |-> ttl] \in Copy(ttl) /\ None \in Copy(ttl)
BY DEF Copy

\* Every variable keeps its type; in particular a copy never has more than
\* its whole life before it.
THEOREM TypeCorrect == Spec => []TypeOK
<1> USE RolesAssumption DEF TypeOK, Call, LookupStep, PatchStep
<1>1. Init => TypeOK
  <2> SUFFICES ASSUME Init PROVE TypeOK
    OBVIOUS
  <2>1. \E past \in SUBSET List : age \in [past -> 0 .. MaxAge]
    <3>1. age \in [{} -> 0 .. MaxAge]
      BY DEF Init
    <3> QED
      BY <3>1
  <2> QED
    BY <2>1 DEF Init, Copy, List
<1>2. TypeOK /\ [Next]_vars => TypeOK'
  <2> SUFFICES ASSUME TypeOK, [Next]_vars PROVE TypeOK'
    OBVIOUS
  <2> USE DEF Goto, End, Return, Remember
  <2>1. ASSUME NEW l \in Lookups, NEW n \in Nodes, Miss(l, n) PROVE TypeOK'
    BY <2>1 DEF Miss
  <2>2. ASSUME NEW l \in Lookups, RedisGet(l) PROVE TypeOK'
    BY <2>2 DEF RedisGet, Copy
  <2>3. ASSUME NEW l \in Lookups, Hit(l) PROVE TypeOK'
    <3>1. l1' \in [Nodes -> Copy(L1TTL)]
      BY <2>3, FreshType DEF Hit
    <3> QED
      BY <2>3, <3>1 DEF Hit, List
  <2>4. ASSUME NEW l \in Lookups, ReadRow(l) PROVE TypeOK'
    BY <2>4 DEF ReadRow, List
  <2>5. ASSUME NEW l \in Lookups, Row(l) PROVE TypeOK'
    <3>1. l1' \in [Nodes -> Copy(L1TTL)]
      BY <2>5, FreshType DEF Row
    <3> QED
      BY <2>5, <3>1 DEF Row
  <2>6. ASSUME NEW l \in Lookups, RedisSet(l) PROVE TypeOK'
    BY <2>6 DEF RedisSet, Copy, List
  <2>7. ASSUME NEW p \in Patches, NEW n \in Nodes, FindTenant(p, n) PROVE TypeOK'
    BY <2>7 DEF FindTenant, List
  <2>8. ASSUME NEW p \in Patches, WriteRow(p) PROVE TypeOK'
    <3>1. \E past \in SUBSET List : age' \in [past -> 0 .. MaxAge]
      <4>1. PICK past \in SUBSET List : age \in [past -> 0 .. MaxAge]
        OBVIOUS
      <4>2. age' \in [past \cup {db} -> 0 .. MaxAge] \/ age' = age
        BY <2>8, <4>1 DEF WriteRow, MaxAge
      <4> QED
        BY <4>1, <4>2
    <3>2. db' \in List /\ list' \in [Lookups \cup Patches -> List]
      BY <2>8 DEF WriteRow, List
    <3> QED
      BY <2>8, <3>1, <3>2 DEF WriteRow
  <2>9. ASSUME NEW p \in Patches, Forget(p) PROVE TypeOK'
    BY <2>9 DEF Forget, Copy
  <2>10. ASSUME NEW p \in Patches, RedisDel(p) PROVE TypeOK'
    BY <2>10 DEF RedisDel, Copy
  <2>11. ASSUME NEW p \in Patches, Publish(p) PROVE TypeOK'
    BY <2>11 DEF Publish, List
  <2>12. ASSUME NEW p \in Patches, Skip(p) PROVE TypeOK'
    BY <2>12 DEF Skip, List
  <2>13. ASSUME NEW n \in Nodes, Message(n) PROVE TypeOK'
    <3>1. wire[n] \in Nat /\ (wire[n] > 0 => wire[n] - 1 \in Nat)
      OBVIOUS
    <3>2. CASE Receive(n)
      BY <3>1, <3>2 DEF Receive, Copy
    <3>3. CASE Drop(n)
      BY <3>1, <3>3 DEF Drop
    <3> QED
      BY <2>13, <3>2, <3>3 DEF Message
  <2>14. ASSUME NEW n \in Nodes, Restart(n) PROVE TypeOK'
    BY <2>14 DEF Restart, Copy, List
  <2>15. CASE Tick
    <3>1. l1' \in [Nodes -> Copy(L1TTL)] /\ l2' \in Copy(L2TTL)
      BY <2>15, OlderType DEF Tick
    <3>2. \E past \in SUBSET List : age' \in [past -> 0 .. MaxAge]
      <4>1. PICK past \in SUBSET List : age \in [past -> 0 .. MaxAge]
        OBVIOUS
      <4>2. age' \in [past -> 0 .. MaxAge]
        BY <2>15, <4>1 DEF Tick, MaxAge
      <4> QED
        BY <4>2
    <3> QED
      BY <2>15, <3>1, <3>2 DEF Tick
  <2>16. CASE UNCHANGED vars
    BY <2>16 DEF vars
  <2> QED
    BY <2>1, <2>2, <2>3, <2>4, <2>5, <2>6, <2>7, <2>8, <2>9, <2>10, <2>11, <2>12, <2>13, <2>14,
       <2>15, <2>16 DEF Next, Lookup, Patch
<1> QED
  BY <1>1, <1>2, PTL DEF Spec

-------------------------------------------------------------------------------

\* A list that is old at most so long is still so when nothing is written and
\* no time passes, and when the row is written (it is then out of date since now).
LEMMA OldStays ==
  ASSUME NEW v, NEW k \in Nat, OldAtMost(v, k),
         \/ UNCHANGED <<db, age>>
         \/ age' = [w \in DOMAIN age \cup {db} |-> IF w = db THEN 0 ELSE age[w]]
  PROVE  OldAtMost(v, k)'
BY DEF OldAtMost

\* After a tick it is older by one tick at most.
LEMMA OldTicks ==
  ASSUME TypeOK, Tick, NEW v, NEW k \in Nat, OldAtMost(v, k)
  PROVE  OldAtMost(v, k + 1)'
<1>1. PICK past \in SUBSET List : age \in [past -> 0 .. MaxAge]
  BY DEF TypeOK
<1> QED
  BY <1>1, RolesAssumption DEF OldAtMost, Tick, MaxAge

\* What is left of the life of a copy is a number between one and all of it.
LEMMA LeftType ==
  ASSUME TypeOK
  PROVE  /\ L1TTL \in Nat /\ L2TTL \in Nat
         /\ \A n \in Nodes : l1[n] # None => l1[n].left \in 1 .. L1TTL
         /\ l2 # None => l2.left \in 1 .. L2TTL
BY RolesAssumption DEF TypeOK, Copy

\* Steps that leave the copies and the row alone and at most end calls.
LEMMA AgesFitOtherwise ==
  ASSUME TypeOK, AgesFit,
         UNCHANGED l2,
         \A n \in Nodes : l1'[n] \in {l1[n], None},
         \/ UNCHANGED <<db, age>>
         \/ age' = [w \in DOMAIN age \cup {db} |-> IF w = db THEN 0 ELSE age[w]],
         \A l \in Lookups :
            \/ pc'[l] \notin {"hit", "row", "set"}
            \/ pc'[l] = pc[l] /\ list'[l] = list[l] /\ (l \in late' <=> l \in late)
  PROVE  AgesFit'
<1> USE LeftType
<1>1. ASSUME NEW n \in Nodes, l1'[n] # None
      PROVE  OldAtMost(l1[n].roles, L1TTL + L2TTL + 1 - l1[n].left)' /\ l1'[n] = l1[n]
  <2>1. l1'[n] = l1[n] /\ L1TTL + L2TTL + 1 - l1[n].left \in Nat
    BY <1>1
  <2>2. OldAtMost(l1[n].roles, L1TTL + L2TTL + 1 - l1[n].left)
    BY <1>1, <2>1 DEF AgesFit
  <2> QED
    BY <2>1, <2>2, OldStays DEF OldAtMost
<1>2. ASSUME l2' # None PROVE OldAtMost(l2.roles, L2TTL + 1 - l2.left)'
  <2>1. L2TTL + 1 - l2.left \in Nat /\ OldAtMost(l2.roles, L2TTL + 1 - l2.left)
    BY <1>2 DEF AgesFit
  <2> QED
    BY <2>1, OldStays DEF OldAtMost
<1>3. ASSUME NEW l \in Lookups
      PROVE  /\ pc'[l] \in {"row", "set"} => OldAtMost(list[l], Extra(l))'
             /\ pc'[l] = "hit" => OldAtMost(list[l], L2TTL + Extra(l))'
  <2>1. Extra(l) \in Nat /\ L2TTL + Extra(l) \in Nat
    BY DEF Extra
  <2>2. ASSUME pc'[l] \in {"hit", "row", "set"}
        PROVE  pc'[l] = pc[l] /\ list'[l] = list[l] /\ Extra(l)' = Extra(l)
    BY <2>2 DEF Extra
  <2>3. ASSUME pc'[l] \in {"row", "set"} PROVE OldAtMost(list[l], Extra(l))'
    <3>1. OldAtMost(list[l], Extra(l))
      BY <2>2, <2>3 DEF AgesFit
    <3> QED
      BY <2>1, <2>2, <2>3, <3>1, OldStays DEF OldAtMost
  <2>4. ASSUME pc'[l] = "hit" PROVE OldAtMost(list[l], L2TTL + Extra(l))'
    <3>1. OldAtMost(list[l], L2TTL + Extra(l))
      BY <2>2, <2>4 DEF AgesFit
    <3> QED
      BY <2>1, <2>2, <2>4, <3>1, OldStays DEF OldAtMost
  <2> QED
    BY <2>3, <2>4
<1> QED
  BY <1>1, <1>2, <1>3 DEF AgesFit

\* Lookups refill the copies from what they read, and everything gets older.
LEMMA AgesFitInductive == TypeOK /\ AgesFit /\ [Next]_vars => AgesFit'
<1> SUFFICES ASSUME TypeOK, AgesFit, [Next]_vars PROVE AgesFit'
  OBVIOUS
<1> USE LeftType
<1> USE DEF Goto, End, Return
<1>a. pc \in [Call -> LookupStep \cup PatchStep] /\ list \in [Call -> List]
  BY DEF TypeOK
<1>b. \A l \in Lookups : l \in Call /\ l \notin Patches
  BY RolesAssumption DEF Call
<1>c. \A p \in Patches : p \in Call /\ p \notin Lookups
  BY RolesAssumption DEF Call
<1>1. ASSUME NEW l \in Lookups, RedisGet(l) PROVE AgesFit'
  <2>1. ASSUME l2 # None PROVE OldAtMost(l2.roles, L2TTL + Extra(l))
    BY <2>1 DEF AgesFit, OldAtMost, Extra, TypeOK
  <2>2. pc'[l] = "hit" => l2 # None /\ list'[l] = l2.roles
    BY <1>1, <1>a, <1>b DEF RedisGet
  <2>3. pc'[l] \in {"hit", "read"}
    BY <1>1, <1>a, <1>b DEF RedisGet
  <2>4. \A m \in Lookups \ {l} : pc'[m] = pc[m] /\ list'[m] = list[m]
    BY <1>1, <1>a, <1>b DEF RedisGet
  <2> QED
    BY <1>1, <2>1, <2>2, <2>3, <2>4 DEF RedisGet, AgesFit, OldAtMost, Extra
<1>2. ASSUME NEW l \in Lookups, Hit(l) \/ Row(l) PROVE AgesFit'
  <2>1. OldAtMost(list[l], L2TTL + 1)
    BY <1>2 DEF Hit, Row, AgesFit, OldAtMost, Extra, TypeOK
  <2>2. \A n \in Nodes : l1'[n] = l1[n] \/ l1'[n] = [roles |-> list[l], left |-> L1TTL]
    BY <1>2 DEF Hit, Row, Remember, TypeOK
  <2>3. ASSUME NEW n \in Nodes, l1'[n] # None
        PROVE  OldAtMost(l1[n].roles, L1TTL + L2TTL + 1 - l1[n].left)'
    <3>1. CASE l1'[n] = l1[n]
      BY <1>2, <2>3, <3>1 DEF Hit, Row, AgesFit, OldAtMost
    <3>2. CASE l1'[n] = [roles |-> list[l], left |-> L1TTL]
      BY <1>2, <2>1, <3>2 DEF Hit, Row, OldAtMost
    <3> QED
      BY <2>2, <3>1, <3>2
  <2>4. ASSUME NEW m \in Lookups
        PROVE  /\ pc'[m] \in {"row", "set"} =>
                     /\ pc[m] \in {"row", "set"} /\ list'[m] = list[m] /\ (m \in late' <=> m \in late)
               /\ pc'[m] = "hit" =>
                     /\ pc[m] = "hit" /\ list'[m] = list[m] /\ (m \in late' <=> m \in late)
    BY <1>2, <1>a, <1>b DEF Hit, Row
  <2> QED
    BY <1>2, <2>3, <2>4 DEF Hit, Row, AgesFit, OldAtMost, Extra
<1>3. ASSUME NEW l \in Lookups, ReadRow(l) PROVE AgesFit'
  <2>1. pc'[l] = "row" => list'[l] = db
    BY <1>3, <1>a, <1>b DEF ReadRow
  <2>2. pc'[l] \in {"row", "idle"}
    BY <1>3, <1>a, <1>b DEF ReadRow
  <2>3. \A m \in Lookups \ {l} : pc'[m] = pc[m] /\ list'[m] = list[m] /\ (m \in late' <=> m \in late)
    BY <1>3, <1>a, <1>b DEF ReadRow
  <2> QED
    BY <1>3, <2>1, <2>2, <2>3 DEF ReadRow, AgesFit, OldAtMost, Extra
<1>4. ASSUME NEW l \in Lookups, RedisSet(l) PROVE AgesFit'
  <2>1. OldAtMost(list[l], 1)
    BY <1>4 DEF RedisSet, AgesFit, OldAtMost, Extra, TypeOK
  <2>2. ASSUME l2' # None PROVE OldAtMost(l2.roles, L2TTL + 1 - l2.left)'
    <3>1. CASE l2' = l2
      BY <1>4, <2>2, <3>1 DEF RedisSet, AgesFit, OldAtMost
    <3>2. CASE l2' = [roles |-> list[l], left |-> L2TTL]
      BY <1>4, <2>1, <3>2 DEF RedisSet, OldAtMost
    <3> QED
      BY <1>4, <3>1, <3>2 DEF RedisSet
  <2>3. pc'[l] = "idle"
    BY <1>4, <1>a, <1>b DEF RedisSet
  <2>4. \A m \in Lookups \ {l} : pc'[m] = pc[m] /\ list'[m] = list[m] /\ (m \in late' <=> m \in late)
    BY <1>4, <1>a, <1>b DEF RedisSet
  <2> QED
    BY <1>4, <2>2, <2>3, <2>4 DEF RedisSet, AgesFit, OldAtMost, Extra
<1>5. CASE Tick
  <2>1. ASSUME NEW n \in Nodes, l1'[n] # None
        PROVE  OldAtMost(l1[n].roles, L1TTL + L2TTL + 1 - l1[n].left)'
    <3>1. l1'[n] = Older(l1[n])
      BY <1>5 DEF Tick
    <3>2. l1[n] # None /\ l1'[n] = [l1[n] EXCEPT !.left = @ - 1]
      BY <2>1, <3>1 DEF Older
    <3>3. l1'[n].roles = l1[n].roles /\ l1'[n].left = l1[n].left - 1
      BY <3>2 DEF TypeOK, Copy
    <3>4. L1TTL + L2TTL + 1 - l1[n].left \in Nat
      BY <3>2
    <3>5. OldAtMost(l1[n].roles, L1TTL + L2TTL + 1 - l1[n].left)
      BY <3>2 DEF AgesFit
    <3>6. (L1TTL + L2TTL + 1 - l1[n].left) + 1 = L1TTL + L2TTL + 1 - (l1[n].left - 1)
      BY <3>2
    <3> HIDE DEF Goto, End, Return
    <3> QED
      BY <1>5, <3>3, <3>4, <3>5, <3>6, OldTicks DEF OldAtMost
  <2>2. ASSUME l2' # None PROVE OldAtMost(l2.roles, L2TTL + 1 - l2.left)'
    <3>1. l2' = Older(l2)
      BY <1>5 DEF Tick
    <3>2. l2 # None /\ l2' = [l2 EXCEPT !.left = @ - 1]
      BY <2>2, <3>1 DEF Older
    <3>3. l2'.roles = l2.roles /\ l2'.left = l2.left - 1
      BY <3>2 DEF TypeOK, Copy
    <3>4. L2TTL + 1 - l2.left \in Nat
      BY <3>2
    <3>5. OldAtMost(l2.roles, L2TTL + 1 - l2.left)
      BY <3>2 DEF AgesFit
    <3>6. (L2TTL + 1 - l2.left) + 1 = L2TTL + 1 - (l2.left - 1)
      BY <3>2
    <3> QED
      BY <1>5, <3>3, <3>4, <3>5, <3>6, OldTicks DEF OldAtMost
  <2>3. ASSUME NEW l \in Lookups, pc'[l] \in {"hit", "row", "set"}
        PROVE  /\ pc'[l] = pc[l] /\ list'[l] = list[l]
               /\ Extra(l) = 0 /\ Extra(l)' = 1
    BY <1>5, <1>b, <2>3 DEF Tick, Extra, UnderWay
  <2>4. ASSUME NEW l \in Lookups, pc'[l] \in {"row", "set"} PROVE OldAtMost(list[l], Extra(l))'
    <3>1. OldAtMost(list[l], 0)
      BY <2>3, <2>4 DEF AgesFit
    <3> QED
      BY <1>5, <2>3, <2>4, <3>1, OldTicks DEF OldAtMost
  <2>5. ASSUME NEW l \in Lookups, pc'[l] = "hit" PROVE OldAtMost(list[l], L2TTL + Extra(l))'
    <3>1. OldAtMost(list[l], L2TTL)
      BY <2>3, <2>5 DEF AgesFit
    <3> QED
      BY <1>5, <2>3, <2>5, <3>1, OldTicks DEF OldAtMost
  <2> QED
    BY <2>1, <2>2, <2>4, <2>5 DEF AgesFit
<1>6. ASSUME NEW p \in Patches, RedisDel(p) PROVE AgesFit'
  <2>1. \A l \in Lookups : pc'[l] = pc[l]
    BY <1>6, <1>a, <1>c DEF RedisDel
  <2> QED
    BY <1>6, <2>1 DEF RedisDel, AgesFit, OldAtMost, Extra
<1>7. ASSUME NEW p \in Patches,
             WriteRow(p) \/ Forget(p) \/ Publish(p) \/ Skip(p) \/ \E n \in Nodes : FindTenant(p, n)
      PROVE AgesFit'
  <2>1. \A l \in Lookups : pc'[l] = pc[l] /\ list'[l] = list[l] /\ (l \in late' <=> l \in late)
    <3> SUFFICES ASSUME NEW l \in Lookups
                 PROVE  pc'[l] = pc[l] /\ list'[l] = list[l] /\ (l \in late' <=> l \in late)
      OBVIOUS
    <3>1. l # p /\ l \in Call
      BY <1>b, <1>c
    <3>2. CASE WriteRow(p)
      BY <1>a, <3>1, <3>2 DEF WriteRow
    <3>3. CASE Forget(p) \/ Publish(p) \/ Skip(p)
      BY <1>a, <3>1, <3>3 DEF Forget, Publish, Skip
    <3>4. ASSUME NEW n \in Nodes, FindTenant(p, n)
          PROVE  pc'[l] = pc[l] /\ list'[l] = list[l] /\ (l \in late' <=> l \in late)
      BY <1>a, <3>1, <3>4 DEF FindTenant
    <3> QED
      BY <1>7, <3>2, <3>3, <3>4
  <2>2. \/ UNCHANGED <<db, age>>
        \/ age' = [w \in DOMAIN age \cup {db} |-> IF w = db THEN 0 ELSE age[w]]
    BY <1>7 DEF WriteRow, Forget, Publish, Skip, FindTenant
  <2>3. UNCHANGED l2 /\ \A n \in Nodes : l1'[n] \in {l1[n], None}
    BY <1>7 DEF WriteRow, Forget, Publish, Skip, FindTenant, TypeOK
  <2> QED
    BY <2>1, <2>2, <2>3, AgesFitOtherwise
<1>8. ASSUME NEW n \in Nodes, Message(n) \/ Restart(n) \/ \E l \in Lookups : Miss(l, n)
      PROVE AgesFit'
  <2>1. \A l \in Lookups :
           \/ pc'[l] \notin {"hit", "row", "set"}
           \/ pc'[l] = pc[l] /\ list'[l] = list[l] /\ (l \in late' <=> l \in late)
    BY <1>8, <1>a, <1>b DEF Message, Receive, Drop, Restart, Miss
  <2>2. UNCHANGED <<db, age, l2>> /\ \A m \in Nodes : l1'[m] \in {l1[m], None}
    BY <1>8 DEF Message, Receive, Drop, Restart, Miss, TypeOK
  <2> QED
    BY <2>1, <2>2, AgesFitOtherwise
<1>9. CASE UNCHANGED vars
  BY <1>9 DEF vars, AgesFit, OldAtMost, Extra
<1> QED
  BY <1>1, <1>2, <1>3, <1>4, <1>5, <1>6, <1>7, <1>8, <1>9 DEF Next, Lookup, Patch

\* However lookups, patches, lost messages and restarts interleave, no node
\* serves a list that has been out of date for longer than the two lives.
THEOREM StaleIsBoundedAlways == Spec => []StaleIsBounded
<1>1. Init => AgesFit
  BY RolesAssumption DEF Init, AgesFit, Call
<1>2. TypeOK /\ AgesFit => StaleIsBounded
  <2> SUFFICES ASSUME TypeOK, AgesFit, NEW n \in Nodes, Stale(l1[n])
               PROVE  age[l1[n].roles] <= L1TTL + L2TTL
    BY DEF StaleIsBounded
  <2>1. l1[n] # None /\ OldAtMost(l1[n].roles, L1TTL + L2TTL + 1 - l1[n].left)
    BY DEF Stale, AgesFit
  <2>2. l1[n].roles \in DOMAIN age /\ age[l1[n].roles] <= L1TTL + L2TTL + 1 - l1[n].left
    BY <2>1 DEF OldAtMost, Stale
  <2>3. age[l1[n].roles] \in Nat
    BY <2>2 DEF TypeOK
  <2> QED
    BY <2>1, <2>2, <2>3, LeftType
<1> QED
  BY <1>1, <1>2, AgesFitInductive, TypeCorrect, PTL DEF Spec

-------------------------------------------------------------------------------

\* A step that leaves the row and the copies alone, lets no new list into a
\* lookup, and clears no invalidation away.
LEMMA DoomedInductive == TypeOK /\ StaleIsDoomed /\ [Next]_vars => StaleIsDoomed'
<1> SUFFICES ASSUME TypeOK, StaleIsDoomed, [Next]_vars, ~ raced', ~ lost'
             PROVE  /\ \A n \in Nodes : Stale(l1[n])' => wire'[n] > 0 \/ \E p \in Patches : Clearing(p)'
                    /\ Stale(l2)' => \E p \in Patches : Deleting(p)'
                    /\ Invalidating' => \A l \in Lookups : ~ UnderWay(l)'
                    /\ \A l \in Lookups : pc'[l] \in {"hit", "row", "set"} => list'[l] = db'
  BY DEF StaleIsDoomed
<1> DEFINE Goal ==
      /\ \A n \in Nodes : Stale(l1[n])' => wire'[n] > 0 \/ \E p \in Patches : Clearing(p)'
      /\ Stale(l2)' => \E p \in Patches : Deleting(p)'
      /\ Invalidating' => \A l \in Lookups : ~ UnderWay(l)'
      /\ \A l \in Lookups : pc'[l] \in {"hit", "row", "set"} => list'[l] = db'
<1> USE DEF Goto, End, Return
<1>a. pc \in [Call -> LookupStep \cup PatchStep] /\ list \in [Call -> List]
  BY DEF TypeOK
<1>b. \A l \in Lookups : l \in Call /\ l \notin Patches
  BY RolesAssumption DEF Call
<1>c. \A p \in Patches : p \in Call /\ p \notin Lookups
  BY RolesAssumption DEF Call
<1>d. wire \in [Nodes -> Nat]
  BY DEF TypeOK
<1>1. ASSUME NEW l \in Lookups, RedisGet(l) \/ Hit(l) \/ ReadRow(l) \/ Row(l) \/ RedisSet(l)
      PROVE  Goal
  <2>1. ~ raced /\ ~ lost
    BY <1>1 DEF RedisGet, Hit, ReadRow, Row, RedisSet
  <2>2. UnderWay(l)
    BY <1>1 DEF RedisGet, Hit, ReadRow, Row, RedisSet, UnderWay
  <2>3. ~ Invalidating
    BY <2>1, <2>2 DEF StaleIsDoomed
  <2>4. (\A n \in Nodes : ~ Stale(l1[n])) /\ ~ Stale(l2)
    BY <2>1, <2>3 DEF StaleIsDoomed, Invalidating, Clearing, Deleting
  <2>5. \A p \in Patches : pc'[p] = pc[p]
    BY <1>1, <1>a, <1>b, <1>c DEF RedisGet, Hit, ReadRow, Row, RedisSet
  <2>6. UNCHANGED <<db, wire>>
    BY <1>1 DEF RedisGet, Hit, ReadRow, Row, RedisSet
  <2>7. ~ Invalidating'
    BY <2>3, <2>5, <2>6 DEF Invalidating
  <2>8. \A m \in Lookups \ {l} : pc'[m] = pc[m] /\ list'[m] = list[m]
    BY <1>1, <1>a, <1>b DEF RedisGet, Hit, ReadRow, Row, RedisSet
  <2>9. pc'[l] \in {"hit", "row", "set"} => list'[l] = db
    <3>1. CASE RedisGet(l)
      BY <1>a, <1>b, <2>4, <3>1 DEF RedisGet, Stale
    <3>2. CASE ReadRow(l)
      BY <1>a, <1>b, <3>2 DEF ReadRow
    <3>3. CASE Hit(l) \/ Row(l) \/ RedisSet(l)
      BY <1>a, <1>b, <2>1, <3>3 DEF Hit, Row, RedisSet, StaleIsDoomed
    <3> QED
      BY <1>1, <3>1, <3>2, <3>3
  <2>10. \A n \in Nodes : ~ Stale(l1[n])'
    <3>1. CASE UNCHANGED l1
      BY <2>4, <2>6, <3>1 DEF Stale
    <3>2. CASE Hit(l) \/ Row(l)
      <4>1. list[l] = db
        BY <2>1, <3>2 DEF Hit, Row, StaleIsDoomed
      <4>2. \A n \in Nodes : l1'[n] = l1[n] \/ l1'[n] = [roles |-> list[l], left |-> L1TTL]
        BY <3>2 DEF Hit, Row, Remember, TypeOK
      <4> QED
        BY <2>4, <2>6, <4>1, <4>2 DEF Stale
    <3> QED
      BY <1>1, <3>1, <3>2 DEF RedisGet, ReadRow, RedisSet
  <2>11. ~ Stale(l2)'
    <3>1. CASE UNCHANGED l2
      BY <2>4, <2>6, <3>1 DEF Stale
    <3>2. CASE RedisSet(l)
      <4>1. list[l] = db
        BY <2>1, <3>2 DEF RedisSet, StaleIsDoomed
      <4> QED
        BY <2>4, <2>6, <3>2, <4>1 DEF RedisSet, Stale
    <3> QED
      BY <1>1, <3>1, <3>2 DEF RedisGet, Hit, ReadRow, Row
  <2> QED
    BY <2>6, <2>7, <2>8, <2>9, <2>10, <2>11, <2>1 DEF StaleIsDoomed
<1>2. ASSUME NEW l \in Lookups, NEW n \in Nodes, Miss(l, n) PROVE Goal
  <2>1. ~ raced /\ ~ lost /\ ~ Invalidating
    BY <1>2 DEF Miss
  <2>2. \A p \in Patches : pc'[p] = pc[p]
    BY <1>2, <1>a, <1>b, <1>c DEF Miss
  <2>3. ~ Invalidating'
    BY <1>2, <2>1, <2>2 DEF Invalidating, Miss
  <2>4. (\A m \in Nodes : ~ Stale(l1[m])) /\ ~ Stale(l2)
    BY <2>1 DEF StaleIsDoomed, Invalidating, Clearing, Deleting
  <2>5. \A m \in Lookups : pc'[m] \in {"hit", "row", "set"} => pc[m] = pc'[m]
    BY <1>2, <1>a, <1>b DEF Miss
  <2> QED
    BY <1>2, <2>1, <2>3, <2>4, <2>5 DEF Miss, Stale, StaleIsDoomed
<1>3. ASSUME NEW p \in Patches, WriteRow(p) PROVE Goal
  <2>0. \/ /\ Goto(p, "written") /\ UNCHANGED lost
           /\ raced' = (raced \/ \E l \in Lookups : UnderWay(l))
        \/ UNCHANGED <<db, raced, lost>> /\ End(p, "done")
    <3>1. ~ (lost' = TRUE)
      OBVIOUS
    <3> QED
      BY <1>3, <3>1, Zenon DEF WriteRow
  <2>1. ~ raced /\ ~ lost
    <3>1. lost' = lost
      BY <2>0, Zenon
    <3>2. raced' = raced \/ raced' = (raced \/ \E l \in Lookups : UnderWay(l))
      BY <2>0, Zenon
    <3>3. ~ raced
      BY <3>2
    <3> QED
      BY <3>1, <3>3
  <2>2. \A c \in Call \ {p} : pc'[c] = pc[c] /\ list'[c] = list[c]
    BY <1>3, <1>a, <1>c DEF WriteRow
  <2>3. CASE UNCHANGED db /\ pc'[p] = "done"
    <3>1. \A q \in Patches : /\ Clearing(q)' <=> Clearing(q)
                             /\ Deleting(q)' <=> Deleting(q)
      BY <1>3, <1>c, <2>2, <2>3 DEF WriteRow, Clearing, Deleting
    <3>2. Invalidating' <=> Invalidating
      BY <1>3, <3>1 DEF WriteRow, Invalidating, Clearing
    <3>3. \A l \in Lookups : pc'[l] = pc[l] /\ list'[l] = list[l]
      BY <1>b, <2>2
    <3> QED
      BY <1>3, <2>1, <2>3, <3>1, <3>2, <3>3 DEF WriteRow, Stale, UnderWay, StaleIsDoomed
  <2>4. CASE pc'[p] = "written"
    <3>0. pc'[p] # "done"
      BY <2>4
    <3>1. ~ End(p, "done")
      BY <1>a, <1>c, <3>0
    <3>2. \A l \in Lookups : ~ UnderWay(l)
      BY <2>0, <3>1, Zenon
    <3>3. \A l \in Lookups : pc'[l] = pc[l]
      BY <1>b, <2>2
    <3> QED
      BY <2>4, <3>2, <3>3 DEF Clearing, Deleting, UnderWay
  <2> QED
    BY <1>3, <1>a, <1>c, <2>3, <2>4 DEF WriteRow
<1>4. ASSUME NEW p \in Patches, Forget(p) \/ RedisDel(p) \/ Publish(p) PROVE Goal
  <2>1. ~ raced /\ ~ lost /\ UNCHANGED db
    BY <1>4 DEF Forget, RedisDel, Publish
  <2>2. \A l \in Lookups : pc'[l] = pc[l] /\ list'[l] = list[l]
    BY <1>4, <1>a, <1>b, <1>c DEF Forget, RedisDel, Publish
  <2>3. \A q \in Patches \ {p} : pc'[q] = pc[q]
    BY <1>4, <1>a, <1>c DEF Forget, RedisDel, Publish
  <2>4. Invalidating
    BY <1>4 DEF Forget, RedisDel, Publish, Invalidating
  <2>5. \A n \in Nodes : Stale(l1[n])' => wire'[n] > 0 \/ \E q \in Patches : Clearing(q)'
    <3>1. CASE Forget(p) \/ RedisDel(p)
      <4>1. pc'[p] \in {"del", "publish"}
        BY <1>a, <1>c, <3>1 DEF Forget, RedisDel
      <4> QED
        BY <4>1 DEF Clearing
    <3>2. CASE Publish(p)
      BY <1>d, <3>2 DEF Publish
    <3> QED
      BY <1>4, <3>1, <3>2
  <2>6. Stale(l2)' => \E q \in Patches : Deleting(q)'
    <3>1. CASE RedisDel(p)
      BY <3>1 DEF RedisDel, Stale
    <3>2. CASE Forget(p)
      <4>1. pc'[p] = "del"
        BY <1>a, <1>c, <3>2 DEF Forget
      <4> QED
        BY <4>1 DEF Deleting
    <3>3. CASE Publish(p)
      <4>1. Stale(l2)' => Stale(l2)
        BY <3>3 DEF Publish, Stale
      <4>2. ~ Deleting(p)
        BY <3>3 DEF Publish, Deleting
      <4> QED
        BY <2>1, <2>3, <4>1, <4>2 DEF StaleIsDoomed, Deleting
    <3> QED
      BY <1>4, <3>1, <3>2, <3>3
  <2> QED
    BY <2>1, <2>2, <2>4, <2>5, <2>6 DEF StaleIsDoomed, UnderWay
<1>5. ASSUME NEW p \in Patches, NEW n \in Nodes, FindTenant(p, n) PROVE Goal
  <2>1. ~ raced /\ ~ lost
    BY <1>5 DEF FindTenant
  <2>2. \A c \in Call \ {p} : pc'[c] = pc[c] /\ list'[c] = list[c]
    BY <1>5, <1>a, <1>c DEF FindTenant
  <2>3. pc[p] = "new" /\ pc'[p] = "update"
    BY <1>5, <1>a, <1>c DEF FindTenant
  <2>4. \A q \in Patches : /\ Clearing(q)' <=> Clearing(q)
                           /\ Deleting(q)' <=> Deleting(q)
    BY <1>c, <2>2, <2>3 DEF Clearing, Deleting
  <2>5. Invalidating' <=> Invalidating
    BY <1>5, <2>4 DEF FindTenant, Invalidating, Clearing
  <2>6. \A l \in Lookups : pc'[l] = pc[l] /\ list'[l] = list[l]
    BY <1>b, <1>c, <2>2
  <2> QED
    BY <1>5, <2>1, <2>4, <2>5, <2>6 DEF FindTenant, Stale, UnderWay, StaleIsDoomed
<1>6. ASSUME NEW p \in Patches, Skip(p) PROVE Goal
  BY <1>6 DEF Skip
<1>7. ASSUME NEW n \in Nodes, Message(n) PROVE Goal
  <2>1. Receive(n) /\ ~ raced /\ ~ lost
    BY <1>7 DEF Message, Drop, Receive
  <2>2. \A m \in Nodes : (l1'[m] = l1[m] /\ wire'[m] = wire[m]) \/ l1'[m] = None
    BY <2>1 DEF Receive, TypeOK
  <2>3. \A m \in Nodes : wire'[m] > 0 => wire[m] > 0
    BY <1>d, <2>1 DEF Receive
  <2>4. Invalidating' => Invalidating
    BY <2>1, <2>3 DEF Receive, Invalidating
  <2> QED
    BY <2>1, <2>2, <2>4 DEF Receive, Stale, Clearing, Deleting, UnderWay, StaleIsDoomed
<1>8. ASSUME NEW n \in Nodes, Restart(n) PROVE Goal
  <2> DEFINE here == {c \in Call : at[c] = n}
  <2>1. ~ raced /\ ~ lost /\ UNCHANGED <<db, l2>>
    BY <1>8 DEF Restart
  <2>2. \A p \in Patches : /\ Clearing(p)' <=> Clearing(p)
                           /\ Deleting(p)' <=> Deleting(p)
    <3> SUFFICES ASSUME NEW p \in Patches
                 PROVE  (Clearing(p)' <=> Clearing(p)) /\ (Deleting(p)' <=> Deleting(p))
      OBVIOUS
    <3>1. CASE p \in here
      <4>1. pc'[p] = "done"
        BY <1>8, <1>c, <3>1 DEF Restart
      <4>2. pc[p] \notin {"written", "del", "publish"}
        BY <1>8, <3>1 DEF Restart
      <4> QED
        BY <4>1, <4>2 DEF Clearing, Deleting
    <3>2. CASE p \notin here
      BY <1>8, <1>c, <3>2 DEF Restart, Clearing, Deleting
    <3> QED
      BY <3>1, <3>2
  <2>3. \A m \in Nodes : (l1'[m] = l1[m] /\ wire'[m] = wire[m]) \/ (l1'[m] = None /\ wire'[m] = 0)
    BY <1>8 DEF Restart, TypeOK
  <2>4. Invalidating' => Invalidating
    BY <2>2, <2>3 DEF Invalidating, Clearing
  <2>5. \A l \in Lookups : (pc'[l] = pc[l] /\ list'[l] = list[l]) \/ pc'[l] = "idle"
    BY <1>8, <1>b DEF Restart
  <2> QED
    BY <2>1, <2>2, <2>3, <2>4, <2>5 DEF Stale, UnderWay, StaleIsDoomed
<1>9. CASE Tick
  <2>1. ~ raced /\ ~ lost /\ UNCHANGED <<db, wire, pc, list>>
    BY <1>9 DEF Tick
  <2>2. \A n \in Nodes : Stale(l1[n])' => Stale(l1[n])
    BY <1>9, <2>1 DEF Tick, Older, Stale, TypeOK, Copy
  <2>3. Stale(l2)' => Stale(l2)
    BY <1>9, <2>1 DEF Tick, Older, Stale, TypeOK, Copy
  <2> QED
    BY <2>1, <2>2, <2>3 DEF StaleIsDoomed, Clearing, Deleting, UnderWay, Invalidating
<1>10. CASE UNCHANGED vars
  BY <1>10 DEF vars, StaleIsDoomed, Stale, Clearing, Deleting, UnderWay, Invalidating
<1> QED
  BY <1>1, <1>2, <1>3, <1>4, <1>5, <1>6, <1>7, <1>8, <1>9, <1>10 DEF Next, Lookup, Patch

\* Once a patch is done and its messages have arrived, no copy of an earlier
\* list is left on any node or in Redis, unless a lookup was under way
\* meanwhile or part of an invalidation was lost.
THEOREM CurrentWhenQuietAlways == Spec => []CurrentWhenQuiet
<1>1. Init => StaleIsDoomed
  BY RolesAssumption DEF Init, StaleIsDoomed, Stale, Invalidating, UnderWay, Call
<1>2. StaleIsDoomed => CurrentWhenQuiet
  BY DEF StaleIsDoomed, CurrentWhenQuiet, Copies, Invalidating, Clearing, Deleting
<1> QED
  BY <1>1, <1>2, DoomedInductive, TypeCorrect, PTL DEF Spec

-------------------------------------------------------------------------------

LEMMA TurnsInductive == TypeOK /\ TakingTurns /\ [Next]_vars => TakingTurns'
<1> SUFFICES ASSUME TypeOK, TakingTurns, [Next]_vars, ~ mixed'
             PROVE  /\ \A p, q \in Patches : UnderWay(p)' /\ UnderWay(q)' => p = q
                    /\ \A p \in Patches : pc'[p] = "update" => list'[p] = db' \cup {p}
                    /\ \A v \in DOMAIN age' : v \subseteq db'
  BY DEF TakingTurns, UnderWay
<1>1. /\ pc \in [Call -> LookupStep \cup PatchStep]
      /\ list \in [Call -> List]
      /\ Lookups \cap Patches = {}
      /\ Patches \subseteq Call /\ Lookups \subseteq Call
  BY RolesAssumption DEF TypeOK, Call
<1> USE <1>1
\* A step that leaves the patches and the row alone.
<1>2. ASSUME ~ mixed, db' = db,
             \A p \in Patches : /\ UnderWay(p)' => UnderWay(p)
                                /\ pc'[p] = "update" => pc[p] = "update" /\ list'[p] = list[p],
             DOMAIN age' = DOMAIN age
      PROVE  /\ \A p, q \in Patches : UnderWay(p)' /\ UnderWay(q)' => p = q
             /\ \A p \in Patches : pc'[p] = "update" => list'[p] = db' \cup {p}
             /\ \A v \in DOMAIN age' : v \subseteq db'
  BY <1>2 DEF TakingTurns
<1>3. ASSUME NEW l \in Lookups, Lookup(l) \/ \E n \in Nodes : Miss(l, n)
      PROVE  /\ mixed' = mixed /\ db' = db /\ age' = age
             /\ \A p \in Patches : pc'[p] = pc[p] /\ list'[p] = list[p]
  BY <1>3 DEF Lookup, Miss, RedisGet, Hit, ReadRow, Row, RedisSet, Goto, End, Return
<1>4. ASSUME NEW p \in Patches, NEW n \in Nodes, FindTenant(p, n)
      PROVE  /\ \A q, o \in Patches : UnderWay(q)' /\ UnderWay(o)' => q = o
             /\ \A q \in Patches : pc'[q] = "update" => list'[q] = db' \cup {q}
             /\ \A v \in DOMAIN age' : v \subseteq db'
  <2>1. ~ mixed /\ \A q \in Patches \ {p} : ~ UnderWay(q)
    BY <1>4 DEF FindTenant
  <2>2. \A q \in Patches \ {p} : pc'[q] = pc[q] /\ ~ UnderWay(q)'
    BY <1>4, <2>1 DEF FindTenant, Goto, UnderWay
  <2>3. list'[p] = db' \cup {p} /\ UNCHANGED <<db, age>>
    BY <1>4 DEF FindTenant
  <2> QED
    BY <2>1, <2>2, <2>3 DEF TakingTurns, UnderWay
<1>5. ASSUME NEW p \in Patches, WriteRow(p)
      PROVE  /\ \A q, o \in Patches : UnderWay(q)' /\ UnderWay(o)' => q = o
             /\ \A q \in Patches : pc'[q] = "update" => list'[q] = db' \cup {q}
             /\ \A v \in DOMAIN age' : v \subseteq db'
  <2>1. ~ mixed /\ pc[p] = "update" /\ UnderWay(p) /\ list[p] = db \cup {p}
    BY <1>5 DEF WriteRow, TakingTurns, UnderWay
  <2>2. /\ pc'[p] \in {"written", "done"}
        /\ \A q \in Patches \ {p} : pc'[q] = pc[q] /\ ~ UnderWay(q)
    BY <1>5, <2>1 DEF WriteRow, Goto, End, TakingTurns
  <2>3. \A v \in DOMAIN age' : v \subseteq db'
    BY <1>5, <2>1 DEF WriteRow, TakingTurns
  <2> QED
    BY <2>2, <2>3 DEF UnderWay
<1>6. ASSUME NEW p \in Patches, Forget(p) \/ RedisDel(p) \/ Publish(p) \/ Skip(p)
      PROVE  /\ mixed' = mixed /\ db' = db /\ age' = age
             /\ UnderWay(p) /\ pc'[p] # "update"
             /\ \A q \in Patches \ {p} : pc'[q] = pc[q] /\ list'[q] = list[q]
  BY <1>6 DEF Forget, RedisDel, Publish, Skip, Goto, End, UnderWay
<1>7. ASSUME NEW n \in Nodes, Message(n)
      PROVE  UNCHANGED <<mixed, db, age, pc, list>>
  BY <1>7 DEF Message, Receive, Drop
<1>8. ASSUME NEW n \in Nodes, Restart(n)
      PROVE  /\ mixed' = mixed /\ db' = db /\ age' = age
             /\ \A p \in Patches : \/ pc'[p] = pc[p] /\ list'[p] = list[p]
                                   \/ pc'[p] = "done"
  BY <1>8 DEF Restart
<1>9. CASE Tick
  <2>1. UNCHANGED <<mixed, db, pc, list>> /\ DOMAIN age' = DOMAIN age
    BY <1>9 DEF Tick
  <2> QED
    BY <1>2, <2>1 DEF UnderWay
<1>10. CASE UNCHANGED vars
  BY <1>2, <1>10 DEF vars, UnderWay
<1>11. CASE \E l \in Lookups : Lookup(l) \/ \E n \in Nodes : Miss(l, n)
  BY <1>2, <1>3, <1>11 DEF UnderWay
<1>12. CASE \E p \in Patches : Forget(p) \/ RedisDel(p) \/ Publish(p) \/ Skip(p)
  BY <1>2, <1>6, <1>12 DEF UnderWay
<1>13. CASE \E n \in Nodes : Message(n) \/ Restart(n)
  BY <1>2, <1>7, <1>8, <1>13 DEF UnderWay
<1> QED
  BY <1>4, <1>5, <1>9, <1>10, <1>11, <1>12, <1>13 DEF Next, Patch

\* As long as no two patches overlapped, a patch that wrote the row finds in it
\* the role of every patch that wrote it before.
THEOREM PatchesAlwaysAddUp == Spec => []PatchesAddUp
<1>1. Init => TakingTurns
  BY RolesAssumption DEF Init, TakingTurns, UnderWay, Call
<1>2. TakingTurns => PatchesAddUp
  BY DEF TakingTurns, PatchesAddUp
<1> QED
  BY <1>1, <1>2, TurnsInductive, TypeCorrect, PTL DEF Spec

-------------------------------------------------------------------------------
(* The sessions in the same run *)

\* The proofs about Sessions, read in the variables of MCAccess.
SessionsProofs == INSTANCE Sessions_proofs WITH pc <- step

\* What the sessions do in the run is what they do on their own.
LEMMA SessionsAreThemselves == AccessSpec => SessionsProofs!Spec
<1>1. AccessInit => SessionsProofs!Init
  BY DEF AccessInit, Sessions!Init, SessionsProofs!Init, Sessions!Tokens, SessionsProofs!Tokens
<1>2. [AccessNext]_accessVars => [Sessions!Next]_Sessions!vars
  BY DEF AccessNext, RolesNext, SessionsNext, accessVars, sessionVars, vars,
         Sessions!vars, Sessions!store, Sessions!history
<1>3. Sessions!Next => SessionsProofs!Next
  <2>1. ASSUME NEW c \in Calls, NEW t
        PROVE  /\ Sessions!Login(c) => SessionsProofs!Login(c)
               /\ Sessions!Refresh(c, t) => SessionsProofs!Refresh(c, t)
               /\ Sessions!Guarded(c, t) => SessionsProofs!Guarded(c, t)
               /\ Sessions!Exists(c) => SessionsProofs!Exists(c)
               /\ Sessions!FindToken(c) => SessionsProofs!FindToken(c)
               /\ Sessions!Purge(c) => SessionsProofs!Purge(c)
               /\ Sessions!Revoke(c) => SessionsProofs!Revoke(c)
               /\ Sessions!CheckAccount(c) => SessionsProofs!CheckAccount(c)
               /\ Sessions!SaveToken(c) => SessionsProofs!SaveToken(c)
               /\ Sessions!RevokeAtLogout(c) => SessionsProofs!RevokeAtLogout(c)
               /\ Sessions!Blacklist(c) => SessionsProofs!Blacklist(c)
    <3>1. Sessions!Login(c) => SessionsProofs!Login(c)
      <4>1. \A S : Sessions!Cardinality(S) = SessionsProofs!Cardinality(S)
        BY DEF Sessions!Cardinality, SessionsProofs!Cardinality
      <4> QED
        BY <4>1 DEF Sessions!Login, SessionsProofs!Login, Sessions!Begin, SessionsProofs!Begin,
           Sessions!Goto, SessionsProofs!Goto, Sessions!Logins, SessionsProofs!Logins,
           Sessions!Tokens, SessionsProofs!Tokens, Sessions!store, SessionsProofs!store,
           Sessions!history, SessionsProofs!history
    <3>2. Sessions!Refresh(c, t) => SessionsProofs!Refresh(c, t)
      BY DEF Sessions!Refresh, SessionsProofs!Refresh, Sessions!Begin, SessionsProofs!Begin,
           Sessions!Goto, SessionsProofs!Goto, Sessions!store, SessionsProofs!store,
           Sessions!history, SessionsProofs!history
    <3>3. Sessions!Guarded(c, t) => SessionsProofs!Guarded(c, t)
      BY DEF Sessions!Guarded, SessionsProofs!Guarded, Sessions!JwtValid, SessionsProofs!JwtValid,
           Sessions!Begin, SessionsProofs!Begin, Sessions!Goto, SessionsProofs!Goto,
           Sessions!store, SessionsProofs!store, Sessions!history, SessionsProofs!history
    <3>4. Sessions!Exists(c) => SessionsProofs!Exists(c)
      BY DEF Sessions!Exists, SessionsProofs!Exists, Sessions!Blacklisted,
           SessionsProofs!Blacklisted, Sessions!Admit, SessionsProofs!Admit, Sessions!End,
           SessionsProofs!End, Sessions!Goto, SessionsProofs!Goto, Sessions!store,
           SessionsProofs!store
    <3>5. Sessions!FindToken(c) => SessionsProofs!FindToken(c)
      BY DEF Sessions!FindToken, SessionsProofs!FindToken, Sessions!Found, SessionsProofs!Found,
           Sessions!End, SessionsProofs!End, Sessions!Goto, SessionsProofs!Goto, Sessions!store,
           SessionsProofs!store, Sessions!Tokens, SessionsProofs!Tokens
    <3>6. Sessions!Purge(c) => SessionsProofs!Purge(c)
      BY DEF Sessions!Purge, SessionsProofs!Purge, Sessions!Goto, SessionsProofs!Goto,
           Sessions!Tokens, SessionsProofs!Tokens, Sessions!Rotating, SessionsProofs!Rotating
    <3>7. Sessions!Revoke(c) => SessionsProofs!Revoke(c)
      BY DEF Sessions!Revoke, SessionsProofs!Revoke, Sessions!Goto, SessionsProofs!Goto,
           Sessions!history, SessionsProofs!history
    <3>8. Sessions!CheckAccount(c) => SessionsProofs!CheckAccount(c)
      BY DEF Sessions!CheckAccount, SessionsProofs!CheckAccount, Sessions!Goto,
           SessionsProofs!Goto, Sessions!End, SessionsProofs!End, Sessions!store,
           SessionsProofs!store
    <3>9. Sessions!SaveToken(c) => SessionsProofs!SaveToken(c)
      BY DEF Sessions!SaveToken, SessionsProofs!SaveToken, Sessions!End, SessionsProofs!End,
           Sessions!Goto, SessionsProofs!Goto, Sessions!Tokens, SessionsProofs!Tokens
    <3>10. Sessions!RevokeAtLogout(c) => SessionsProofs!RevokeAtLogout(c)
      BY DEF Sessions!RevokeAtLogout, SessionsProofs!RevokeAtLogout, Sessions!Goto,
           SessionsProofs!Goto, Sessions!history, SessionsProofs!history
    <3>11. Sessions!Blacklist(c) => SessionsProofs!Blacklist(c)
      BY DEF Sessions!Blacklist, SessionsProofs!Blacklist, Sessions!Ban, SessionsProofs!Ban,
           Sessions!Remaining, SessionsProofs!Remaining, Sessions!End, SessionsProofs!End,
           Sessions!Goto, SessionsProofs!Goto
    <3> QED
      BY <3>1, <3>2, <3>3, <3>4, <3>5, <3>6, <3>7, <3>8, <3>9, <3>10, <3>11
  <2>2. ASSUME NEW c \in Calls
        PROVE  /\ Sessions!Login(c) => SessionsProofs!Login(c)
               /\ Sessions!Step(c) => SessionsProofs!Step(c)
    BY <2>1 DEF Sessions!Step, SessionsProofs!Step
  <2>3. /\ Sessions!Tick => SessionsProofs!Tick
        /\ Sessions!Crash => SessionsProofs!Crash
    BY DEF Sessions!Tick, SessionsProofs!Tick, Sessions!Crash, SessionsProofs!Crash,
           Sessions!store, SessionsProofs!store, Sessions!history, SessionsProofs!history
  <2> QED
    BY <2>1, <2>2, <2>3 DEF Sessions!Next, SessionsProofs!Next, Sessions!Tokens, SessionsProofs!Tokens
<1>4. [AccessNext]_accessVars => [SessionsProofs!Next]_SessionsProofs!vars
  BY <1>2, <1>3 DEF Sessions!vars, SessionsProofs!vars, Sessions!store, SessionsProofs!store,
                    Sessions!history, SessionsProofs!history
<1> QED
  BY <1>1, <1>4, PTL DEF AccessSpec, SessionsProofs!Spec

\* A refresh token is exchanged for one pair unless two rotations found it live,
\* and a detected reuse is the end of everything that was in the table but for
\* what rotations past their check make of it (AuthService.refresh).
THEOREM RotationAlwaysSafe == AccessSpec => []RotationIsSafe
<1>1. SessionsProofs!Parameters
  BY SessionsAssumption DEF SessionsProofs!Parameters
<1>2. SessionsProofs!RotationIsSafe => RotationIsSafe
  <2>1. \A S : Sessions!Cardinality(S) = SessionsProofs!Cardinality(S)
    BY DEF Sessions!Cardinality, SessionsProofs!Cardinality
  <2> QED
    BY <2>1 DEF RotationIsSafe, Sessions!RotationIsSafe, SessionsProofs!RotationIsSafe,
       Sessions!ExchangedOnceUnlessOverlap, SessionsProofs!ExchangedOnceUnlessOverlap,
       Sessions!ReuseEndsTheFamily, SessionsProofs!ReuseEndsTheFamily,
       Sessions!Tokens, SessionsProofs!Tokens
<1> QED
  BY <1>1, <1>2, SessionsAreThemselves, SessionsProofs!Rotation, PTL

\* A token that was logged out while Redis answered is refused for the rest of
\* its life (TokenBlacklistService; the guard in front of every handler).
THEOREM LogoutAlwaysHolds == AccessSpec => LoggedOutIsRefused
<1>1. SessionsProofs!Parameters
  BY SessionsAssumption DEF SessionsProofs!Parameters
<1>2. [\A c \in Calls : SessionsProofs!Admitted(c) /\ token[c] \in loggedOut
          => now >= born[token[c]] + AccessTTL]_SessionsProofs!vars
      => [\A c \in Calls : Sessions!Admitted(c) /\ token[c] \in loggedOut
          => now >= born[token[c]] + AccessTTL]_Sessions!vars
  BY DEF Sessions!Admitted, SessionsProofs!Admitted, Sessions!Admit, SessionsProofs!Admit,
         Sessions!Blacklisted, SessionsProofs!Blacklisted, Sessions!End, SessionsProofs!End,
         Sessions!Goto, SessionsProofs!Goto, Sessions!vars, SessionsProofs!vars,
         Sessions!store, SessionsProofs!store, Sessions!history, SessionsProofs!history
<1> QED
  BY <1>1, <1>2, SessionsAreThemselves, SessionsProofs!LogoutHolds, PTL
     DEF LoggedOutIsRefused, Sessions!LoggedOutIsRefused, SessionsProofs!LoggedOutIsRefused
===============================================================================
