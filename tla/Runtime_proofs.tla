---------------------------- MODULE Runtime_proofs ----------------------------
(***************************************************************************)
(* Proofs about what runs, for any constants that the assumptions allow:    *)
(* the executor of workflows (its steps are accounted for, none starts      *)
(* after a failure, it does to its row what WorkflowRow says), the flow      *)
(* engine (each result has a reason and nothing that was due lacks one), the *)
(* generator with its conversations, the migrations (each version has one    *)
(* schema), the types of all four, and the validators: what recursion over   *)
(* any graph, machine or suite comes to.                                     *)
(***************************************************************************)
EXTENDS MCRuntime, FiniteSetTheorems, WellFoundedInduction, TLAPS

-------------------------------------------------------------------------------
(* The elements of a sequence that are in a set. *)

\* pos lists the numbers of P from the smallest to the greatest.
Lists(pos, P) == pos = [i \in 1 .. Cardinality(P) |-> Nth(P, i)]

\* Among goes through the positions of the elements it keeps, each of them once.
LEMMA PositionsOf ==
  ASSUME NEW P, IsFiniteSet(P), P \subseteq Int, NEW pos, Lists(pos, P)
  PROVE  /\ Cardinality(P) \in Nat
         /\ pos \in [1 .. Cardinality(P) -> P]
         /\ \A i, j \in 1 .. Cardinality(P) : pos[i] = pos[j] => i = j
         /\ \A p \in P : \E i \in 1 .. Cardinality(P) : pos[i] = p
<1> DEFINE size == Cardinality(P)
           below == [p \in P |-> {q \in P : q < p}]
           rank == [p \in P |-> Cardinality(below[p])]
<1>a. \A p \in P : p \in Int
  OBVIOUS
<1>b. pos = [i \in 1 .. size |-> pos[i]]
  BY DEF Lists
<1>1. IsFiniteSet(P)
  OBVIOUS
<1>2. size \in Nat
  BY <1>1, FS_CardinalityType
<1>c. /\ \A p \in P : below[p] \in SUBSET P /\ p \notin below[p]
      /\ \A p, q \in P : q \in below[p] <=> q < p
  BY <1>a
<1>d. \A p \in P : below[p] = {q \in P : q < p}
  OBVIOUS
<1> HIDE DEF below, size
<1>3. ASSUME NEW p \in P
      PROVE  IsFiniteSet(below[p]) /\ Cardinality(below[p]) \in 0 .. size - 1
  <2>1. IsFiniteSet(below[p]) /\ Cardinality(below[p]) <= size /\ Cardinality(below[p]) # size
    BY <1>1, <1>c, FS_Subset DEF size
  <2>2. Cardinality(below[p]) \in Nat
    BY <2>1, FS_CardinalityType
  <2> QED
    BY <1>2, <2>1, <2>2
<1>4. ASSUME NEW p \in P, NEW q \in P, p < q PROVE rank[p] < rank[q]
  <2>1. below[p] \in SUBSET below[q] /\ p \in below[q] /\ p \notin below[p]
    <3>1. ASSUME NEW o \in below[p] PROVE o \in below[q]
      <4>1. o \in P /\ o < p
        BY <1>c
      <4>2. o \in Int /\ p \in Int /\ q \in Int
        BY <1>a, <4>1
      <4>3. o < q
        BY <1>4, <4>1, <4>2
      <4> QED
        BY <1>c, <4>1, <4>3
    <3> QED
      BY <1>4, <1>c, <3>1
  <2>2. Cardinality(below[p]) <= Cardinality(below[q]) /\ Cardinality(below[p]) # Cardinality(below[q])
    BY <1>3, <2>1, FS_Subset
  <2>3. Cardinality(below[p]) \in Int /\ Cardinality(below[q]) \in Int
    <3>1. Cardinality(below[p]) \in 0 .. size - 1 /\ Cardinality(below[q]) \in 0 .. size - 1
      BY <1>3
    <3> QED
      BY <3>1
  <2> QED
    BY <2>2, <2>3
<1>5. rank \in [P -> 0 .. size - 1]
  BY <1>3
<1>6. \A p, q \in P : rank[p] = rank[q] => p = q
  <2> SUFFICES ASSUME NEW p \in P, NEW q \in P, p # q PROVE rank[p] # rank[q]
    OBVIOUS
  <2>1. rank[p] \in Int /\ rank[q] \in Int
    BY <1>2, <1>5
  <2>2. p < q \/ q < p
    BY <1>a
  <2>3. rank[p] < rank[q] \/ rank[q] < rank[p]
    BY <1>4, <2>2
  <2> HIDE DEF rank
  <2> QED
    BY <2>1, <2>3
<1>7. \A k \in 0 .. size - 1 : \E p \in P : rank[p] = k
  <2>1. IsFiniteSet(0 .. size - 1) /\ Cardinality(0 .. size - 1) = size
    BY <1>2, FS_Interval
  <2>2. rank \in Injection(P, 0 .. size - 1)
    BY <1>5, <1>6 DEF Injection, IsInjective
  <2>3. rank \in Surjection(P, 0 .. size - 1)
    BY <1>1, <2>1, <2>2, FS_Injection DEF size
  <2> QED
    BY <2>3 DEF Surjection
<1>8. ASSUME NEW i \in 1 .. size PROVE pos[i] \in P /\ rank[pos[i]] = i - 1
  <2>1. i - 1 \in 0 .. size - 1
    BY <1>2
  <2>2. PICK p \in P : rank[p] = i - 1
    BY <1>7, <2>1
  <2>3. \A q \in P : rank[q] = Cardinality({o \in P : o < q})
    BY <1>d
  <2> HIDE DEF rank
  <2> QED
    BY <2>2, <2>3 DEF Lists, Nth, size
<1> HIDE DEF rank
<1>9. pos \in [1 .. size -> P]
  BY <1>8, <1>b
<1>10. \A i, j \in 1 .. size : pos[i] = pos[j] => i = j
  <2> SUFFICES ASSUME NEW i \in 1 .. size, NEW j \in 1 .. size, pos[i] = pos[j] PROVE i = j
    OBVIOUS
  <2>1. i - 1 = j - 1
    BY <1>8
  <2> QED
    BY <1>2, <2>1
<1>11. \A p \in P : \E i \in 1 .. size : pos[i] = p
  <2> SUFFICES ASSUME NEW p \in P PROVE \E i \in 1 .. size : pos[i] = p
    OBVIOUS
  <2>1. rank[p] \in 0 .. size - 1
    BY <1>5
  <2> DEFINE i == rank[p] + 1
  <2>2. i \in 1 .. size /\ i - 1 = rank[p]
    BY <1>2, <2>1
  <2> HIDE DEF i
  <2>3. pos[i] \in P /\ rank[pos[i]] = rank[p]
    BY <1>8, <2>2
  <2> QED
    BY <1>6, <2>2, <2>3
<1> QED
  BY <1>2, <1>9, <1>10, <1>11 DEF size

\* Among keeps the elements that are in the set, all of them and no other; it
\* repeats none that the sequence does not repeat.
LEMMA AmongThem ==
  ASSUME NEW T, NEW seq \in Seq(T), NEW S
  PROVE  /\ Among(seq, S) \in Seq(T)
         /\ Range(Among(seq, S)) = Range(seq) \cap S
         /\ (\A i, j \in 1 .. Len(seq) : seq[i] = seq[j] /\ seq[i] \in S => i = j)
              => \A i, j \in 1 .. Len(Among(seq, S)) : Among(seq, S)[i] = Among(seq, S)[j] => i = j
<1> DEFINE P == {p \in DOMAIN seq : seq[p] \in S}
           n == Cardinality(P)
           pos == [i \in 1 .. n |-> Nth(P, i)]
           a == Among(seq, S)
<1>1. a = [i \in 1 .. n |-> seq[pos[i]]]
  BY DEF Among
<1>2. /\ n \in Nat
      /\ pos \in [1 .. n -> P]
      /\ \A i, j \in 1 .. n : pos[i] = pos[j] => i = j
      /\ \A p \in P : \E i \in 1 .. n : pos[i] = p
  <2>1. P \subseteq Int /\ IsFiniteSet(P)
    <3>1. Len(seq) \in Int /\ P \in SUBSET (1 .. Len(seq))
      OBVIOUS
    <3>2. IsFiniteSet(1 .. Len(seq))
      BY <3>1, FS_Interval
    <3> HIDE DEF P
    <3>3. IsFiniteSet(P)
      BY <3>1, <3>2, FS_Subset
    <3> QED
      BY <3>1, <3>3
  <2>2. Lists(pos, P)
    BY DEF Lists
  <2> HIDE DEF P, pos
  <2> QED
    BY <2>1, <2>2, PositionsOf
<1>3. \A p \in P : p \in 1 .. Len(seq) /\ seq[p] \in S /\ seq[p] \in T
  OBVIOUS
<1>4. \A p \in 1 .. Len(seq) : seq[p] \in S => p \in P
  OBVIOUS
<1>5. DOMAIN seq = 1 .. Len(seq)
  OBVIOUS
<1> HIDE DEF P, n, pos, a
<1>6. a \in [1 .. n -> T]
  BY <1>1, <1>2, <1>3
<1>7. a \in Seq(T) /\ Len(a) = n /\ DOMAIN a = 1 .. n
  BY <1>2, <1>6
<1>8. Range(a) = Range(seq) \cap S
  <2>1. ASSUME NEW x \in Range(a) PROVE x \in Range(seq) \cap S
    BY <1>1, <1>2, <1>3, <1>5, <1>7, <2>1 DEF Range
  <2>2. ASSUME NEW x \in Range(seq) \cap S PROVE x \in Range(a)
    <3>1. PICK p \in P : seq[p] = x
      BY <1>4, <1>5, <2>2 DEF Range
    <3>2. PICK i \in 1 .. n : pos[i] = p
      BY <1>2
    <3> QED
      BY <1>1, <1>7, <3>1, <3>2 DEF Range
  <2> QED
    BY <2>1, <2>2
<1>9. ASSUME \A i, j \in 1 .. Len(seq) : seq[i] = seq[j] /\ seq[i] \in S => i = j,
             NEW i \in 1 .. Len(a), NEW j \in 1 .. Len(a), a[i] = a[j]
      PROVE  i = j
  <2>1. pos[i] \in P /\ pos[j] \in P /\ seq[pos[i]] = seq[pos[j]]
    BY <1>1, <1>2, <1>7, <1>9
  <2>2. pos[i] = pos[j]
    BY <1>3, <1>9, <2>1
  <2> QED
    BY <1>2, <1>7, <2>2
<1> QED
  BY <1>7, <1>8, <1>9 DEF a

LEMMA Joined ==
  ASSUME NEW T, NEW s \in Seq(T), NEW t \in Seq(T)
  PROVE  Range(s \o t) = Range(s) \cup Range(t)
<1>1. /\ DOMAIN s = 1 .. Len(s) /\ DOMAIN t = 1 .. Len(t) /\ DOMAIN (s \o t) = 1 .. Len(s) + Len(t)
      /\ Len(s) \in Nat /\ Len(t) \in Nat
      /\ \A i \in 1 .. Len(s) + Len(t) : (s \o t)[i] = IF i <= Len(s) THEN s[i] ELSE t[i - Len(s)]
  OBVIOUS
<1>2. ASSUME NEW x \in Range(s \o t) PROVE x \in Range(s) \cup Range(t)
  <2>1. PICK i \in 1 .. Len(s) + Len(t) : x = (s \o t)[i]
    BY <1>1, <1>2 DEF Range
  <2>2. i <= Len(s) => i \in 1 .. Len(s)
    BY <1>1
  <2>3. ~ (i <= Len(s)) => i - Len(s) \in 1 .. Len(t)
    BY <1>1
  <2> QED
    BY <1>1, <2>1, <2>2, <2>3 DEF Range
<1>3. ASSUME NEW x \in Range(s) PROVE x \in Range(s \o t)
  <2>1. PICK i \in 1 .. Len(s) : x = s[i]
    BY <1>1, <1>3 DEF Range
  <2>2. i \in 1 .. Len(s) + Len(t) /\ i <= Len(s)
    BY <1>1
  <2> QED
    BY <1>1, <2>1, <2>2 DEF Range
<1>4. ASSUME NEW x \in Range(t) PROVE x \in Range(s \o t)
  <2>1. PICK i \in 1 .. Len(t) : x = t[i]
    BY <1>1, <1>4 DEF Range
  <2>2. i + Len(s) \in 1 .. Len(s) + Len(t) /\ ~ (i + Len(s) <= Len(s)) /\ (i + Len(s)) - Len(s) = i
    BY <1>1
  <2> QED
    BY <1>1, <2>1, <2>2 DEF Range
<1> QED
  BY <1>2, <1>3, <1>4

-------------------------------------------------------------------------------
(* Types. *)

\* What the definition that runs is made of.
LEMMA Definition ==
  ASSUME wf \in Workflows
  PROVE  /\ wf.order \in Seq(Ids)
         /\ \A i, j \in 1 .. Len(wf.order) : wf.order[i] = wf.order[j] => i = j
         /\ wf.deps \in [Ids -> SUBSET Ids]
         /\ \A S \in (SUBSET Ids) \ {{}} : \E s \in S : wf.deps[s] \cap S = {}
         /\ wf.guarded \in SUBSET Ids
         /\ wf.branch \in [Ids -> {NoBranch} \cup (Ids \X Ids)]
<1>1. WorkflowDef(wf)
  BY ExecutorAssumption
<1>2. wf.order \in Seq(Ids)
  BY <1>1 DEF WorkflowDef, Ids, Range
<1> QED
  BY <1>1, <1>2 DEF WorkflowDef, Ids, IsInjective

LEMMA StepsAreFinite ==
  ASSUME wf \in Workflows
  PROVE  IsFiniteSet(Ids)
<1>1. wf.order \in Seq(Ids) /\ Len(wf.order) \in Int
  BY Definition
<1>2. wf.order \in Surjection(1 .. Len(wf.order), Ids)
  BY <1>1 DEF Surjection, Ids, Range
<1>3. IsFiniteSet(1 .. Len(wf.order))
  BY <1>1, FS_Interval
<1> QED
  BY <1>2, <1>3, FS_Surjection

\* The order of the definition goes through any set of its steps.
LEMMA InOrder ==
  ASSUME wf \in Workflows, NEW S \in SUBSET Ids
  PROVE  /\ Among(wf.order, S) \in Seq(Ids)
         /\ Range(Among(wf.order, S)) = S
         /\ \A i, j \in 1 .. Len(Among(wf.order, S)) :
               Among(wf.order, S)[i] = Among(wf.order, S)[j] => i = j
<1>1. wf.order \in Seq(Ids) /\ \A i, j \in 1 .. Len(wf.order) : wf.order[i] = wf.order[j] => i = j
  BY Definition
<1>2. Range(wf.order) = Ids
  BY DEF Ids
<1>3. /\ Among(wf.order, S) \in Seq(Ids)
      /\ Range(Among(wf.order, S)) = Range(wf.order) \cap S
  BY <1>1, AmongThem
<1>4. \A i, j \in 1 .. Len(Among(wf.order, S)) : Among(wf.order, S)[i] = Among(wf.order, S)[j] => i = j
  BY <1>1, AmongThem
<1>5. Range(wf.order) \cap S = S
  BY <1>2
<1> QED
  BY <1>3, <1>4, <1>5

\* enqueueSuccessors takes one from the counters of the successors, and adds to
\* ready those whose counter says that nothing is left to wait for.
LEMMA Enqueued ==
  ASSUME TypeOK, NEW step, NEW done, EnqueueSuccessors(step, done)
  PROVE  /\ inDegree' \in [Ids -> Int] /\ ready' \in Seq(Ids)
         /\ \A s \in Successors(step, done) : inDegree'[s] = inDegree[s] - 1
         /\ \A s \in Ids \ Successors(step, done) : inDegree'[s] = inDegree[s]
         /\ Range(ready') = Range(ready) \cup {s \in Successors(step, done) : inDegree[s] - 1 <= 0}
<1> DEFINE S == {s \in Successors(step, done) : inDegree[s] - 1 <= 0}
           a == Among(wf.order, S)
<1>1. S \in SUBSET Ids /\ Successors(step, done) \in SUBSET Ids
  BY DEF Successors
<1>2. inDegree \in [Ids -> Int] /\ ready \in Seq(Ids) /\ wf \in Workflows
  BY DEF TypeOK
<1>3. inDegree' = [s \in Ids |-> IF s \in Successors(step, done) THEN inDegree[s] - 1 ELSE inDegree[s]]
  BY DEF EnqueueSuccessors
<1>4. ready' = ready \o a
  BY DEF EnqueueSuccessors
<1> HIDE DEF S
<1>5. a \in Seq(Ids) /\ Range(a) = S
  BY <1>1, <1>2, InOrder
<1> HIDE DEF a
<1>6. Range(ready') = Range(ready) \cup S
  BY <1>2, <1>4, <1>5, Joined
<1> QED
  BY <1>1, <1>2, <1>3, <1>4, <1>5, <1>6 DEF S

\* The types of an entry of work and of an entry of history.
Works == [at : {"acting", "approving", "settled"}, status : StepStatus,
          attempts : 1 .. MaxAttempts, rejected : BOOLEAN, record : Nat]
Entries == [step : Ids, status : StepStatus]

\* What TakeBatch makes of the steps in ready that are not done.
LEMMA Taken ==
  ASSUME TypeOK, TakeBatch
  PROVE  \E fresh \in Seq(Ids), n \in Nat \ {0} :
           /\ fresh = Among(ready, Ids \ Done)
           /\ n <= Len(fresh)
           /\ batch' \in Seq(Ids) /\ Len(batch') = n
           /\ \A i \in 1 .. n : batch'[i] = fresh[i]
           /\ ready' \in Seq(Ids) /\ Len(ready') = Len(fresh) - n
           /\ \A i \in 1 .. Len(fresh) - n : ready'[i] = fresh[i + n]
           /\ work' \in Seq(Works) /\ Len(work') = n
           /\ \A i \in 1 .. n : work'[i] = [at |-> "acting", status |-> "running", attempts |-> 1,
                                          rejected |-> FALSE, record |-> Len(history) + i]
           /\ history' \in Seq(Entries) /\ Len(history') = Len(history) + n
           /\ \A i \in 1 .. Len(history) : history'[i] = history[i]
           /\ \A i \in 1 .. n : history'[Len(history) + i] = [step |-> fresh[i], status |-> "running"]
<1> DEFINE fresh == Among(ready, Ids \ Done)
           n == IF Len(fresh) < MaxConcurrency THEN Len(fresh) ELSE MaxConcurrency
           new == [i \in 1 .. n |-> [step |-> fresh[i], status |-> "running"]]
<1>1. /\ ready \in Seq(Ids) /\ history \in Seq(Entries) /\ Len(history) \in Nat
      /\ MaxConcurrency \in Nat \ {0} /\ MaxAttempts \in Nat \ {0}
  BY ExecutorAssumption DEF TypeOK, Entries
<1>2. fresh \in Seq(Ids)
  BY <1>1, AmongThem
<1>3. /\ fresh # <<>>
      /\ batch' = SubSeq(fresh, 1, n)
      /\ ready' = SubSeq(fresh, n + 1, Len(fresh))
      /\ work' = [i \in 1 .. n |-> [at |-> "acting", status |-> "running", attempts |-> 1,
                                    rejected |-> FALSE, record |-> Len(history) + i]]
      /\ history' = history \o new
  BY DEF TakeBatch
<1>4. UNCHANGED wf
  BY DEF TakeBatch
<1> HIDE DEF fresh
<1>5. n \in Nat \ {0} /\ n <= Len(fresh) /\ Len(fresh) \in Nat
  BY <1>1, <1>2, <1>3
<1> HIDE DEF n
<1>6. \A i \in 1 .. n : fresh[i] \in Ids
  BY <1>2, <1>5
<1>7. new \in Seq(Entries) /\ Len(new) = n
  <2>1. new \in [1 .. n -> Entries]
    BY <1>6 DEF Entries, StepStatus
  <2> QED
    BY <1>5, <2>1
<1>8. batch' \in Seq(Ids) /\ Len(batch') = n /\ \A i \in 1 .. n : batch'[i] = fresh[i]
  BY <1>2, <1>3, <1>5
<1>9. /\ ready' \in Seq(Ids) /\ Len(ready') = Len(fresh) - n
      /\ \A i \in 1 .. Len(fresh) - n : ready'[i] = fresh[i + n]
  BY <1>2, <1>3, <1>5
<1>10. /\ work' \in Seq(Works) /\ Len(work') = n
       /\ \A i \in 1 .. n : work'[i] = [at |-> "acting", status |-> "running", attempts |-> 1,
                                      rejected |-> FALSE, record |-> Len(history) + i]
  <2>1. work' \in [1 .. n -> Works]
    BY <1>1, <1>3, <1>5 DEF Works, StepStatus
  <2>2. work' \in Seq(Works) /\ Len(work') = n
    BY <1>5, <2>1
  <2> QED
    BY <1>3, <2>2
<1>11. /\ history' \in Seq(Entries) /\ Len(history') = Len(history) + n
       /\ \A i \in 1 .. Len(history) : history'[i] = history[i]
       /\ \A i \in 1 .. n : history'[Len(history) + i] = [step |-> fresh[i], status |-> "running"]
  <2>1. \A i \in 1 .. n : new[i] = [step |-> fresh[i], status |-> "running"]
    OBVIOUS
  <2> HIDE DEF new
  <2>2. history' \in Seq(Entries) /\ Len(history') = Len(history) + n
    <3>1. history \o new \in Seq(Entries)
      BY <1>1, <1>7
    <3>2. Len(history \o new) = Len(history) + Len(new)
      BY <1>1, <1>7
    <3> QED
      BY <1>3, <1>7, <3>1, <3>2
  <2>3. \A i \in 1 .. Len(history) : history'[i] = history[i]
    BY <1>1, <1>3, <1>5, <1>7
  <2>4. ASSUME NEW i \in 1 .. n PROVE history'[Len(history) + i] = new[i]
    <3>1. /\ Len(history) + i \in 1 .. Len(history) + n /\ ~ (Len(history) + i <= Len(history))
          /\ (Len(history) + i) - Len(history) = i
      BY <1>1, <1>5
    <3> QED
      BY <1>1, <1>3, <1>7, <3>1
  <2> QED
    BY <2>1, <2>2, <2>3, <2>4
<1> QED
  BY <1>2, <1>5, <1>8, <1>9, <1>10, <1>11 DEF fresh

\* What a step of processStep does to its own entry, and to no other.
LEMMA Processed ==
  ASSUME TypeOK, NEW i \in 1 .. Len(work), ProcessStep(i)
  PROVE  /\ UNCHANGED Kept
         /\ work[i].at # "settled"
         /\ work' \in Seq(Works) /\ Len(work') = Len(work)
         /\ \A j \in 1 .. Len(work) \ {i} : work'[j] = work[j]
         /\ work'[i].record = work[i].record
         /\ history' \in Seq(Entries) /\ Len(history') = Len(history)
         /\ \A k \in 1 .. Len(history) : history'[k].step = history[k].step
         /\ \A k \in 1 .. Len(history) \ {work[i].record} : history'[k] = history[k]
         /\ \/ /\ work'[i].at = "settled"
               /\ work'[i].rejected <=> work'[i].status = "failed"
               /\ work'[i].status # "running"
               /\ work'[i].status = "skipped" => batch[i] \in wf.guarded
               /\ work[i].record \in 1 .. Len(history) => history'[work[i].record].status = work'[i].status
               /\ row' = IF work'[i].status = "awaiting_approval" THEN "awaiting_approval" ELSE row
            \/ /\ work'[i].at # "settled" /\ work'[i].status = work[i].status
               /\ UNCHANGED row
<1>1. /\ work \in Seq(Works) /\ history \in Seq(Entries)
      /\ work[i] \in Works /\ work[i].record \in Nat /\ work[i].attempts \in 1 .. MaxAttempts
      /\ MaxAttempts \in Nat
  <2>1. work \in Seq(Works) /\ history \in Seq(Entries)
    BY DEF TypeOK, Works, Entries
  <2>2. work[i] \in Works
    BY <2>1
  <2> QED
    BY ExecutorAssumption, <2>1, <2>2 DEF Works
<1>2. ASSUME NEW s \in StepStatus, Record(i, s)
      PROVE  /\ history' \in Seq(Entries) /\ Len(history') = Len(history)
             /\ \A k \in 1 .. Len(history) : history'[k].step = history[k].step
             /\ \A k \in 1 .. Len(history) \ {work[i].record} : history'[k] = history[k]
             /\ work[i].record \in 1 .. Len(history) => history'[work[i].record].status = s
  <2>1. history' = [history EXCEPT ![work[i].record].status = s]
    BY <1>2 DEF Record
  <2>2. \A k \in 1 .. Len(history) : history[k] \in Entries
    BY <1>1
  <2>3. DOMAIN history = 1 .. Len(history) /\ Len(history) \in Nat
    BY <1>1
  <2>4. history' = [k \in 1 .. Len(history) |->
                      IF k = work[i].record THEN [history[k] EXCEPT !.status = s] ELSE history[k]]
    BY <2>1, <2>3
  <2>5. ASSUME NEW k \in 1 .. Len(history)
        PROVE  history'[k] \in Entries /\ history'[k].step = history[k].step
    BY <1>2, <2>2, <2>4 DEF Entries
  <2>6. history' \in [1 .. Len(history) -> Entries]
    BY <2>4, <2>5
  <2>7. history' \in Seq(Entries) /\ Len(history') = Len(history)
    BY <2>3, <2>6
  <2>8. work[i].record \in 1 .. Len(history) => history'[work[i].record].status = s
    BY <2>2, <2>4 DEF Entries
  <2> QED
    BY <2>4, <2>5, <2>7, <2>8
<1>3. ASSUME NEW s \in StepStatus, NEW b \in BOOLEAN, Settle(i, s, b)
      PROVE  /\ work' \in Seq(Works) /\ Len(work') = Len(work)
             /\ \A j \in 1 .. Len(work) \ {i} : work'[j] = work[j]
             /\ work'[i].record = work[i].record
             /\ work'[i].at = "settled" /\ work'[i].status = s /\ work'[i].rejected = b
             /\ Record(i, s)
  <2> DEFINE e == [work[i] EXCEPT !.at = "settled", !.status = s, !.rejected = b]
  <2>1. work' = [work EXCEPT ![i] = e] /\ Record(i, s)
    BY <1>3 DEF Settle
  <2>2. e \in Works /\ e.record = work[i].record /\ e.at = "settled" /\ e.status = s /\ e.rejected = b
    BY <1>1, <1>3 DEF Works
  <2> HIDE DEF e
  <2>3. work' \in Seq(Works) /\ Len(work') = Len(work)
    BY <1>1, <2>1, <2>2
  <2>4. work'[i] = e /\ \A j \in 1 .. Len(work) \ {i} : work'[j] = work[j]
    BY <1>1, <2>1
  <2> QED
    BY <2>1, <2>2, <2>3, <2>4
<1>4. CASE ConditionFalse(i)
  BY <1>2, <1>3, <1>4 DEF ConditionFalse, StepStatus
<1>5. CASE ConditionThrows(i)
  BY <1>2, <1>3, <1>5 DEF ConditionThrows, StepStatus
<1>6. CASE StepSucceeds(i)
  BY <1>2, <1>3, <1>6 DEF StepSucceeds, StepStatus
<1>7. CASE Retry(i)
  <2>1. work' = [work EXCEPT ![i].attempts = @ + 1] /\ work[i].attempts + 1 \in 1 .. MaxAttempts
    BY <1>1, <1>7 DEF Retry
  <2>2. /\ work' \in Seq(Works) /\ Len(work') = Len(work)
        /\ \A j \in 1 .. Len(work) \ {i} : work'[j] = work[j]
        /\ work'[i].record = work[i].record /\ work'[i].at = work[i].at /\ work'[i].status = work[i].status
    <3> DEFINE e == [work[i] EXCEPT !.attempts = work[i].attempts + 1]
    <3>1. work' = [work EXCEPT ![i] = e]
      BY <2>1
    <3>2. e \in Works /\ e.record = work[i].record /\ e.at = work[i].at /\ e.status = work[i].status
      BY <1>1, <2>1 DEF Works
    <3> HIDE DEF e
    <3> QED
      BY <1>1, <3>1, <3>2
  <2> QED
    BY <1>1, <1>7, <2>2 DEF Retry
<1>8. CASE ActionThrows(i)
  BY <1>2, <1>3, <1>8 DEF ActionThrows, StepStatus
<1>9. CASE AwaitApproval(i)
  <2>1. /\ work' \in Seq(Works) /\ Len(work') = Len(work)
        /\ \A j \in 1 .. Len(work) \ {i} : work'[j] = work[j]
        /\ work'[i].record = work[i].record /\ work'[i].at = "approving" /\ work'[i].status = work[i].status
    <3> DEFINE e == [work[i] EXCEPT !.at = "approving"]
    <3>1. work' = [work EXCEPT ![i] = e]
      BY <1>9 DEF AwaitApproval
    <3>2. e \in Works /\ e.record = work[i].record /\ e.at = "approving" /\ e.status = work[i].status
      BY <1>1 DEF Works
    <3> HIDE DEF e
    <3> QED
      BY <1>1, <3>1, <3>2
  <2> QED
    BY <1>2, <1>9, <2>1 DEF AwaitApproval, StepStatus
<1>10. CASE PersistApproval(i)
  BY <1>2, <1>3, <1>10 DEF PersistApproval, StepStatus
<1>11. CASE PersistApprovalFails(i)
  BY <1>2, <1>3, <1>11 DEF PersistApprovalFails, StepStatus
<1> QED
  BY <1>4, <1>5, <1>6, <1>7, <1>8, <1>9, <1>10, <1>11 DEF ProcessStep

\* A turn of skipBranch passes the step over, or skips it and goes on with its
\* successors.
LEMMA SkippedOne ==
  ASSUME TypeOK, SkipOne
  PROVE  /\ Head(toSkip) \in Range(toSkip) /\ Head(toSkip) \in Ids
         /\ toSkip' \in Seq(Ids)
         /\ \/ Range(toSkip') \subseteq Range(toSkip) /\ UNCHANGED <<skipped, history, inDegree, ready>>
            \/ /\ Head(toSkip) \notin Done
               /\ Head(toSkip) = branchStart \/ wf.deps[Head(toSkip)] \subseteq skipped
               /\ skipped' = skipped \cup {Head(toSkip)}
               /\ history' = Append(history, [step |-> Head(toSkip), status |-> "skipped"])
               /\ EnqueueSuccessors(Head(toSkip), Done \cup {Head(toSkip)})
               /\ Range(toSkip') \subseteq
                     Range(toSkip) \cup Successors(Head(toSkip), Done \cup {Head(toSkip)})
<1> DEFINE c == Head(toSkip)
           S == Successors(c, Done \cup {c})
           more == Among(wf.order, S)
<1>1. toSkip \in Seq(Ids) /\ toSkip # <<>> /\ wf \in Workflows
  BY DEF TypeOK, SkipOne
<1>2. c \in Ids /\ c \in Range(toSkip) /\ Tail(toSkip) \in Seq(Ids) /\ Range(Tail(toSkip)) \subseteq Range(toSkip)
  <2>1. c \in Ids /\ c \in Range(toSkip)
    BY <1>1 DEF Range
  <2>2. Tail(toSkip) \in Seq(Ids) /\ Len(Tail(toSkip)) = Len(toSkip) - 1
        /\ \A i \in 1 .. Len(toSkip) - 1 : Tail(toSkip)[i] = toSkip[i + 1]
    BY <1>1
  <2>3. Range(Tail(toSkip)) \subseteq Range(toSkip)
    BY <1>1, <2>2 DEF Range
  <2> QED
    BY <2>1, <2>2, <2>3
<1>3. S \in SUBSET Ids
  BY DEF Successors
<1>4. \/ toSkip' = Tail(toSkip) /\ UNCHANGED <<skipped, history, inDegree, ready>>
      \/ /\ c \notin Done
         /\ c = branchStart \/ wf.deps[c] \subseteq skipped
         /\ skipped' = skipped \cup {c}
         /\ history' = Append(history, [step |-> c, status |-> "skipped"])
         /\ toSkip' = Tail(toSkip) \o more
         /\ EnqueueSuccessors(c, Done \cup {c})
  BY DEF SkipOne
<1> HIDE DEF c, S
<1>5. more \in Seq(Ids) /\ Range(more) = S
  BY <1>1, <1>3, InOrder
<1> HIDE DEF more
<1>6. Tail(toSkip) \o more \in Seq(Ids)
  BY <1>2, <1>5
<1>7. Range(Tail(toSkip) \o more) = Range(Tail(toSkip)) \cup S
  <2> DEFINE t == Tail(toSkip)
  <2> HIDE DEF t
  <2>1. t \in Seq(Ids) /\ more \in Seq(Ids)
    BY <1>2, <1>5 DEF t
  <2>2. Range(t \o more) = Range(t) \cup Range(more)
    BY ONLY <2>1, Joined
  <2> QED
    BY <1>5, <2>2 DEF t
<1>8. CASE toSkip' = Tail(toSkip) /\ UNCHANGED <<skipped, history, inDegree, ready>>
  BY <1>2, <1>8 DEF c
<1>9. CASE /\ c \notin Done
           /\ c = branchStart \/ wf.deps[c] \subseteq skipped
           /\ skipped' = skipped \cup {c}
           /\ history' = Append(history, [step |-> c, status |-> "skipped"])
           /\ toSkip' = Tail(toSkip) \o more
           /\ EnqueueSuccessors(c, Done \cup {c})
  <2>1. toSkip' \in Seq(Ids) /\ Range(toSkip') \subseteq Range(toSkip) \cup S
    BY <1>2, <1>6, <1>7, <1>9
  <2> QED
    BY <1>2, <1>9, <2>1 DEF c, S
<1> QED
  BY <1>4, <1>8, <1>9

\* The step at the cursor, and the branch that it leaves.
LEMMA AtCursor ==
  ASSUME TypeOK, cursor \in 1 .. Len(batch)
  PROVE  /\ Current \in Ids /\ Current \in Range(batch)
         /\ \/ NotTaken = <<>>
            \/ \E s \in Ids : NotTaken = <<s>> /\ s \in Range(wf.branch[Current])
<1>1. batch \in Seq(Ids) /\ wf \in Workflows
  BY DEF TypeOK
<1>2. Current \in Ids /\ Current \in Range(batch)
  BY <1>1 DEF Current, Range
<1>3. wf.branch[Current] \in {NoBranch} \cup (Ids \X Ids)
  BY <1>1, <1>2, Definition
<1>4. ASSUME wf.branch[Current] # NoBranch, NEW k \in {1, 2}
      PROVE  wf.branch[Current][k] \in Ids /\ wf.branch[Current][k] \in Range(wf.branch[Current])
  <2>1. PICK x \in Ids, y \in Ids : wf.branch[Current] = <<x, y>>
    BY <1>3, <1>4
  <2>2. DOMAIN wf.branch[Current] = {1, 2}
    BY <2>1
  <2> QED
    BY <2>1, <2>2 DEF Range
<1> QED
  BY <1>2, <1>4 DEF NotTaken

LEMMA TypesKept == TypeOK /\ [Next]_vars => TypeOK'
<1> SUFFICES ASSUME TypeOK, [Next]_vars PROVE TypeOK'
  OBVIOUS
<1>1. /\ wf \in Workflows /\ ready \in Seq(Ids) /\ inDegree \in [Ids -> Int] /\ completed \in SUBSET Ids
      /\ skipped \in SUBSET Ids /\ stepError \in BOOLEAN /\ batch \in Seq(Ids) /\ work \in Seq(Works)
      /\ Len(work) = Len(batch) /\ Len(batch) \in Nat /\ cursor \in Nat \ {0} /\ toSkip \in Seq(Ids)
      /\ branchStart \in Ids \cup {NoStep} /\ history \in Seq(Entries)
  BY DEF TypeOK, Works, Entries
<1>2. CASE Create
  <2>1. ready' \in Seq(Ids)
    BY <1>1, <1>2, InOrder DEF Create
  <2> QED
    BY <1>2, <2>1 DEF Create, TypeOK, Ids, slots, skipping
<1>3. CASE TakeBatch
  <2>1. /\ batch' \in Seq(Ids) /\ ready' \in Seq(Ids) /\ work' \in Seq(Works)
        /\ history' \in Seq(Entries) /\ Len(work') = Len(batch')
    BY <1>3, Taken
  <2> QED
    BY <1>3, <2>1 DEF TakeBatch, TypeOK, Ids, skipping, Works, Entries
<1>4. CASE Exhausted
  BY <1>4 DEF Exhausted, TypeOK, Ids, slots, skipping
<1>5. CASE phase = "batch" /\ \E i \in 1 .. Len(work) : ProcessStep(i)
  <2>1. /\ UNCHANGED Kept /\ work' \in Seq(Works) /\ Len(work') = Len(work)
        /\ history' \in Seq(Entries)
    BY <1>5, Processed
  <2>2. row' \in {row, "awaiting_approval"}
    BY <1>5, Processed
  <2> QED
    BY <2>1, <2>2 DEF Kept, dag, skipping, TypeOK, Ids, Works, Entries
<1>6. CASE AllSettled
  BY <1>6 DEF AllSettled, TypeOK, Ids, dag, skipping
<1>7. CASE HandleRejected
  <2>1. cursor \in 1 .. Len(batch)
    BY <1>1, <1>7 DEF HandleRejected, Handling, TypeOK
  <2>2. Current \in Ids
    BY <2>1, AtCursor
  <2>3. cursor' \in {Len(batch) + 1, cursor + 1}
    BY <1>7 DEF HandleRejected
  <2>4. cursor' \in Nat \ {0}
    BY <1>1, <2>3
  <2> QED
    BY <1>7, <2>2, <2>4 DEF HandleRejected, TypeOK, Ids, skipping
<1>8. CASE HandleApproval
  BY <1>8 DEF HandleApproval, TypeOK, Ids, dag, slots, skipping
<1>9. CASE HandleResult
  <2>1. cursor \in 1 .. Len(batch)
    BY <1>1, <1>9 DEF HandleResult, Handling, TypeOK
  <2>2. Current \in Ids /\ (NotTaken = <<>> \/ \E s \in Ids : NotTaken = <<s>>)
    BY <2>1, AtCursor
  <2>3. toSkip' \in Seq(Ids) /\ branchStart' \in Ids \cup {NoStep}
    <3>1. toSkip' = NotTaken /\ branchStart' = IF NotTaken = <<>> THEN NoStep ELSE Head(NotTaken)
      BY <1>9 DEF HandleResult
    <3>2. CASE NotTaken = <<>>
      BY <3>1, <3>2
    <3>3. CASE \E s \in Ids : NotTaken = <<s>>
      <4>1. PICK s \in Ids : NotTaken = <<s>>
        BY <3>3
      <4>2. Head(<<s>>) = s /\ <<s>> \in Seq(Ids) /\ <<s>> # <<>>
        OBVIOUS
      <4> QED
        BY <3>1, <4>1, <4>2
    <3> QED
      BY <2>2, <3>2, <3>3
  <2>4. completed' \in SUBSET Ids /\ skipped' \in SUBSET Ids
    BY <1>1, <1>9, <2>2 DEF HandleResult
  <2> QED
    BY <1>9, <2>3, <2>4 DEF HandleResult, TypeOK, Ids, slots
<1>10. CASE SkipOne
  <2>1. /\ toSkip' \in Seq(Ids) /\ skipped' \in SUBSET Ids /\ history' \in Seq(Entries)
        /\ inDegree' \in [Ids -> Int] /\ ready' \in Seq(Ids)
    <3>1. CASE UNCHANGED <<skipped, history, inDegree, ready>>
      BY <1>1, <1>10, <3>1, SkippedOne
    <3>2. CASE ~ UNCHANGED <<skipped, history, inDegree, ready>>
      <4> DEFINE c == Head(toSkip)
      <4>1. /\ toSkip' \in Seq(Ids) /\ c \in Ids
            /\ skipped' = skipped \cup {c}
            /\ history' = Append(history, [step |-> c, status |-> "skipped"])
            /\ EnqueueSuccessors(c, Done \cup {c})
        BY <1>10, <3>2, SkippedOne
      <4> HIDE DEF c
      <4>2. [step |-> c, status |-> "skipped"] \in Entries
        BY <4>1 DEF Entries, StepStatus
      <4>3. history' \in Seq(Entries)
        BY <1>1, <4>1, <4>2
      <4>4. inDegree' \in [Ids -> Int] /\ ready' \in Seq(Ids)
        BY <4>1, Enqueued
      <4> QED
        BY <1>1, <4>1, <4>3, <4>4
    <3> QED
      BY <3>1, <3>2
  <2> QED
    BY <1>10, <2>1 DEF SkipOne, TypeOK, Ids, slots, Entries
<1>11. CASE Advance
  <2>1. inDegree' \in [Ids -> Int] /\ ready' \in Seq(Ids)
    BY <1>11, Enqueued DEF Advance
  <2> QED
    BY <1>11, <2>1 DEF Advance, TypeOK, Ids
<1>12. CASE BatchDone \/ UpdateFails
  BY <1>12 DEF BatchDone, UpdateFails, TypeOK, Ids, dag, slots, skipping
<1>13. CASE Finish \/ Abort
  BY <1>13 DEF Finish, Abort, Verdict, TypeOK, Ids, dag, slots, skipping
<1>14. CASE Throw \/ Crash
  BY <1>14 DEF Throw, Crash, TypeOK, Ids, dag, slots, skipping
<1>15. CASE UNCHANGED vars
  BY <1>15 DEF vars, TypeOK, Ids, dag, slots, skipping
<1> QED
  BY <1>2, <1>3, <1>4, <1>5, <1>6, <1>7, <1>8, <1>9, <1>10, <1>11, <1>12, <1>13, <1>14, <1>15
     DEF Next, Run

LEMMA InitTyped == Init => TypeOK
<1> SUFFICES ASSUME Init PROVE TypeOK
  OBVIOUS
<1>1. wf \in Workflows
  BY DEF Init
<1>2. \A s \in Ids : Cardinality(wf.deps[s]) \in Int
  <2> SUFFICES ASSUME NEW s \in Ids PROVE Cardinality(wf.deps[s]) \in Int
    OBVIOUS
  <2>1. IsFiniteSet(Ids) /\ wf.deps[s] \in SUBSET Ids
    BY <1>1, StepsAreFinite, Definition
  <2>2. IsFiniteSet(wf.deps[s])
    BY <2>1, FS_Subset
  <2>3. Cardinality(wf.deps[s]) \in Nat
    BY <2>2, FS_CardinalityType
  <2> QED
    BY <2>3
<1>3. inDegree \in [Ids -> Int]
  BY <1>2 DEF Init
<1>4. work = <<>> /\ batch = <<>> /\ ready = <<>> /\ toSkip = <<>> /\ history = <<>>
  BY DEF Init
<1>5. /\ work \in Seq([at : {"acting", "approving", "settled"}, status : StepStatus,
                      attempts : 1 .. MaxAttempts, rejected : BOOLEAN, record : Nat])
      /\ batch \in Seq(Ids) /\ ready \in Seq(Ids) /\ toSkip \in Seq(Ids)
      /\ history \in Seq([step : Ids, status : StepStatus])
      /\ Len(work) = Len(batch)
  BY <1>4
<1>6. /\ phase = "new" /\ completed = {} /\ skipped = {} /\ stepError = FALSE /\ cursor = 1
      /\ branchStart = NoStep /\ row = "none" /\ result = "none"
  BY DEF Init
<1>7. /\ phase \in {"new", "loop", "batch", "results", "skip", "finish", "abort", "done"}
      /\ completed \in SUBSET Ids
      /\ skipped \in SUBSET Ids
  BY <1>6
<1>9. cursor \in Nat \ {0}
  BY <1>6
<1>10. stepError \in BOOLEAN
  BY <1>6
<1>11. branchStart \in Ids \cup {NoStep}
  BY <1>6
<1>8. /\ row \in {"none", "running", "awaiting_approval", "completed", "failed"}
      /\ result \in {"none", "awaiting_approval", "completed", "failed", "thrown", "lost"}
  BY <1>6
<1> QED
  BY <1>1, <1>3, <1>5, <1>7, <1>8, <1>9, <1>10, <1>11 DEF TypeOK

\* Every variable keeps its type, for any definitions, concurrency and faults;
\* in particular the entries of work go with the steps of the batch.
THEOREM TypeCorrect == Spec => []TypeOK
BY InitTyped, TypesKept, PTL DEF Spec

-------------------------------------------------------------------------------
(* What the phases, the batch and the history have to do with each other. *)

\* The indices of the batch whose results are still to be handled.
Open ==
    CASE phase = "batch" -> 1 .. Len(batch)
      [] phase = "skip" -> cursor + 1 .. Len(batch)
      [] OTHER -> cursor .. Len(batch)

Good == {"success", "skipped"}

\* Where run() is: no batch is taken after an error, the results are looked at
\* when every step of the batch has settled, and a result is handled before its
\* branch is skipped.
PhasesAgree ==
    /\ phase = "new" =>
          row = "none" /\ history = <<>> /\ Done = {} /\ ready = <<>> /\ batch = <<>> /\ ~ stepError
    /\ result # "none" <=> phase = "done"
    /\ phase \in {"loop", "batch"} => ~ stepError
    /\ phase \in {"new", "loop", "finish"} => cursor > Len(batch)
    /\ phase = "skip" => cursor \in 1 .. Len(batch) /\ Current \in Done
    /\ phase \in {"loop", "results", "skip", "finish"} => \A i \in 1 .. Len(work) : work[i].at = "settled"

\* An entry of work and its record in the history say the same of one step.
EntriesAgree ==
    /\ \A i \in 1 .. Len(work) :
          /\ work[i].at = "settled" =>
                /\ work[i].rejected <=> work[i].status = "failed"
                /\ work[i].status # "running"
                /\ history[work[i].record].status = work[i].status
          /\ work[i].status = "skipped" => batch[i] \in wf.guarded
          /\ work[i].record \in 1 .. Len(history)
          /\ history[work[i].record].step = batch[i]
    /\ \A i, j \in 1 .. Len(work) : work[i].record = work[j].record => i = j

\* What was recorded before the batch under way is good.
EarlierAreGood ==
    \A k \in 1 .. Len(history) :
        history[k].status \in Good \/ \E i \in 1 .. Len(work) : work[i].record = k

\* The results that were handled are good, unless one was not.
HandledAreGood ==
    phase \in {"loop", "results", "skip", "finish"} /\ ~ stepError =>
        \A i \in 1 .. Len(work) : i \notin Open => work[i].status \in Good

\* An approval at the head of the batch is in the row until its turn comes.
ApprovalWritten ==
    /\ phase = "batch" \/ (phase = "results" /\ cursor = 1)
    /\ \E i \in 1 .. Len(work) : work[i].at = "settled" /\ work[i].status = "awaiting_approval"
    => row = "awaiting_approval"

Orderly == TypeOK /\ PhasesAgree /\ EntriesAgree /\ EarlierAreGood /\ HandledAreGood /\ ApprovalWritten

LEMMA Lengths ==
  ASSUME TypeOK
  PROVE  /\ Len(work) = Len(batch) /\ Len(batch) \in Nat /\ cursor \in Nat \ {0} /\ Len(history) \in Nat
         /\ work \in Seq(Works) /\ history \in Seq(Entries)
BY DEF TypeOK, Works, Entries

LEMMA PhasesKept == Orderly /\ [Next]_vars => PhasesAgree'
<1> SUFFICES ASSUME Orderly, [Next]_vars PROVE PhasesAgree'
  OBVIOUS
<1>1. TypeOK /\ PhasesAgree
  BY DEF Orderly
<1>2. Len(work) = Len(batch) /\ Len(batch) \in Nat /\ cursor \in Nat \ {0}
  BY <1>1, Lengths
<1>3. CASE Create
  BY <1>1, <1>2, <1>3 DEF Create, PhasesAgree, slots, skipping, Done
<1>4. CASE TakeBatch
  BY <1>1, <1>4 DEF TakeBatch, PhasesAgree, Done
<1>5. CASE Exhausted
  BY <1>1, <1>5 DEF Exhausted, PhasesAgree, slots, skipping, Done
<1>6. CASE phase = "batch" /\ \E i \in 1 .. Len(work) : ProcessStep(i)
  <2>1. UNCHANGED Kept
    BY <1>1, <1>6, Processed
  <2> QED
    BY <1>1, <1>6, <2>1 DEF Kept, PhasesAgree, dag, skipping, Done
<1>7. CASE AllSettled
  BY <1>1, <1>7 DEF AllSettled, PhasesAgree, dag, skipping, Done
<1>8. CASE HandleRejected
  BY <1>1, <1>8 DEF HandleRejected, Handling, PhasesAgree, skipping, Done
<1>9. CASE HandleApproval \/ UpdateFails
  BY <1>1, <1>9 DEF HandleApproval, UpdateFails, Handling, PhasesAgree, dag, slots, skipping, Done
<1>10. CASE HandleResult
  BY <1>1, <1>2, <1>10 DEF HandleResult, Handling, PhasesAgree, slots, Done, Current
<1>11. CASE SkipOne
  <2>1. skipped \subseteq skipped'
    BY <1>1, <1>11, SkippedOne
  <2> QED
    BY <1>1, <1>11, <2>1 DEF SkipOne, PhasesAgree, slots, Done, Current
<1>12. CASE Advance
  BY <1>1, <1>12 DEF Advance, PhasesAgree, Done
<1>13. CASE BatchDone
  BY <1>1, <1>13 DEF BatchDone, PhasesAgree, dag, slots, skipping, Done
<1>14. CASE Finish \/ Abort
  BY <1>1, <1>14 DEF Finish, Abort, Verdict, PhasesAgree, dag, slots, skipping, Done
<1>15. CASE Throw \/ Crash
  BY <1>1, <1>15 DEF Throw, Crash, PhasesAgree, dag, slots, skipping, Done
<1>16. CASE UNCHANGED vars
  BY <1>1, <1>16 DEF vars, PhasesAgree, dag, slots, skipping, Done, Current
<1> QED
  BY <1>3, <1>4, <1>5, <1>6, <1>7, <1>8, <1>9, <1>10, <1>11, <1>12, <1>13, <1>14, <1>15, <1>16
     DEF Next, Run

\* The steps that leave the batch, its entries and the history alone.
OtherStep ==
    \/ Create \/ Exhausted \/ AllSettled \/ HandleRejected \/ HandleApproval \/ HandleResult \/ Advance
    \/ BatchDone \/ Finish \/ UpdateFails \/ Abort \/ Throw \/ Crash \/ UNCHANGED vars

LEMMA StepKinds ==
  ASSUME [Next]_vars
  PROVE  \/ TakeBatch
         \/ phase = "batch" /\ \E i \in 1 .. Len(work) : ProcessStep(i)
         \/ SkipOne
         \/ OtherStep /\ UNCHANGED <<wf, batch, work, history>>
BY DEF Next, Run, OtherStep, Create, Exhausted, AllSettled, HandleRejected, HandleApproval, HandleResult,
   Advance, BatchDone, Finish, UpdateFails, Abort, Throw, Crash, vars, slots

LEMMA EntriesKept == Orderly /\ [Next]_vars => EntriesAgree'
<1> SUFFICES ASSUME Orderly, [Next]_vars PROVE EntriesAgree'
  OBVIOUS
<1>1. TypeOK /\ EntriesAgree
  BY DEF Orderly
<1>2. /\ Len(work) = Len(batch) /\ Len(batch) \in Nat /\ Len(history) \in Nat
      /\ work \in Seq(Works) /\ history \in Seq(Entries)
  BY <1>1, Lengths
<1>3. CASE TakeBatch
  <2>1. PICK fresh \in Seq(Ids), n \in Nat \ {0} :
           /\ \A i \in 1 .. n : batch'[i] = fresh[i]
           /\ Len(work') = n
           /\ \A i \in 1 .. n : work'[i] = [at |-> "acting", status |-> "running", attempts |-> 1,
                                          rejected |-> FALSE, record |-> Len(history) + i]
           /\ Len(history') = Len(history) + n
           /\ \A i \in 1 .. n : history'[Len(history) + i] = [step |-> fresh[i], status |-> "running"]
    BY <1>1, <1>3, Taken
  <2>2. ASSUME NEW i \in 1 .. n
        PROVE  /\ work'[i].at = "acting" /\ work'[i].status = "running" /\ work'[i].record = Len(history) + i
               /\ work'[i].record \in 1 .. Len(history')
               /\ history'[work'[i].record].step = batch'[i]
    <3>1. work'[i].at = "acting" /\ work'[i].status = "running" /\ work'[i].record = Len(history) + i
      BY <2>1
    <3>2. Len(history) + i \in 1 .. Len(history')
      BY <1>2, <2>1
    <3>3. history'[Len(history) + i] = [step |-> fresh[i], status |-> "running"]
      BY <2>1
    <3>4. history'[Len(history) + i].step = fresh[i]
      BY <3>3
    <3>5. batch'[i] = fresh[i]
      BY <2>1
    <3> QED
      BY <3>1, <3>2, <3>4, <3>5
  <2>3. \A i, j \in 1 .. n : work'[i].record = work'[j].record => i = j
    BY <1>2, <2>2
  <2> QED
    BY <2>1, <2>2, <2>3 DEF EntriesAgree
<1>4. CASE phase = "batch" /\ \E i \in 1 .. Len(work) : ProcessStep(i)
  <2>1. PICK i \in 1 .. Len(work) : ProcessStep(i)
    BY <1>4
  <2>2. UNCHANGED <<wf, batch>> /\ Len(work') = Len(work) /\ Len(history') = Len(history)
    BY <1>1, <2>1, Processed DEF Kept
  <2>3. \A j \in 1 .. Len(work) : work'[j].record = work[j].record
    BY <1>1, <2>1, Processed
  <2>4. \A k \in 1 .. Len(history) : history'[k].step = history[k].step
    BY <1>1, <2>1, Processed
  <2>5. ASSUME NEW j \in 1 .. Len(work), j # i
        PROVE  work'[j] = work[j] /\ history'[work[j].record] = history[work[j].record]
    <3>1. work[j].record \in 1 .. Len(history) \ {work[i].record}
      BY <1>1, <2>5 DEF EntriesAgree
    <3> QED
      BY <1>1, <2>1, <2>5, <3>1, Processed
  <2>6. /\ work'[i].at = "settled" =>
              /\ work'[i].rejected <=> work'[i].status = "failed"
              /\ work'[i].status # "running"
              /\ history'[work[i].record].status = work'[i].status
        /\ work'[i].status = "skipped" => batch[i] \in wf.guarded
    BY <1>1, <2>1, Processed DEF EntriesAgree
  <2>7. ASSUME NEW j \in 1 .. Len(work)
        PROVE  /\ work'[j].at = "settled" =>
                     /\ work'[j].rejected <=> work'[j].status = "failed"
                     /\ work'[j].status # "running"
                     /\ history'[work'[j].record].status = work'[j].status
               /\ work'[j].status = "skipped" => batch'[j] \in wf'.guarded
    <3>1. batch' = batch /\ wf' = wf /\ work'[j].record = work[j].record
      BY <2>2, <2>3
    <3>2. CASE j = i
      BY <2>6, <3>1, <3>2
    <3>3. CASE j # i
      <4>1. work'[j] = work[j] /\ history'[work[j].record] = history[work[j].record]
        BY <2>5, <3>3
      <4> QED
        BY <1>1, <3>1, <4>1 DEF EntriesAgree
    <3> QED
      BY <3>2, <3>3
  <2>8. ASSUME NEW j \in 1 .. Len(work)
        PROVE  work'[j].record \in 1 .. Len(history') /\ history'[work'[j].record].step = batch'[j]
    <3>1. batch' = batch /\ work'[j].record = work[j].record /\ Len(history') = Len(history)
      BY <2>2, <2>3
    <3>2. work[j].record \in 1 .. Len(history) /\ history[work[j].record].step = batch[j]
      BY <1>1 DEF EntriesAgree
    <3> QED
      BY <2>4, <3>1, <3>2
  <2>9. \A j, k \in 1 .. Len(work) : work'[j].record = work'[k].record => j = k
    BY <1>1, <2>3 DEF EntriesAgree
  <2> QED
    BY <2>2, <2>7, <2>8, <2>9 DEF EntriesAgree
<1>5. CASE SkipOne
  <2>1. UNCHANGED <<wf, batch, work>>
    BY <1>5 DEF SkipOne, slots
  <2>2. /\ Len(history') >= Len(history) /\ Len(history') \in Nat
        /\ \A k \in 1 .. Len(history) : history'[k] = history[k]
    <3>1. UNCHANGED history \/ history' = Append(history, [step |-> Head(toSkip), status |-> "skipped"])
      BY <1>1, <1>5, SkippedOne
    <3> QED
      BY <1>2, <3>1
  <2>3. \A i \in 1 .. Len(work) :
          work[i].record \in 1 .. Len(history') /\ history'[work[i].record] = history[work[i].record]
    BY <1>1, <1>2, <2>2 DEF EntriesAgree
  <2> QED
    BY <1>1, <2>1, <2>3 DEF EntriesAgree
<1>6. CASE OtherStep /\ UNCHANGED <<wf, batch, work, history>>
  BY <1>1, <1>6 DEF EntriesAgree
<1> QED
  BY <1>3, <1>4, <1>5, <1>6, StepKinds

\* When run() looks for a batch, everything that was recorded is good.
LEMMA LoopIsGood ==
  ASSUME Orderly, phase \in {"loop", "finish"}, ~ stepError
  PROVE  \A k \in 1 .. Len(history) : history[k].status \in Good
<1>1. TypeOK /\ PhasesAgree /\ EntriesAgree /\ EarlierAreGood /\ HandledAreGood
  BY DEF Orderly
<1>2. Len(work) = Len(batch) /\ Len(batch) \in Nat /\ cursor \in Nat
  BY <1>1, Lengths
<1>3. \A i \in 1 .. Len(work) : i \notin Open
  BY <1>1, <1>2 DEF Open, PhasesAgree
<1>4. \A i \in 1 .. Len(work) : work[i].at = "settled" /\ work[i].status \in Good
  BY <1>1, <1>3 DEF PhasesAgree, HandledAreGood
<1>5. \A i \in 1 .. Len(work) : history[work[i].record].status = work[i].status
  BY <1>1, <1>4 DEF EntriesAgree
<1>6. \A k \in 1 .. Len(history) : history[k].status \in Good \/ \E i \in 1 .. Len(work) : work[i].record = k
  BY <1>1 DEF EarlierAreGood
<1> QED
  BY <1>4, <1>5, <1>6

LEMMA EarlierKept == Orderly /\ [Next]_vars => EarlierAreGood'
<1> SUFFICES ASSUME Orderly, [Next]_vars PROVE EarlierAreGood'
  OBVIOUS
<1>1. TypeOK /\ EarlierAreGood /\ PhasesAgree
  BY DEF Orderly
<1>2. /\ Len(work) = Len(batch) /\ Len(batch) \in Nat /\ Len(history) \in Nat
      /\ work \in Seq(Works) /\ history \in Seq(Entries)
  BY <1>1, Lengths
<1>3. CASE TakeBatch
  <2>1. PICK n \in Nat \ {0} :
           /\ Len(work') = n
           /\ \A i \in 1 .. n : work'[i].record = Len(history) + i
           /\ Len(history') = Len(history) + n
           /\ \A i \in 1 .. Len(history) : history'[i] = history[i]
    <3>1. PICK fresh \in Seq(Ids), n \in Nat \ {0} :
             /\ Len(work') = n
             /\ \A i \in 1 .. n : work'[i] = [at |-> "acting", status |-> "running", attempts |-> 1,
                                            rejected |-> FALSE, record |-> Len(history) + i]
             /\ Len(history') = Len(history) + n
             /\ \A i \in 1 .. Len(history) : history'[i] = history[i]
      BY <1>1, <1>3, Taken
    <3> QED
      BY <3>1
  <2>2. \A k \in 1 .. Len(history) : history'[k].status \in Good
    BY <1>1, <1>3, <2>1, LoopIsGood DEF TakeBatch, PhasesAgree
  <2>3. ASSUME NEW k \in 1 .. Len(history'), k \notin 1 .. Len(history)
        PROVE  \E i \in 1 .. Len(work') : work'[i].record = k
    <3>1. k - Len(history) \in 1 .. n /\ Len(history) + (k - Len(history)) = k
      BY <1>2, <2>1, <2>3
    <3> QED
      BY <2>1, <3>1
  <2> QED
    BY <2>2, <2>3 DEF EarlierAreGood
<1>4. CASE phase = "batch" /\ \E i \in 1 .. Len(work) : ProcessStep(i)
  <2>1. PICK i \in 1 .. Len(work) : ProcessStep(i)
    BY <1>4
  <2>2. Len(work') = Len(work) /\ Len(history') = Len(history)
    BY <1>1, <2>1, Processed
  <2>3. \A j \in 1 .. Len(work) : work'[j].record = work[j].record
    BY <1>1, <2>1, Processed
  <2>4. \A k \in 1 .. Len(history) : k = work[i].record \/ history'[k] = history[k]
    BY <1>1, <2>1, Processed
  <2> QED
    BY <1>1, <2>2, <2>3, <2>4 DEF EarlierAreGood
<1>5. CASE SkipOne
  <2>1. UNCHANGED work
    BY <1>5 DEF SkipOne, slots
  <2>2. UNCHANGED history \/ history' = Append(history, [step |-> Head(toSkip), status |-> "skipped"])
    BY <1>1, <1>5, SkippedOne
  <2>3. \A k \in 1 .. Len(history') :
          (k \in 1 .. Len(history) /\ history'[k] = history[k]) \/ history'[k].status = "skipped"
    BY <1>2, <2>2
  <2> QED
    BY <1>1, <2>1, <2>3 DEF EarlierAreGood, Good
<1>6. CASE OtherStep /\ UNCHANGED <<wf, batch, work, history>>
  BY <1>1, <1>6 DEF EarlierAreGood
<1> QED
  BY <1>3, <1>4, <1>5, <1>6, StepKinds

LEMMA HandledKept == Orderly /\ [Next]_vars => HandledAreGood'
<1> SUFFICES ASSUME Orderly, [Next]_vars,
                    phase' \in {"loop", "results", "skip", "finish"}, ~ stepError',
                    NEW i \in 1 .. Len(work'), i \notin Open'
             PROVE  work'[i].status \in Good
  BY DEF HandledAreGood
<1>1. TypeOK /\ PhasesAgree /\ HandledAreGood
  BY DEF Orderly
<1>2. Len(work) = Len(batch) /\ Len(batch) \in Nat /\ cursor \in Nat \ {0}
  BY <1>1, Lengths
<1>a. ~ TakeBatch
  BY DEF TakeBatch
<1>b. ~ (phase = "batch" /\ \E j \in 1 .. Len(work) : ProcessStep(j))
  BY <1>1, Processed DEF Kept
<1>3. UNCHANGED <<batch, work>>
  BY <1>a, <1>b, StepKinds DEF SkipOne, slots
<1>4. \A j \in 1 .. Len(work) : phase \in {"loop", "results", "skip", "finish"} /\ ~ stepError /\ j \notin Open
        => work[j].status \in Good
  BY <1>1 DEF HandledAreGood
<1>5. CASE Create
  BY <1>1, <1>2, <1>3, <1>5 DEF Create, PhasesAgree
<1>6. CASE Exhausted \/ SkipOne \/ UNCHANGED vars
  <2>1. /\ phase \in {"loop", "results", "skip", "finish"} /\ ~ stepError
        /\ cursor' = cursor /\ (phase' = phase \/ (phase = "loop" /\ phase' = "finish"))
    <3>1. CASE Exhausted
      BY <3>1 DEF Exhausted, slots
    <3>2. CASE SkipOne
      BY <3>2 DEF SkipOne, slots
    <3>3. CASE UNCHANGED vars
      BY <3>3 DEF vars, slots, dag
    <3> QED
      BY <1>6, <3>1, <3>2, <3>3
  <2>2. i \notin Open
    BY <1>3, <2>1 DEF Open
  <2> QED
    BY <1>3, <1>4, <2>1, <2>2
<1>7. CASE AllSettled
  BY <1>2, <1>7 DEF AllSettled, Open
<1>8. CASE HandleRejected
  BY <1>8 DEF HandleRejected
<1>9. CASE HandleResult
  <2>1. i = cursor \/ i \notin Open
    BY <1>2, <1>3, <1>9 DEF HandleResult, Handling, Open, slots
  <2> QED
    BY <1>3, <1>4, <1>9, <2>1 DEF HandleResult, Handling, Good
<1>10. CASE Advance
  <2>1. i \notin Open
    BY <1>2, <1>3, <1>10 DEF Advance, Open
  <2> QED
    BY <1>3, <1>4, <1>10, <2>1 DEF Advance
<1>11. CASE BatchDone
  BY <1>3, <1>4, <1>11 DEF BatchDone, dag, slots, Open
<1> QED
  BY <1>a, <1>b, <1>5, <1>6, <1>7, <1>8, <1>9, <1>10, <1>11, StepKinds
     DEF OtherStep, HandleApproval, Finish, UpdateFails, Abort, Throw, Crash

LEMMA ApprovalKept == Orderly /\ [Next]_vars => ApprovalWritten'
<1> SUFFICES ASSUME Orderly, [Next]_vars,
                    phase' = "batch" \/ (phase' = "results" /\ cursor' = 1),
                    NEW i \in 1 .. Len(work'), work'[i].at = "settled", work'[i].status = "awaiting_approval"
             PROVE  row' = "awaiting_approval"
  BY DEF ApprovalWritten
<1>1. TypeOK /\ PhasesAgree /\ ApprovalWritten
  BY DEF Orderly
<1>2. Len(work) = Len(batch) /\ Len(batch) \in Nat /\ cursor \in Nat \ {0}
  BY <1>1, Lengths
<1>3. CASE TakeBatch
  <2>1. \A j \in 1 .. Len(work') : work'[j].at = "acting"
    <3>1. PICK n \in Nat \ {0} :
             /\ Len(work') = n
             /\ \A j \in 1 .. n : work'[j] = [at |-> "acting", status |-> "running", attempts |-> 1,
                                            rejected |-> FALSE, record |-> Len(history) + j]
      BY <1>1, <1>3, Taken
    <3> QED
      BY <3>1
  <2> QED
    BY <2>1
<1>4. CASE phase = "batch" /\ \E j \in 1 .. Len(work) : ProcessStep(j)
  <2>1. PICK j \in 1 .. Len(work) : ProcessStep(j)
    BY <1>4
  <2>2. CASE i = j
    BY <1>1, <2>1, <2>2, Processed
  <2>3. CASE i # j
    <3>1. work'[i] = work[i] /\ i \in 1 .. Len(work)
      BY <1>1, <2>1, <2>3, Processed
    <3>2. row = "awaiting_approval"
      BY <1>1, <1>4, <3>1 DEF ApprovalWritten
    <3>3. row' \in {row, "awaiting_approval"}
      BY <1>1, <2>1, Processed
    <3> QED
      BY <3>2, <3>3
  <2> QED
    BY <2>2, <2>3
<1>5. CASE SkipOne
  BY <1>5 DEF SkipOne
<1>6. CASE OtherStep /\ UNCHANGED <<wf, batch, work, history>>
  <2>1. CASE AllSettled
    BY <1>1, <1>6, <2>1 DEF AllSettled, ApprovalWritten
  <2>2. CASE HandleRejected \/ Advance
    <3>1. cursor' # 1
      BY <1>2, <2>2 DEF HandleRejected, Handling, Advance
    <3> QED
      BY <2>2, <3>1 DEF HandleRejected, Handling, Advance
  <2>3. CASE UNCHANGED vars
    BY <1>1, <2>3 DEF vars, slots, ApprovalWritten
  <2> QED
    BY <1>6, <2>1, <2>2, <2>3 DEF OtherStep, Create, Exhausted, HandleApproval, HandleResult, BatchDone, Finish,
       UpdateFails, Abort, Throw, Crash
<1> QED
  BY <1>3, <1>4, <1>5, <1>6, StepKinds

LEMMA OrderlyAlways == Spec => []Orderly
<1>1. Init => Orderly
  <2> SUFFICES ASSUME Init PROVE PhasesAgree /\ EntriesAgree /\ EarlierAreGood /\ HandledAreGood /\ ApprovalWritten
    BY InitTyped DEF Orderly
  <2> QED
    BY DEF Init, PhasesAgree, EntriesAgree, EarlierAreGood, HandledAreGood, ApprovalWritten, Done
<1>2. Orderly /\ [Next]_vars => Orderly'
  BY TypesKept, PhasesKept, EntriesKept, EarlierKept, HandledKept, ApprovalKept DEF Orderly
<1> QED
  BY <1>1, <1>2, PTL DEF Spec

\* Once a step has failed no other batch is started: run() does not come back to
\* the head of its loop.
THEOREM NoneAfterFailure == Spec => NoStartAfterFailure
<1>1. ASSUME Orderly
      PROVE  [ (\E i \in 1 .. Len(history) : history[i].status = "failed") /\ phase = "loop"
                 => phase' # "batch" ]_vars
  <2> SUFFICES ASSUME phase = "loop", NEW i \in 1 .. Len(history), history[i].status = "failed"
               PROVE  FALSE
    OBVIOUS
  <2>1. ~ stepError
    BY <1>1 DEF Orderly, PhasesAgree
  <2>2. history[i].status \in Good
    BY <1>1, <2>1, LoopIsGood
  <2> QED
    BY <2>2 DEF Good
<1> QED
  BY <1>1, OrderlyAlways, PTL DEF NoStartAfterFailure

-------------------------------------------------------------------------------
(* How a run ends, and why a step is skipped. *)

\* The branch being skipped is one that the condition at the cursor left; what
\* the cascade adds to it waits for a step.
SkipsAgree ==
    phase = "skip" =>
        \/ toSkip = <<>>
        \/ /\ branchStart \in Range(wf.branch[Current])
           /\ \A s \in Range(toSkip) : s = branchStart \/ wf.deps[s] # {}

\* SkippedForAReason, EndsInTheTable and ApprovalAloneIsKept, and what the first
\* of them needs.
Explained == Orderly /\ SkipsAgree /\ SkippedForAReason /\ EndsInTheTable /\ ApprovalAloneIsKept

LEMMA SkipsKept == Explained /\ [Next]_vars => SkipsAgree'
<1> SUFFICES ASSUME Explained, [Next]_vars, phase' = "skip", toSkip' # <<>>
             PROVE  /\ branchStart' \in Range(wf'.branch[Current'])
                    /\ \A s \in Range(toSkip') : s = branchStart' \/ wf'.deps[s] # {}
  BY DEF SkipsAgree
<1>1. TypeOK /\ SkipsAgree /\ cursor \in Nat \ {0}
  BY Lengths DEF Explained, Orderly
<1>2. CASE HandleResult
  <2>1. cursor \in 1 .. Len(batch)
    BY <1>1, <1>2, Lengths DEF HandleResult, Handling
  <2>2. PICK s \in Ids : NotTaken = <<s>> /\ s \in Range(wf.branch[Current])
    BY <1>1, <1>2, <2>1, AtCursor DEF HandleResult
  <2>3. toSkip' = <<s>> /\ branchStart' = s
    <3>1. Head(<<s>>) = s /\ <<s>> # <<>>
      OBVIOUS
    <3> QED
      BY <1>2, <2>2, <3>1 DEF HandleResult
  <2>4. Range(<<s>>) = {s}
    BY DEF Range
  <2>5. UNCHANGED <<wf, Current>>
    BY <1>2 DEF HandleResult, slots, Current
  <2> QED
    BY <2>2, <2>3, <2>4, <2>5
<1>3. CASE SkipOne
  <2>1. UNCHANGED <<wf, branchStart, Current>> /\ phase = "skip" /\ toSkip # <<>>
    BY <1>3 DEF SkipOne, slots, Current
  <2>2. ASSUME NEW s \in Range(toSkip') PROVE s \in Range(toSkip) \/ wf.deps[s] # {}
    <3>1. \/ Range(toSkip') \subseteq Range(toSkip)
          \/ Range(toSkip') \subseteq Range(toSkip) \cup Successors(Head(toSkip), Done \cup {Head(toSkip)})
      BY <1>1, <1>3, SkippedOne
    <3> QED
      BY <2>2, <3>1 DEF Successors
  <2> QED
    BY <1>1, <2>1, <2>2 DEF SkipsAgree
<1>4. CASE UNCHANGED vars
  BY <1>1, <1>4 DEF vars, slots, skipping, SkipsAgree, Current
<1>5. CASE phase = "batch" /\ \E i \in 1 .. Len(work) : ProcessStep(i)
  BY <1>1, <1>5, Processed DEF Kept
<1>6. CASE HandleRejected
  BY <1>6 DEF HandleRejected, Handling
<1> QED
  BY <1>2, <1>3, <1>4, <1>5, <1>6
     DEF Next, Run, Create, TakeBatch, Exhausted, AllSettled, HandleApproval, Advance,
         BatchDone, Finish, UpdateFails, Abort, Throw, Crash

LEMMA ReasonsKept == Explained /\ [Next]_vars => SkippedForAReason'
<1> SUFFICES ASSUME Explained, [Next]_vars, NEW s \in skipped'
             PROVE  \/ s \in wf'.guarded
                    \/ \E c \in Done' : s \in Range(wf'.branch[c])
                    \/ wf'.deps[s] # {} /\ wf'.deps[s] \subseteq skipped'
  BY DEF SkippedForAReason
<1>1. TypeOK /\ PhasesAgree /\ EntriesAgree /\ SkipsAgree /\ SkippedForAReason
  BY DEF Explained, Orderly
<1>2. /\ Len(work) = Len(batch) /\ Len(batch) \in Nat /\ cursor \in Nat \ {0}
  BY <1>1, Lengths
<1>3. CASE UNCHANGED wf /\ skipped' = skipped /\ completed \subseteq completed'
  BY <1>1, <1>3 DEF SkippedForAReason, Done
<1>4. CASE HandleResult
  <2>1. CASE s \in skipped
    BY <1>1, <1>4, <2>1 DEF HandleResult, SkippedForAReason, Done
  <2>2. CASE s \notin skipped
    <3>1. s = Current /\ work[cursor].status = "skipped" /\ cursor \in 1 .. Len(work)
      BY <1>2, <1>4, <2>2 DEF HandleResult, Handling
    <3>2. batch[cursor] \in wf.guarded
      BY <1>1, <3>1 DEF EntriesAgree
    <3> QED
      BY <1>4, <3>1, <3>2 DEF HandleResult, Current
  <2> QED
    BY <2>1, <2>2
<1>5. CASE SkipOne
  <2>1. UNCHANGED <<wf, completed>> /\ phase = "skip" /\ toSkip # <<>>
    BY <1>5 DEF SkipOne
  <2>2. skipped \subseteq skipped'
    BY <1>1, <1>5, SkippedOne
  <2>3. CASE s \in skipped
    BY <1>1, <2>1, <2>2, <2>3 DEF SkippedForAReason, Done
  <2>4. CASE s \notin skipped
    <3>1. s = Head(toSkip) /\ s \in Range(toSkip) /\ (s = branchStart \/ wf.deps[s] \subseteq skipped)
      BY <1>1, <1>5, <2>4, SkippedOne
    <3>2. Current \in Done'
      BY <1>1, <2>1, <2>2 DEF PhasesAgree, Done
    <3> QED
      BY <1>1, <2>1, <2>2, <3>1, <3>2 DEF SkipsAgree
  <2> QED
    BY <2>3, <2>4
<1>6. CASE phase = "batch" /\ \E i \in 1 .. Len(work) : ProcessStep(i)
  <2>1. UNCHANGED Kept
    BY <1>1, <1>6, Processed
  <2> QED
    BY <1>3, <2>1 DEF Kept, dag
<1> QED
  BY <1>3, <1>4, <1>5, <1>6
     DEF Next, Run, Create, TakeBatch, Exhausted, AllSettled, HandleRejected, HandleApproval, Advance,
         BatchDone, Finish, UpdateFails, Abort, Throw, Crash, vars, dag

LEMMA EndingsKept == Explained /\ [Next]_vars => EndsInTheTable' /\ ApprovalAloneIsKept'
<1> SUFFICES ASSUME Explained, [Next]_vars
             PROVE  EndsInTheTable' /\ ApprovalAloneIsKept'
  OBVIOUS
<1>1. TypeOK /\ PhasesAgree /\ EntriesAgree /\ EarlierAreGood /\ ApprovalWritten /\ EndsInTheTable /\ ApprovalAloneIsKept
  BY DEF Explained, Orderly
<1>2. /\ Len(work) = Len(batch) /\ Len(batch) \in Nat /\ cursor \in Nat \ {0} /\ batch \in Seq(Ids)
  BY <1>1, Lengths DEF TypeOK
<1>3. CASE UNCHANGED vars
  BY <1>1, <1>3 DEF vars, slots, EndsInTheTable, ApprovalAloneIsKept
<1>4. CASE HandleApproval
  <2>1. result' = "awaiting_approval" /\ UNCHANGED <<row, slots, history>>
    BY <1>4 DEF HandleApproval
  <2>2. cursor \in 1 .. Len(work) /\ work[cursor].at = "settled"
    BY <1>1, <1>2, <1>4 DEF HandleApproval, Handling, PhasesAgree
  <2>3. cursor = 1 => row = "awaiting_approval"
    BY <1>1, <1>4, <2>2 DEF HandleApproval, Handling, ApprovalWritten
  <2>4. ASSUME NEW k \in 1 .. Len(history), history[k].status = "failed"
        PROVE  history[k].step \in Range(batch)
    <3>1. PICK i \in 1 .. Len(work) : work[i].record = k
      BY <1>1, <2>4 DEF EarlierAreGood, Good
    <3>2. history[k].step = batch[i]
      BY <1>1, <3>1 DEF EntriesAgree
    <3> QED
      BY <1>2, <3>2 DEF Range
  <2> QED
    BY <2>1, <2>3, <2>4 DEF EndsInTheTable, ApprovalAloneIsKept, slots
<1>5. CASE Finish \/ Abort
  <2>1. result' = row' /\ result' # "awaiting_approval"
    BY <1>5 DEF Finish, Abort, Verdict
  <2> QED
    BY <2>1 DEF EndsInTheTable, ApprovalAloneIsKept
<1>6. CASE Throw \/ Crash
  BY <1>6 DEF Throw, Crash, EndsInTheTable, ApprovalAloneIsKept
<1>7. CASE phase # "done" /\ UNCHANGED result
  <2>1. result' = "none"
    BY <1>1, <1>7 DEF PhasesAgree
  <2> QED
    BY <2>1 DEF EndsInTheTable, ApprovalAloneIsKept
<1>8. CASE phase = "batch" /\ \E i \in 1 .. Len(work) : ProcessStep(i)
  <2>1. UNCHANGED Kept
    BY <1>1, <1>8, Processed
  <2> QED
    BY <1>7, <1>8, <2>1 DEF Kept
<1> QED
  BY <1>3, <1>4, <1>5, <1>6, <1>7, <1>8
     DEF Next, Run, Create, TakeBatch, Exhausted, AllSettled, HandleRejected, HandleResult, SkipOne, Advance,
         BatchDone, UpdateFails, Handling

LEMMA ExplainedAlways == Spec => []Explained
<1>1. Init => SkipsAgree /\ SkippedForAReason /\ EndsInTheTable /\ ApprovalAloneIsKept
  BY DEF Init, SkipsAgree, SkippedForAReason, EndsInTheTable, ApprovalAloneIsKept
<1>2. SkipsAgree /\ SkippedForAReason /\ EndsInTheTable /\ ApprovalAloneIsKept /\ Orderly /\ Orderly' /\ [Next]_vars
        => (SkipsAgree /\ SkippedForAReason /\ EndsInTheTable /\ ApprovalAloneIsKept)'
  BY SkipsKept, ReasonsKept, EndingsKept DEF Explained
<1>3. Orderly /\ SkipsAgree /\ SkippedForAReason /\ EndsInTheTable /\ ApprovalAloneIsKept => Explained
  BY DEF Explained
<1> QED
  BY <1>1, <1>2, <1>3, OrderlyAlways, PTL DEF Spec

-------------------------------------------------------------------------------
(* A run does to its row what WorkflowRow says. *)

LEMMA AbstractInit == Init => Row!RowInit
BY DEF Init, Row!RowInit, RunOf

LEMMA AbstractStep == Orderly /\ [Next]_vars => [Row!RowNext]_Row!rowVars
<1> SUFFICES ASSUME Orderly, [Next]_vars PROVE Row!RowNext \/ UNCHANGED <<row, RunOf>>
  BY DEF Row!rowVars
<1>1. TypeOK /\ PhasesAgree /\ HandledAreGood
  BY DEF Orderly
<1>2. Len(work) = Len(batch) /\ Len(batch) \in Nat /\ cursor \in Nat \ {0}
  BY <1>1, Lengths
<1> DEFINE awaited == \E i \in 1 .. Len(work) : work[i].at = "settled" /\ work[i].status = "awaiting_approval"
<1>3. /\ phase = "new" => RunOf = "none"
      /\ phase \notin {"new", "done"} => RunOf = IF awaited THEN "gated" ELSE "active"
  BY DEF RunOf
<1>4. phase' \notin {"new", "done"} => RunOf' = IF awaited' THEN "gated" ELSE "active"
  BY DEF RunOf
<1>5. phase' = "done" => RunOf' = IF result' \in {"thrown", "lost"} THEN "lost" ELSE result'
  BY DEF RunOf
<1>6. phase \in {"loop", "finish"} /\ ~ stepError => ~ awaited
  BY <1>1, <1>2 DEF PhasesAgree, HandledAreGood, Open, Good
<1>7. UNCHANGED work => (awaited' <=> awaited)
  OBVIOUS
<1>8. Row!Going <=> RunOf \in {"active", "gated"}
  BY DEF Row!Going
<1> HIDE DEF awaited
<1>9. CASE Create
  <2>1. ~ awaited'
    <3>1. batch = <<>> /\ UNCHANGED work
      BY <1>1, <1>9 DEF Create, slots, PhasesAgree
    <3>2. Len(work) = 0
      BY <1>2, <3>1
    <3>3. ~ awaited
      BY <3>2 DEF awaited
    <3> QED
      BY <1>7, <3>1, <3>3
  <2> QED
    BY <1>1, <1>3, <1>4, <1>9, <2>1 DEF Create, PhasesAgree, Row!RowNext, Row!Begin
<1>10. CASE TakeBatch
  <2>1. ~ awaited'
    <3>1. PICK n \in Nat \ {0} :
             /\ Len(work') = n
             /\ \A j \in 1 .. n : work'[j] = [at |-> "acting", status |-> "running", attempts |-> 1,
                                            rejected |-> FALSE, record |-> Len(history) + j]
      BY <1>1, <1>10, Taken
    <3>2. \A j \in 1 .. Len(work') : work'[j].at = "acting"
      BY <3>1
    <3> QED
      BY <3>2 DEF awaited
  <2>2. ~ awaited
    BY <1>1, <1>6, <1>10 DEF TakeBatch, PhasesAgree
  <2> QED
    BY <1>3, <1>4, <1>10, <2>1, <2>2 DEF TakeBatch
<1>11. CASE phase = "batch" /\ \E i \in 1 .. Len(work) : ProcessStep(i)
  <2>1. PICK i \in 1 .. Len(work) : ProcessStep(i)
    BY <1>11
  <2>2. UNCHANGED phase /\ Len(work') = Len(work) /\ work[i].at # "settled"
        /\ \A j \in 1 .. Len(work) \ {i} : work'[j] = work[j]
    BY <1>1, <2>1, Processed DEF Kept
  <2>3. CASE work'[i].at = "settled" /\ work'[i].status = "awaiting_approval" /\ row' = "awaiting_approval"
    <3>1. awaited'
      BY <2>2, <2>3 DEF awaited
    <3> QED
      BY <1>3, <1>4, <1>8, <1>11, <2>2, <2>3, <3>1 DEF Row!RowNext, Row!RunStep, Row!Gate
  <2>4. CASE ~ (work'[i].at = "settled" /\ work'[i].status = "awaiting_approval") /\ UNCHANGED row
    <3>1. awaited' <=> awaited
      BY <2>2, <2>4 DEF awaited
    <3> QED
      BY <1>3, <1>4, <1>11, <2>2, <2>4, <3>1
  <2> QED
    BY <1>1, <2>1, <2>3, <2>4, Processed
<1>12. CASE HandleRejected \/ HandleResult
  BY <1>3, <1>4, <1>7, <1>8, <1>12
     DEF HandleRejected, HandleResult, Handling, slots, Row!RowNext, Row!RunStep, Row!Progress
<1>13. CASE HandleApproval
  <2>1. awaited
    BY <1>1, <1>2, <1>13 DEF HandleApproval, Handling, PhasesAgree, awaited
  <2> QED
    BY <1>3, <1>5, <1>13, <2>1 DEF HandleApproval, Handling, Row!RowNext, Row!RunStep, Row!Pause
<1>14. CASE Finish
  <2>1. CASE stepError
    BY <1>3, <1>5, <1>8, <1>14, <2>1 DEF Finish, Verdict, Row!RowNext, Row!RunStep, Row!Fail
  <2>2. CASE ~ stepError
    BY <1>3, <1>5, <1>6, <1>14, <2>2 DEF Finish, Verdict, Row!RowNext, Row!RunStep, Row!Complete
  <2> QED
    BY <2>1, <2>2
<1>15. CASE Abort
  BY <1>3, <1>5, <1>8, <1>15 DEF Abort, Row!RowNext, Row!RunStep, Row!Fail
<1>16. CASE Throw \/ Crash
  BY <1>3, <1>5, <1>16 DEF Throw, Crash, Row!RowNext, Row!RunStep, Row!Vanish
<1>17. CASE UNCHANGED vars
  BY <1>17 DEF vars, slots, RunOf
<1>18. CASE UNCHANGED <<work, row>> /\ phase \notin {"new", "done"} /\ phase' \notin {"new", "done"}
  BY <1>3, <1>4, <1>7, <1>18
<1>19. CASE Exhausted \/ AllSettled \/ SkipOne \/ Advance \/ BatchDone \/ UpdateFails
  BY <1>18, <1>19 DEF Exhausted, AllSettled, SkipOne, Advance, BatchDone, UpdateFails, Handling, slots
<1> QED
  BY <1>9, <1>10, <1>11, <1>12, <1>13, <1>14, <1>15, <1>16, <1>17, <1>19 DEF Next, Run

\* The executor implements WorkflowRow: it pauses or ends once, it completes
\* only a run in which no approval is awaited, and it leaves the row of a run
\* that ended alone.
THEOREM ImplementsTheRow == Spec => ImplementsRow
<1>1. Init => Row!RowInit
  BY AbstractInit
<1>2. Orderly /\ [Next]_vars => [Row!RowNext]_Row!rowVars
  BY AbstractStep
<1> QED
  BY <1>1, <1>2, OrderlyAlways, PTL DEF Spec, ImplementsRow, Row!RowSpec

-------------------------------------------------------------------------------
(* The counters of executeDag. *)

\* The steps whose successors were told of them: all that are done but the one
\* whose branch is being skipped.
Closed == IF phase = "skip" THEN Done \ {Current} ELSE Done

\* The steps of the batch whose results are still to be handled.
Pending == {batch[i] : i \in Open}

Over == {"abort", "done"}

LEMMA Fewer ==
  ASSUME NEW D, IsFiniteSet(D), NEW C
  PROVE  /\ Cardinality(D \ C) \in Nat
         /\ \A E : C \subseteq E => Cardinality(D \ E) <= Cardinality(D \ C)
         /\ Cardinality(D \ C) <= 0 <=> D \subseteq C
<1>1. IsFiniteSet(D \ C) /\ Cardinality(D \ C) \in Nat
  <2>1. IsFiniteSet(D \ C)
    <3>1. D \ C \in SUBSET D
      OBVIOUS
    <3> QED
      BY <3>1, FS_Subset
  <2> QED
    BY <2>1, FS_CardinalityType
<1>2. ASSUME NEW E, C \subseteq E PROVE Cardinality(D \ E) <= Cardinality(D \ C)
  <2>1. D \ E \in SUBSET (D \ C)
    BY <1>2
  <2> QED
    BY <1>1, <2>1, FS_Subset
<1>3. Cardinality(D \ C) <= 0 <=> D \subseteq C
  <2>1. Cardinality(D \ C) = 0 <=> D \ C = {}
    BY <1>1, FS_EmptySet
  <2>2. Cardinality(D \ C) <= 0 <=> Cardinality(D \ C) = 0
    BY <1>1
  <2> QED
    BY <2>1, <2>2
<1> QED
  BY <1>1, <1>2, <1>3

LEMMA OneLess ==
  ASSUME NEW D, IsFiniteSet(D), NEW C, NEW c, c \notin C
  PROVE  Cardinality(D \ (C \cup {c})) = IF c \in D THEN Cardinality(D \ C) - 1 ELSE Cardinality(D \ C)
<1>1. IsFiniteSet(D \ C)
  <2>1. D \ C \in SUBSET D
    OBVIOUS
  <2> QED
    BY <2>1, FS_Subset
<1>2. D \ (C \cup {c}) = (D \ C) \ {c} /\ (c \in D \ C <=> c \in D)
  OBVIOUS
<1>3. Cardinality((D \ C) \ {c}) = IF c \in D \ C THEN Cardinality(D \ C) - 1 ELSE Cardinality(D \ C)
  BY <1>1, FS_RemoveElement
<1> QED
  BY <1>2, <1>3

LEMMA DepsAreFinite ==
  ASSUME wf \in Workflows, NEW s \in Ids
  PROVE  IsFiniteSet(wf.deps[s]) /\ wf.deps[s] \subseteq Ids
<1>1. IsFiniteSet(Ids) /\ wf.deps[s] \in SUBSET Ids
  BY StepsAreFinite, Definition
<1>2. IsFiniteSet(wf.deps[s])
  BY <1>1, FS_Subset
<1> QED
  BY <1>1, <1>2

\* What enqueueSuccessors of a step that was not closed does to a counter.
LEMMA Counting ==
  ASSUME TypeOK, NEW C, NEW c, c \notin C, NEW D, EnqueueSuccessors(c, D), NEW s \in Ids \ D
  PROVE  /\ inDegree[s] <= Cardinality(wf.deps[s] \ C)
              => /\ inDegree'[s] <= Cardinality(wf.deps[s] \ (C \cup {c}))
                 /\ c \in wf.deps[s] /\ wf.deps[s] \subseteq C \cup {c} => s \in Range(ready')
         /\ inDegree[s] >= Cardinality(wf.deps[s] \ C)
              => /\ inDegree'[s] >= Cardinality(wf.deps[s] \ (C \cup {c}))
                 /\ s \in Range(ready') => s \in Range(ready) \/ wf.deps[s] \subseteq C \cup {c}
<1>1. wf \in Workflows /\ inDegree[s] \in Int
  BY DEF TypeOK
<1>2. IsFiniteSet(wf.deps[s])
  BY <1>1, DepsAreFinite
<1> DEFINE owed == Cardinality(wf.deps[s] \ C)
           left == Cardinality(wf.deps[s] \ (C \cup {c}))
<1>3. /\ owed \in Nat /\ left \in Nat
      /\ left = IF c \in wf.deps[s] THEN owed - 1 ELSE owed
      /\ left <= 0 <=> wf.deps[s] \subseteq C \cup {c}
  <2>1. \A X : Cardinality(wf.deps[s] \ X) \in Nat
    BY <1>2, Fewer
  <2>2. left = IF c \in wf.deps[s] THEN owed - 1 ELSE owed
    BY <1>2, OneLess
  <2>3. owed \in Nat /\ left \in Nat
    BY <2>1
  <2>4. left <= 0 <=> wf.deps[s] \subseteq C \cup {c}
    BY <1>2, Fewer, Zenon
  <2> QED
    BY <2>2, <2>3, <2>4
<1>4. s \in Successors(c, D) <=> c \in wf.deps[s]
  BY DEF Successors
<1>5. inDegree'[s] = IF c \in wf.deps[s] THEN inDegree[s] - 1 ELSE inDegree[s]
  BY <1>4, Enqueued
<1>6. s \in Range(ready') <=> s \in Range(ready) \/ (c \in wf.deps[s] /\ inDegree[s] - 1 <= 0)
  BY <1>4, Enqueued
<1> HIDE DEF owed, left
<1>7. inDegree[s] <= owed
         => /\ inDegree'[s] <= left
            /\ c \in wf.deps[s] /\ wf.deps[s] \subseteq C \cup {c} => s \in Range(ready')
  BY <1>1, <1>3, <1>5, <1>6
<1>8. inDegree[s] >= owed
         => /\ inDegree'[s] >= left
            /\ s \in Range(ready') => s \in Range(ready) \/ wf.deps[s] \subseteq C \cup {c}
  BY <1>1, <1>3, <1>5, <1>6
<1> QED
  BY <1>7, <1>8 DEF owed, left

\* It adds no step that waits in ready already, if none of those depends on c.
LEMMA ReadyOnce ==
  ASSUME TypeOK, NEW c, NEW D, EnqueueSuccessors(c, D), NEW G,
         \A i, j \in 1 .. Len(ready) : ready[i] = ready[j] /\ ready[i] \notin G => i = j,
         \A s \in Range(ready) : s \in G \/ c \notin wf.deps[s]
  PROVE  \A i, j \in 1 .. Len(ready') : ready'[i] = ready'[j] /\ ready'[i] \notin G => i = j
<1> DEFINE S == {s \in Successors(c, D) : inDegree[s] - 1 <= 0}
           a == Among(wf.order, S)
<1>1. S \in SUBSET Ids /\ \A s \in S : c \in wf.deps[s]
  BY DEF Successors
<1>2. ready \in Seq(Ids) /\ wf \in Workflows
  BY DEF TypeOK
<1>3. ready' = ready \o a
  BY DEF EnqueueSuccessors
<1> HIDE DEF S
<1>4. a \in Seq(Ids) /\ Range(a) = S /\ \A i, j \in 1 .. Len(a) : a[i] = a[j] => i = j
  BY <1>1, <1>2, InOrder
<1> HIDE DEF a
<1>5. \A i \in 1 .. Len(a) : c \in wf.deps[a[i]]
  BY <1>1, <1>4 DEF Range
<1>6. \A i \in 1 .. Len(ready) : ready[i] \in G \/ c \notin wf.deps[ready[i]]
  BY <1>2 DEF Range
<1>7. Len(ready) \in Nat /\ Len(a) \in Nat /\ Len(ready') = Len(ready) + Len(a)
  BY <1>2, <1>3, <1>4
<1>8. \A i \in 1 .. Len(ready') :
         \/ i \in 1 .. Len(ready) /\ ready'[i] = ready[i]
         \/ i - Len(ready) \in 1 .. Len(a) /\ ready'[i] = a[i - Len(ready)]
  BY <1>2, <1>3, <1>4, <1>7
<1> SUFFICES ASSUME NEW i \in 1 .. Len(ready'), NEW j \in 1 .. Len(ready'),
                    ready'[i] = ready'[j], ready'[i] \notin G
             PROVE  i = j
  OBVIOUS
<1>9. CASE i \in 1 .. Len(ready) /\ ready'[i] = ready[i]
  <2>1. j \in 1 .. Len(ready) /\ ready'[j] = ready[j]
    BY <1>5, <1>6, <1>8, <1>9
  <2> QED
    BY <1>9, <2>1
<1>10. CASE i - Len(ready) \in 1 .. Len(a) /\ ready'[i] = a[i - Len(ready)]
  <2>1. j - Len(ready) \in 1 .. Len(a) /\ ready'[j] = a[j - Len(ready)]
    BY <1>5, <1>6, <1>8, <1>10
  <2>2. i - Len(ready) = j - Len(ready)
    BY <1>4, <1>10, <2>1
  <2> QED
    BY <1>7, <2>2
<1> QED
  BY <1>8, <1>9, <1>10

\* The steps that leave the counters, and what is closed and pending, alone.
Quiet ==
    /\ UNCHANGED <<wf, ready, inDegree, completed, skipped, stepError, batch, Closed, Pending>>
    /\ Len(history') = Len(history)
    /\ \A k \in 1 .. Len(history) : history'[k].step = history[k].step
    /\ phase' \notin Over => phase \notin Over
    /\ phase' # "new" => phase # "new"
    /\ phase' = "skip" => phase = "skip" /\ Range(toSkip') \subseteq Range(toSkip)
    /\ stepError /\ cursor > Len(batch) => cursor' > Len(batch)

\* A step whose successors are told: the one at the cursor, or one that is skipped.
Close(c) ==
    /\ phase = "skip" /\ c \in Ids /\ c \notin Closed
    /\ EnqueueSuccessors(c, Done')
    /\ UNCHANGED <<wf, stepError, batch, Pending>>
    /\ Closed' = Closed \cup {c}
    /\ completed' = completed
    /\ cursor' >= cursor
    /\ \/ phase' = "results" /\ c \in Done /\ UNCHANGED <<skipped, history>>
       \/ /\ UNCHANGED <<phase, cursor>>
          /\ c \in Range(toSkip) \ Done /\ skipped' = skipped \cup {c}
          /\ history' = Append(history, [step |-> c, status |-> "skipped"])
          /\ Range(toSkip') \subseteq Range(toSkip) \cup Successors(c, Done')

\* A result is handled: its step is done, and told of in the end or not at all.
Handle ==
    /\ phase = "results" /\ cursor \in 1 .. Len(batch)
    /\ UNCHANGED <<wf, ready, inDegree, batch, history>>
    /\ Done' = Done \cup {Current}
    /\ Pending = Pending' \cup {Current} \/ (stepError' /\ Pending' = {})
    /\ Pending' \subseteq {batch[i] : i \in cursor + 1 .. Len(batch)}
    /\ \/ stepError' /\ phase' = "results" /\ (Pending' = {} => cursor' > Len(batch))
       \/ /\ phase' = "skip" /\ UNCHANGED <<stepError, cursor>>
          /\ Range(toSkip') \subseteq {s \in Ids : s \in Range(wf.branch[Current]) /\ wf.branch[Current] # NoBranch}

LEMMA StepsOfTheDag ==
  ASSUME Orderly, [Next]_vars
  PROVE  \/ Create \/ TakeBatch \/ Exhausted \/ Quiet \/ Handle
         \/ \E c \in Ids : Close(c)
         \/ phase' \in Over /\ UNCHANGED <<wf, history>>
<1>1. TypeOK /\ PhasesAgree
  BY DEF Orderly
<1>2. /\ Len(work) = Len(batch) /\ Len(batch) \in Nat /\ cursor \in Nat \ {0}
  BY <1>1, Lengths
<1>3. CASE phase = "batch" /\ \E i \in 1 .. Len(work) : ProcessStep(i)
  <2>1. /\ UNCHANGED Kept
        /\ Len(history') = Len(history) /\ \A k \in 1 .. Len(history) : history'[k].step = history[k].step
    BY <1>1, <1>3, Processed
  <2> QED
    BY <2>1 DEF Kept, dag, skipping, Quiet, Closed, Pending, Open, Done, Current
<1>4. CASE AllSettled
  <2>1. UNCHANGED <<Open, batch>>
    BY <1>2, <1>4 DEF AllSettled, Open
  <2>2. UNCHANGED <<Closed, Pending>>
    BY <1>4, <2>1 DEF AllSettled, dag, Closed, Pending, Done
  <2> QED
    BY <1>1, <1>4, <2>2 DEF AllSettled, dag, Quiet, PhasesAgree, Over
<1>5. CASE BatchDone
  BY <1>5 DEF BatchDone, dag, slots, Quiet, Closed, Pending, Open, Done, Over
<1>6. CASE UNCHANGED vars
  BY <1>6 DEF vars, dag, slots, skipping, Quiet, Closed, Pending, Open, Done, Current
<1>7. CASE HandleRejected
  <2>1. phase' = "results" /\ cursor \in 1 .. Len(batch) /\ stepError' /\ UNCHANGED <<wf, batch>>
    BY <1>2, <1>7 DEF HandleRejected, Handling
  <2>2. Done' = Done \cup {Current}
    BY <1>7 DEF HandleRejected, Done
  <2>3. cursor' = cursor + 1 \/ cursor' = Len(batch) + 1
    BY <1>7 DEF HandleRejected
  <2>4. Pending = {batch[i] : i \in cursor .. Len(batch)} /\ Pending' = {batch[i] : i \in cursor' .. Len(batch)}
    BY <2>1, <1>7 DEF HandleRejected, Handling, Pending, Open
  <2>5. CASE cursor' = cursor + 1
    <3>1. Pending = Pending' \cup {Current}
      <4>1. cursor .. Len(batch) = (cursor + 1 .. Len(batch)) \cup {cursor}
        BY <1>2, <2>1
      <4> QED
        BY <2>4, <2>5, <4>1 DEF Current
    <3>2. Pending' = {} => cursor' > Len(batch)
      <4>1. cursor' \in Nat /\ Len(batch) \in Nat
        BY <1>2, <2>1, <2>5
      <4>2. cursor' <= Len(batch) => batch[cursor'] \in Pending'
        BY <2>4, <4>1
      <4> QED
        BY <4>1, <4>2
    <3> QED
      BY <1>7, <2>1, <2>2, <2>4, <2>5, <3>1, <3>2 DEF HandleRejected, Handling, Handle
  <2>6. CASE cursor' = Len(batch) + 1
    <3>1. Pending' = {} /\ cursor' > Len(batch)
      BY <1>2, <2>4, <2>6
    <3> QED
      BY <1>7, <2>1, <2>2, <3>1 DEF HandleRejected, Handling, Handle
  <2> QED
    BY <2>3, <2>5, <2>6
<1>8. CASE HandleResult
  <2>1. phase = "results" /\ phase' = "skip" /\ cursor \in 1 .. Len(batch) /\ UNCHANGED <<wf, batch, stepError, cursor>>
    BY <1>2, <1>8 DEF HandleResult, Handling, slots
  <2>2. Done' = Done \cup {Current}
    BY <1>8 DEF HandleResult, Done
  <2>3. /\ Pending = {batch[i] : i \in cursor .. Len(batch)}
        /\ Pending' = {batch[i] : i \in cursor + 1 .. Len(batch)}
    BY <2>1 DEF Pending, Open
  <2>4. Pending = Pending' \cup {Current}
    <3>1. cursor .. Len(batch) = (cursor + 1 .. Len(batch)) \cup {cursor}
      BY <1>2, <2>1
    <3> QED
      BY <2>3, <3>1 DEF Current
  <2>5. Range(toSkip') \subseteq {s \in Ids : s \in Range(wf.branch[Current]) /\ wf.branch[Current] # NoBranch}
    <3>1. toSkip' = NotTaken
      BY <1>8 DEF HandleResult
    <3>2. CASE NotTaken = <<>>
      <4>1. Range(<<>>) = {}
        BY DEF Range
      <4> QED
        BY <3>1, <3>2, <4>1
    <3>3. CASE NotTaken # <<>>
      <4>1. PICK s \in Ids : NotTaken = <<s>> /\ s \in Range(wf.branch[Current])
        BY <1>1, <2>1, <3>3, AtCursor
      <4>2. wf.branch[Current] # NoBranch
        BY <3>3 DEF NotTaken
      <4>3. Range(<<s>>) = {s}
        BY DEF Range
      <4> QED
        BY <3>1, <4>1, <4>2, <4>3
    <3> QED
      BY <3>2, <3>3
  <2> QED
    BY <1>8, <2>1, <2>2, <2>3, <2>4, <2>5 DEF HandleResult, Handle
<1>9. CASE SkipOne
  <2>1. phase = "skip" /\ UNCHANGED <<wf, phase, completed, stepError, batch, cursor>>
    BY <1>9 DEF SkipOne, slots
  <2>2. UNCHANGED <<Pending, Current>> /\ Current \in Done
    BY <1>1, <2>1 DEF Pending, Open, Current, PhasesAgree
  <2>3. CASE Range(toSkip') \subseteq Range(toSkip) /\ UNCHANGED <<skipped, history, inDegree, ready>>
    BY <2>1, <2>2, <2>3 DEF Quiet, Closed, Done, Over
  <2>4. CASE ~ (Range(toSkip') \subseteq Range(toSkip) /\ UNCHANGED <<skipped, history, inDegree, ready>>)
    <3> DEFINE c == Head(toSkip)
    <3>1. /\ c \in Range(toSkip) /\ c \in Ids /\ c \notin Done
          /\ skipped' = skipped \cup {c}
          /\ history' = Append(history, [step |-> c, status |-> "skipped"])
          /\ EnqueueSuccessors(c, Done \cup {c})
          /\ Range(toSkip') \subseteq Range(toSkip) \cup Successors(c, Done \cup {c})
      BY <1>1, <1>9, <2>4, SkippedOne
    <3> HIDE DEF c
    <3>2. Done' = Done \cup {c}
      BY <2>1, <3>1 DEF Done
    <3>3. Closed = Done \ {Current} /\ Closed' = (Done \cup {c}) \ {Current}
      BY <2>1, <2>2, <3>2 DEF Closed
    <3>4. c \notin Closed /\ Closed' = Closed \cup {c}
      BY <2>2, <3>1, <3>3
    <3>5. cursor' >= cursor
      BY <1>2, <2>1
    <3>6. EnqueueSuccessors(c, Done')
      BY <3>1, <3>2
    <3>7. Successors(c, Done') = Successors(c, Done \cup {c})
      BY <3>2
    <3> QED
      BY <2>1, <2>2, <3>1, <3>4, <3>5, <3>6, <3>7 DEF Close
  <2> QED
    BY <2>3, <2>4
<1>10. CASE Advance
  <2>1. phase = "skip" /\ phase' = "results" /\ cursor' = cursor + 1 /\ EnqueueSuccessors(Current, Done)
        /\ UNCHANGED <<wf, completed, skipped, stepError, batch, history>>
    BY <1>10 DEF Advance
  <2>2. UNCHANGED Pending
    BY <2>1 DEF Pending, Open
  <2>3. cursor \in 1 .. Len(batch) /\ Current \in Done /\ Current \in Ids
    BY <1>1, <2>1, AtCursor DEF PhasesAgree
  <2>4. UNCHANGED Done
    BY <2>1 DEF Done
  <2>5. Current \notin Closed /\ Closed' = Closed \cup {Current}
    BY <2>1, <2>3, <2>4 DEF Closed
  <2>6. cursor' >= cursor
    BY <1>2, <2>1
  <2>7. EnqueueSuccessors(Current, Done')
    BY <2>1, <2>4
  <2> QED
    BY <2>1, <2>2, <2>3, <2>5, <2>6, <2>7 DEF Close
<1>11. CASE HandleApproval \/ Finish \/ UpdateFails \/ Abort \/ Throw \/ Crash
  BY <1>11 DEF HandleApproval, Finish, UpdateFails, Abort, Throw, Crash, Over
<1> QED
  BY <1>3, <1>4, <1>5, <1>6, <1>7, <1>8, <1>9, <1>10, <1>11 DEF Next, Run

\* TakeBatch divides the steps in ready that are not done into the batch and
\* what stays there, and takes no step twice if ready does not hold it twice.
LEMMA TakenApart ==
  ASSUME Orderly, TakeBatch
  PROVE  /\ phase = "loop" /\ phase' = "batch" /\ UNCHANGED <<wf, inDegree, stepError, Done>>
         /\ Pending = {} /\ Pending' = Range(batch') /\ Closed = Done /\ Closed' = Done
         /\ Range(batch') \cup Range(ready') = Range(ready) \ Done
         /\ (\A i, j \in 1 .. Len(ready) : ready[i] = ready[j] /\ ready[i] \notin Done => i = j)
              => /\ Range(batch') \cap Range(ready') = {}
                 /\ \A i, j \in 1 .. Len(ready') : ready'[i] = ready'[j] => i = j
                 /\ \A i, j \in 1 .. Len(batch') : batch'[i] = batch'[j] => i = j
<1>1. TypeOK /\ PhasesAgree /\ ready \in Seq(Ids)
  BY DEF Orderly, TypeOK
<1>2. /\ Len(work) = Len(batch) /\ Len(batch) \in Nat /\ cursor \in Nat \ {0}
  BY <1>1, Lengths
<1>3. /\ phase = "loop" /\ phase' = "batch"
      /\ UNCHANGED <<wf, inDegree, completed, skipped, stepError, cursor>>
  BY DEF TakeBatch
<1>4. UNCHANGED Done /\ Closed = Done /\ Closed' = Done
  BY <1>3 DEF Done, Closed
<1>5. Pending = {}
  BY <1>1, <1>2, <1>3 DEF PhasesAgree, Pending, Open
<1>6. PICK fresh \in Seq(Ids), n \in Nat \ {0} :
         /\ fresh = Among(ready, Ids \ Done)
         /\ n <= Len(fresh)
         /\ batch' \in Seq(Ids) /\ Len(batch') = n
         /\ \A i \in 1 .. n : batch'[i] = fresh[i]
         /\ ready' \in Seq(Ids) /\ Len(ready') = Len(fresh) - n
         /\ \A i \in 1 .. Len(fresh) - n : ready'[i] = fresh[i + n]
  BY <1>1, Taken
<1>7. Range(fresh) = Range(ready) \cap (Ids \ Done)
  BY <1>1, <1>6, AmongThem
<1>8. Len(fresh) \in Nat /\ DOMAIN fresh = 1 .. Len(fresh) /\ DOMAIN batch' = 1 .. n
      /\ DOMAIN ready' = 1 .. Len(fresh) - n /\ DOMAIN ready = 1 .. Len(ready)
  BY <1>1, <1>6
<1>9. Range(ready) \subseteq Ids
  BY <1>1 DEF Range
<1>10. Pending' = Range(batch')
  BY <1>3, <1>6, <1>8 DEF Pending, Open, Range
<1>b. ASSUME NEW x \in Range(batch') PROVE \E i \in 1 .. n : x = fresh[i]
  <2>1. PICK i \in DOMAIN batch' : x = batch'[i]
    BY <1>b DEF Range
  <2> QED
    BY <1>6, <1>8, <2>1
<1>r. ASSUME NEW x \in Range(ready') PROVE \E i \in 1 .. Len(fresh) - n : x = fresh[i + n]
  <2>1. PICK i \in DOMAIN ready' : x = ready'[i]
    BY <1>r DEF Range
  <2> QED
    BY <1>6, <1>8, <2>1
<1>11. Range(batch') \cup Range(ready') = Range(fresh)
  <2>1. \A i \in 1 .. n : i \in 1 .. Len(fresh)
    BY <1>6, <1>8
  <2>2. \A i \in 1 .. Len(fresh) - n : i + n \in 1 .. Len(fresh)
    BY <1>6, <1>8
  <2>3. Range(batch') \cup Range(ready') \subseteq Range(fresh)
    <3>1. ASSUME NEW x \in Range(batch') PROVE x \in Range(fresh)
      BY <1>8, <1>b, <2>1 DEF Range
    <3>2. ASSUME NEW x \in Range(ready') PROVE x \in Range(fresh)
      BY <1>8, <1>r, <2>2 DEF Range
    <3> QED
      BY <3>1, <3>2
  <2>4. ASSUME NEW i \in 1 .. Len(fresh)
        PROVE  fresh[i] \in Range(batch') \cup Range(ready')
    <3>1. CASE i <= n
      <4>1. i \in 1 .. n
        BY <1>6, <1>8, <3>1
      <4> QED
        BY <1>6, <1>8, <4>1 DEF Range
    <3>2. CASE ~ (i <= n)
      <4>1. i - n \in 1 .. Len(fresh) - n /\ (i - n) + n = i
        BY <1>6, <1>8, <3>2
      <4>2. ready'[i - n] = fresh[i]
        BY <1>6, <4>1
      <4> QED
        BY <1>8, <4>1, <4>2 DEF Range
    <3> QED
      BY <3>1, <3>2
  <2> QED
    BY <1>8, <2>3, <2>4 DEF Range
<1>12. ASSUME \A i, j \in 1 .. Len(ready) : ready[i] = ready[j] /\ ready[i] \notin Done => i = j
       PROVE  /\ Range(batch') \cap Range(ready') = {}
              /\ \A i, j \in 1 .. Len(ready') : ready'[i] = ready'[j] => i = j
              /\ \A i, j \in 1 .. Len(batch') : batch'[i] = batch'[j] => i = j
  <2>1. \A i, j \in 1 .. Len(ready) : ready[i] = ready[j] /\ ready[i] \in Ids \ Done => i = j
    BY <1>12
  <2>2. \A i, j \in 1 .. Len(fresh) : fresh[i] = fresh[j] => i = j
    <3>1. \A i, j \in 1 .. Len(Among(ready, Ids \ Done)) :
             Among(ready, Ids \ Done)[i] = Among(ready, Ids \ Done)[j] => i = j
      BY <1>1, <2>1, AmongThem
    <3> QED
      BY <1>6, <3>1
  <2>3. \A i \in 1 .. n : i \in 1 .. Len(fresh)
    BY <1>6, <1>8
  <2>4. \A i \in 1 .. Len(fresh) - n : i + n \in 1 .. Len(fresh)
    BY <1>6, <1>8
  <2>5. ASSUME NEW x \in Range(batch') \cap Range(ready') PROVE FALSE
    <3>1. PICK i \in 1 .. n : x = fresh[i]
      BY <1>b, <2>5
    <3>2. PICK j \in 1 .. Len(fresh) - n : x = fresh[j + n]
      BY <1>r, <2>5
    <3>3. i = j + n
      BY <2>2, <2>3, <2>4, <3>1, <3>2
    <3> QED
      BY <1>6, <1>8, <3>3
  <2>6. ASSUME NEW i \in 1 .. Len(ready'), NEW j \in 1 .. Len(ready'), ready'[i] = ready'[j] PROVE i = j
    <3>1. i \in 1 .. Len(fresh) - n /\ j \in 1 .. Len(fresh) - n
      BY <1>6
    <3>2. fresh[i + n] = fresh[j + n]
      BY <1>6, <2>6, <3>1
    <3>3. i + n = j + n
      BY <2>2, <2>4, <3>1, <3>2
    <3> QED
      BY <1>6, <3>1, <3>3
  <2>7. ASSUME NEW i \in 1 .. Len(batch'), NEW j \in 1 .. Len(batch'), batch'[i] = batch'[j] PROVE i = j
    <3>1. i \in 1 .. n /\ j \in 1 .. n
      BY <1>6
    <3>2. fresh[i] = fresh[j]
      BY <1>6, <2>7, <3>1
    <3> QED
      BY <2>2, <2>3, <3>1, <3>2
  <2> QED
    BY <2>5, <2>6, <2>7
<1> QED
  BY <1>3, <1>4, <1>5, <1>7, <1>9, <1>10, <1>11, <1>12

\* While nothing has failed, the counter of a step that is not done is at most
\* the number of the steps that it still waits for, and one that waits for none
\* is in ready or in the batch, from where it will be done.
Counted ==
    /\ phase \notin Over /\ ~ stepError =>
          \A s \in Ids \ Done : inDegree[s] <= Cardinality(wf.deps[s] \ Closed)
    /\ phase \notin Over \cup {"new"} /\ ~ stepError =>
          \A s \in Ids \ Done : wf.deps[s] \subseteq Closed => s \in Range(ready) \cup Pending

LEMMA CountedKept ==
  ASSUME Orderly, Counted, [Next]_vars
  PROVE  Counted'
<1> SUFFICES ASSUME phase' \notin Over, ~ stepError', NEW s \in Ids' \ Done'
             PROVE  /\ inDegree'[s] <= Cardinality(wf'.deps[s] \ Closed')
                    /\ phase' # "new" /\ wf'.deps[s] \subseteq Closed' => s \in Range(ready') \cup Pending'
  BY DEF Counted
<1>1. TypeOK /\ PhasesAgree /\ wf \in Workflows
  BY DEF Orderly, TypeOK
<1>2. /\ Len(work) = Len(batch) /\ Len(batch) \in Nat /\ cursor \in Nat \ {0}
  BY <1>1, Lengths
<1>3. CASE Create
  <2>1. /\ phase = "new" /\ phase' = "loop" /\ UNCHANGED <<wf, inDegree, completed, skipped, stepError>>
        /\ ready' = Among(wf.order, {e \in Ids : wf.deps[e] = {}})
    BY <1>3 DEF Create
  <2>2. Done = {} /\ Done' = {} /\ Closed = {} /\ Closed' = {} /\ s \in Ids
    BY <1>1, <2>1 DEF PhasesAgree, Closed, Done, Ids
  <2>3. inDegree[s] <= Cardinality(wf.deps[s] \ Closed)
    BY <2>1, <2>2 DEF Counted, Over
  <2>4. Range(ready') = {e \in Ids : wf.deps[e] = {}}
    <3> DEFINE E == {e \in Ids : wf.deps[e] = {}}
    <3>1. E \in SUBSET Ids /\ ready' = Among(wf.order, E)
      BY <2>1
    <3> HIDE DEF E
    <3>2. Range(ready') = E
      BY <1>1, <3>1, InOrder
    <3> QED
      BY <3>2 DEF E
  <2> QED
    BY <2>1, <2>2, <2>3, <2>4
<1>4. CASE TakeBatch
  <2>1. /\ phase = "loop" /\ UNCHANGED <<wf, inDegree, stepError, Done>>
        /\ Pending = {} /\ Pending' = Range(batch') /\ Closed' = Closed
        /\ Range(batch') \cup Range(ready') = Range(ready) \ Done
    BY <1>4, TakenApart
  <2>2. s \in Ids \ Done
    BY <2>1 DEF Ids
  <2> QED
    BY <2>1, <2>2 DEF Counted, Over
<1>5. CASE Exhausted
  <2>1. phase = "loop" /\ phase' = "finish" /\ UNCHANGED <<wf, inDegree, completed, skipped, stepError, batch, cursor>>
    BY <1>5 DEF Exhausted, slots
  <2>2. UNCHANGED <<Done, Closed, Pending>> /\ s \in Ids \ Done
    BY <2>1 DEF Done, Closed, Pending, Open, Ids
  <2>3. s \notin Range(ready)
    BY <1>1, <1>5, <2>2 DEF Exhausted, Range, TypeOK
  <2> QED
    BY <2>1, <2>2, <2>3 DEF Counted, Over
<1>6. CASE Quiet
  <2>1. UNCHANGED <<wf, inDegree, ready, stepError, Done, Closed, Pending>> /\ s \in Ids \ Done
    BY <1>6 DEF Quiet, Done, Ids
  <2> QED
    BY <1>6, <2>1 DEF Counted, Quiet
<1>7. CASE Handle
  <2>1. /\ phase = "results" /\ phase' = "skip"
        /\ UNCHANGED <<wf, inDegree, ready, stepError, batch, cursor>>
        /\ Done' = Done \cup {Current} /\ Pending = Pending' \cup {Current}
    BY <1>7 DEF Handle
  <2>2. Closed = Done /\ Closed' \subseteq Done /\ s \in Ids \ Done /\ s # Current
    BY <2>1 DEF Closed, Current, Ids
  <2>3. IsFiniteSet(wf.deps[s])
    BY <1>1, <2>2, DepsAreFinite
  <2>4. Cardinality(wf.deps[s] \ Closed) <= Cardinality(wf.deps[s] \ Closed')
    BY <2>2, <2>3, Fewer
  <2>5. Cardinality(wf.deps[s] \ Closed) \in Nat
    BY <2>3, Fewer
  <2>6. Cardinality(wf.deps[s] \ Closed') \in Nat
    BY <2>3, Fewer
  <2>7. inDegree[s] \in Int /\ inDegree[s] <= Cardinality(wf.deps[s] \ Closed)
    BY <1>1, <2>1, <2>2 DEF Counted, Over, TypeOK
  <2>8. inDegree'[s] <= Cardinality(wf.deps[s] \ Closed')
    BY <2>1, <2>4, <2>5, <2>6, <2>7
  <2> QED
    BY <2>1, <2>2, <2>8 DEF Counted, Over
<1>8. ASSUME NEW c \in Ids, Close(c)
      PROVE  /\ inDegree'[s] <= Cardinality(wf'.deps[s] \ Closed')
             /\ phase' # "new" /\ wf'.deps[s] \subseteq Closed' => s \in Range(ready') \cup Pending'
  <2>1. /\ phase = "skip" /\ c \notin Closed /\ EnqueueSuccessors(c, Done')
        /\ UNCHANGED <<wf, stepError, Pending>> /\ Closed' = Closed \cup {c} /\ Done \subseteq Done'
    BY <1>8 DEF Close, Done
  <2>2. s \in Ids \ Done' /\ s \in Ids \ Done
    BY <2>1 DEF Ids
  <2>3. /\ inDegree[s] <= Cardinality(wf.deps[s] \ Closed)
        /\ wf.deps[s] \subseteq Closed => s \in Range(ready) \cup Pending
    BY <2>1, <2>2 DEF Counted, Over
  <2>4. /\ inDegree'[s] <= Cardinality(wf.deps[s] \ (Closed \cup {c}))
        /\ c \in wf.deps[s] /\ wf.deps[s] \subseteq Closed \cup {c} => s \in Range(ready')
    BY <1>1, <2>1, <2>2, <2>3, Counting
  <2>5. Range(ready) \subseteq Range(ready')
    BY <1>1, <2>1, Enqueued
  <2> QED
    BY <2>1, <2>3, <2>4, <2>5
<1> QED
  BY <1>3, <1>4, <1>5, <1>6, <1>7, <1>8, StepsOfTheDag

\* The steps of the batch are done, or still to be handled, unless a failure
\* ended the loop over the results.
InTurn ==
    phase \notin Over =>
        Range(batch) \subseteq Done \cup Pending \/ (stepError /\ cursor > Len(batch))

LEMMA InTurnKept ==
  ASSUME Orderly, InTurn, [Next]_vars
  PROVE  InTurn'
<1> SUFFICES ASSUME phase' \notin Over
             PROVE  Range(batch') \subseteq Done' \cup Pending' \/ (stepError' /\ cursor' > Len(batch'))
  BY DEF InTurn
<1>1. TypeOK /\ PhasesAgree
  BY DEF Orderly
<1>2. /\ Len(work) = Len(batch) /\ Len(batch) \in Nat /\ cursor \in Nat \ {0}
  BY <1>1, Lengths
<1>3. CASE Create
  <2>1. batch' = <<>>
    BY <1>1, <1>3 DEF Create, PhasesAgree, slots
  <2>2. Range(<<>>) = {}
    BY DEF Range
  <2> QED
    BY <2>1, <2>2
<1>4. CASE TakeBatch
  BY <1>4, TakenApart
<1>5. CASE Exhausted
  <2>1. phase = "loop" /\ phase' = "finish" /\ UNCHANGED <<completed, skipped, stepError, batch, cursor>>
    BY <1>5 DEF Exhausted, slots
  <2>2. UNCHANGED <<Done, Pending>>
    BY <2>1 DEF Done, Pending, Open
  <2> QED
    BY <2>1, <2>2 DEF InTurn, Over
<1>6. CASE Quiet
  <2>1. UNCHANGED Done
    BY <1>6 DEF Quiet, Done
  <2> QED
    BY <1>6, <2>1 DEF Quiet, InTurn
<1>7. CASE Handle
  <2>1. phase = "results" /\ cursor \in 1 .. Len(batch) /\ UNCHANGED batch /\ Done' = Done \cup {Current}
    BY <1>7 DEF Handle
  <2>2. Range(batch) \subseteq Done \cup Pending
    BY <1>2, <2>1 DEF InTurn, Over
  <2>3. CASE Pending = Pending' \cup {Current}
    BY <2>1, <2>2, <2>3
  <2>4. CASE stepError' /\ Pending' = {} /\ cursor' > Len(batch)
    BY <2>1, <2>4
  <2>5. CASE stepError' /\ Pending' = {} /\ phase' = "skip" /\ UNCHANGED cursor
    <3>1. Pending = {batch[i] : i \in cursor .. Len(batch)} /\ Pending' = {batch[i] : i \in cursor + 1 .. Len(batch)}
      BY <2>1, <2>5 DEF Pending, Open
    <3>2. cursor .. Len(batch) = (cursor + 1 .. Len(batch)) \cup {cursor}
      BY <1>2, <2>1
    <3>3. Pending = Pending' \cup {Current}
      BY <3>1, <3>2 DEF Current
    <3> QED
      BY <2>3, <3>3
  <2> QED
    BY <1>7, <2>3, <2>4, <2>5 DEF Handle
<1>8. ASSUME NEW c \in Ids, Close(c)
      PROVE  Range(batch') \subseteq Done' \cup Pending' \/ (stepError' /\ cursor' > Len(batch'))
  <2>1. phase = "skip" /\ UNCHANGED <<stepError, batch, Pending>> /\ cursor' >= cursor /\ Done \subseteq Done'
    BY <1>8 DEF Close, Done
  <2>2. cursor \in 1 .. Len(batch)
    BY <1>1, <2>1 DEF PhasesAgree
  <2>3. Range(batch) \subseteq Done \cup Pending
    BY <1>2, <2>1, <2>2 DEF InTurn, Over
  <2> QED
    BY <2>1, <2>3
<1> QED
  BY <1>3, <1>4, <1>5, <1>6, <1>7, <1>8, StepsOfTheDag

\* When the branches hang on their conditions no counter falls too early: what
\* is in ready, or in the batch, waits for no step, and is there once.
Hanging ==
    BranchesHang(wf) /\ phase \notin Over =>
        /\ \A s \in Ids \ Done : inDegree[s] >= Cardinality(wf.deps[s] \ Closed)
        /\ \A s \in Range(ready) \ Done : wf.deps[s] \subseteq Closed /\ s \notin Pending
        /\ \A i, j \in 1 .. Len(ready) : ready[i] = ready[j] /\ ready[i] \notin Done => i = j
        /\ \A s \in Pending : s \notin Done /\ wf.deps[s] \subseteq Closed
        /\ \A i, j \in 1 .. Len(batch) : batch[i] = batch[j] => i = j
        /\ phase = "skip" => \A s \in Range(toSkip) : s \notin Pending

LEMMA HangingKept ==
  ASSUME Orderly, Hanging, [Next]_vars, BranchesHang(wf), phase' \notin Over
  PROVE  /\ \A s \in Ids' \ Done' : inDegree'[s] >= Cardinality(wf'.deps[s] \ Closed')
         /\ \A s \in Range(ready') \ Done' : wf'.deps[s] \subseteq Closed' /\ s \notin Pending'
         /\ \A i, j \in 1 .. Len(ready') : ready'[i] = ready'[j] /\ ready'[i] \notin Done' => i = j
         /\ \A s \in Pending' : s \notin Done' /\ wf'.deps[s] \subseteq Closed'
         /\ \A i, j \in 1 .. Len(batch') : batch'[i] = batch'[j] => i = j
         /\ phase' = "skip" => \A s \in Range(toSkip') : s \notin Pending'
<1> DEFINE Goal ==
         /\ \A s \in Ids' \ Done' : inDegree'[s] >= Cardinality(wf'.deps[s] \ Closed')
         /\ \A s \in Range(ready') \ Done' : wf'.deps[s] \subseteq Closed' /\ s \notin Pending'
         /\ \A i, j \in 1 .. Len(ready') : ready'[i] = ready'[j] /\ ready'[i] \notin Done' => i = j
         /\ \A s \in Pending' : s \notin Done' /\ wf'.deps[s] \subseteq Closed'
         /\ \A i, j \in 1 .. Len(batch') : batch'[i] = batch'[j] => i = j
         /\ phase' = "skip" => \A s \in Range(toSkip') : s \notin Pending'
<1>1. TypeOK /\ PhasesAgree /\ wf \in Workflows /\ inDegree \in [Ids -> Int]
  BY DEF Orderly, TypeOK
<1>2. /\ Len(work) = Len(batch) /\ Len(batch) \in Nat /\ cursor \in Nat \ {0}
  BY <1>1, Lengths
<1>3. phase \notin Over
        => /\ \A s \in Ids \ Done : inDegree[s] >= Cardinality(wf.deps[s] \ Closed)
           /\ \A s \in Range(ready) \ Done : wf.deps[s] \subseteq Closed /\ s \notin Pending
           /\ \A i, j \in 1 .. Len(ready) : ready[i] = ready[j] /\ ready[i] \notin Done => i = j
           /\ \A s \in Pending : s \notin Done /\ wf.deps[s] \subseteq Closed
           /\ \A i, j \in 1 .. Len(batch) : batch[i] = batch[j] => i = j
           /\ phase = "skip" => \A s \in Range(toSkip) : s \notin Pending
  BY DEF Hanging
<1>4. CASE Create
  <2>1. /\ phase = "new" /\ phase' = "loop"
        /\ UNCHANGED <<wf, inDegree, completed, skipped, batch, cursor>>
        /\ ready' = Among(wf.order, {e \in Ids : wf.deps[e] = {}})
    BY <1>4 DEF Create, slots
  <2>2. UNCHANGED <<Ids, Done>> /\ Closed = {} /\ Closed' = {}
    BY <1>1, <2>1 DEF PhasesAgree, Closed, Done, Ids
  <2>3. Pending' = {}
    BY <1>1, <1>2, <2>1 DEF PhasesAgree, Pending, Open
  <2>4. /\ \A s \in Range(ready') : wf.deps[s] = {}
        /\ \A i, j \in 1 .. Len(ready') : ready'[i] = ready'[j] => i = j
    <3> DEFINE E == {e \in Ids : wf.deps[e] = {}}
    <3>1. E \in SUBSET Ids /\ ready' = Among(wf.order, E) /\ \A s \in E : wf.deps[s] = {}
      BY <2>1
    <3> HIDE DEF E
    <3>2. Range(ready') = E
      BY <1>1, <3>1, InOrder
    <3>3. \A i, j \in 1 .. Len(ready') : ready'[i] = ready'[j] => i = j
      BY <1>1, <3>1, InOrder
    <3> QED
      BY <3>1, <3>2, <3>3
  <2> QED
    BY <1>3, <2>1, <2>2, <2>3, <2>4 DEF Over
<1>5. CASE TakeBatch
  <2>1. /\ phase = "loop" /\ phase' = "batch" /\ UNCHANGED <<wf, inDegree, Done>>
        /\ Pending' = Range(batch') /\ Closed' = Closed
        /\ Range(batch') \cup Range(ready') = Range(ready) \ Done
    BY <1>5, TakenApart
  <2>2. /\ Range(batch') \cap Range(ready') = {}
        /\ \A i, j \in 1 .. Len(ready') : ready'[i] = ready'[j] => i = j
        /\ \A i, j \in 1 .. Len(batch') : batch'[i] = batch'[j] => i = j
    BY <1>3, <1>5, <2>1, TakenApart DEF Over
  <2>3. \A s \in Ids' \ Done' : inDegree'[s] >= Cardinality(wf'.deps[s] \ Closed')
    BY <1>3, <2>1 DEF Ids, Over
  <2>4. \A s \in Range(ready) \ Done : wf.deps[s] \subseteq Closed
    BY <1>3, <2>1 DEF Over
  <2> QED
    BY <2>1, <2>2, <2>3, <2>4
<1>6. CASE Exhausted
  <2>1. /\ phase = "loop" /\ phase' = "finish" /\ ready' = <<>>
        /\ UNCHANGED <<wf, inDegree, completed, skipped, batch, cursor>>
    BY <1>6 DEF Exhausted, slots
  <2>2. UNCHANGED <<Ids, Done, Closed, Pending>>
    BY <2>1 DEF Done, Closed, Pending, Open, Ids
  <2>3. Range(ready') = {} /\ Len(ready') = 0
    BY <2>1 DEF Range
  <2> QED
    BY <1>3, <2>1, <2>2, <2>3 DEF Over
<1>7. CASE Quiet
  <2>1. UNCHANGED <<Ids, Done>>
    BY <1>7 DEF Quiet, Done, Ids
  <2> QED
    BY <1>3, <1>7, <2>1 DEF Quiet
<1>8. CASE Handle
  <2>1. /\ phase = "results" /\ cursor \in 1 .. Len(batch)
        /\ UNCHANGED <<wf, inDegree, ready, batch>>
        /\ Done' = Done \cup {Current}
        /\ Pending' \subseteq {batch[i] : i \in cursor + 1 .. Len(batch)}
        /\ Pending' \subseteq Pending
        /\ phase' \in {"results", "skip"} /\ (phase' = "skip" => UNCHANGED cursor)
    BY <1>8 DEF Handle
  <2>2. Current \in Pending /\ UNCHANGED Ids
    BY <1>2, <2>1 DEF Pending, Open, Current, Ids
  <2>3. Current \notin Done
    BY <1>3, <2>1, <2>2 DEF Over
  <2>4. Closed = Done /\ Closed \subseteq Closed'
    BY <2>1, <2>3 DEF Closed, Current
  <2>5. Current \notin Pending'
    <3>1. \A i \in cursor + 1 .. Len(batch) : i \in 1 .. Len(batch) /\ i # cursor
      BY <1>2
    <3>2. \A i \in cursor + 1 .. Len(batch) : batch[i] # batch[cursor]
      BY <1>3, <2>1, <3>1 DEF Over
    <3> QED
      BY <2>1, <3>2 DEF Current
  <2>6. ASSUME NEW s \in Ids' \ Done'
        PROVE  inDegree'[s] >= Cardinality(wf'.deps[s] \ Closed')
    <3>1. s \in Ids \ Done
      BY <2>1, <2>2
    <3>2. IsFiniteSet(wf.deps[s])
      BY <1>1, <3>1, DepsAreFinite
    <3>3. Cardinality(wf.deps[s] \ Closed') <= Cardinality(wf.deps[s] \ Closed)
      BY <2>4, <3>2, Fewer
    <3>4. Cardinality(wf.deps[s] \ Closed) \in Nat
      BY <3>2, Fewer
    <3>5. Cardinality(wf.deps[s] \ Closed') \in Nat
      BY <3>2, Fewer
    <3>6. inDegree[s] \in Int /\ inDegree[s] >= Cardinality(wf.deps[s] \ Closed)
      BY <1>1, <1>3, <2>1, <3>1 DEF Over
    <3> QED
      BY <2>1, <3>3, <3>4, <3>5, <3>6
  <2>7. ASSUME NEW s \in Range(toSkip'), phase' = "skip" PROVE s \notin Pending'
    <3>1. s \in Range(wf.branch[Current]) /\ wf.branch[Current] # NoBranch
      BY <1>8, <2>7 DEF Handle
    <3>2. Current \in wf.deps[s]
      <4>1. Current \in Range(wf.order)
        BY <1>1, <2>1, AtCursor DEF Ids
      <4> QED
        BY <3>1, <4>1 DEF BranchesHang
    <3> QED
      BY <1>3, <2>1, <2>3, <2>4, <3>2 DEF Over
  <2>8. \A s \in Range(ready') \ Done' : wf'.deps[s] \subseteq Closed' /\ s \notin Pending'
    BY <1>3, <2>1, <2>4 DEF Over
  <2>9. \A s \in Pending' : s \notin Done' /\ wf'.deps[s] \subseteq Closed'
    BY <1>3, <2>1, <2>4, <2>5 DEF Over
  <2>10. /\ \A i, j \in 1 .. Len(ready') : ready'[i] = ready'[j] /\ ready'[i] \notin Done' => i = j
         /\ \A i, j \in 1 .. Len(batch') : batch'[i] = batch'[j] => i = j
    BY <1>3, <2>1 DEF Over
  <2> QED
    BY <2>6, <2>7, <2>8, <2>9, <2>10
<1>9. ASSUME NEW c \in Ids, Close(c) PROVE Goal
  <2>1. /\ phase = "skip" /\ c \notin Closed /\ EnqueueSuccessors(c, Done')
        /\ UNCHANGED <<wf, batch, Pending>> /\ Closed' = Closed \cup {c} /\ Done \subseteq Done' /\ c \in Done'
        /\ phase' = "skip" => /\ c \in Range(toSkip) /\ Done' = Done \cup {c}
                              /\ Range(toSkip') \subseteq Range(toSkip) \cup Successors(c, Done')
        /\ c \in Range(toSkip) \/ Done' = Done
    BY <1>9 DEF Close, Done
  <2>2. UNCHANGED Ids
    BY <2>1 DEF Ids
  <2>3. /\ \A s \in Pending : wf.deps[s] \subseteq Closed /\ s \notin Done
        /\ \A s \in Range(toSkip) : s \notin Pending
        /\ \A s \in Range(ready) \ Done : wf.deps[s] \subseteq Closed /\ s \notin Pending
    BY <1>3, <2>1 DEF Over
  <2>4. ASSUME NEW s \in Ids \ Done'
        PROVE  /\ inDegree'[s] >= Cardinality(wf.deps[s] \ (Closed \cup {c}))
               /\ s \in Range(ready') => s \in Range(ready) \/ wf.deps[s] \subseteq Closed \cup {c}
    <3>1. inDegree[s] >= Cardinality(wf.deps[s] \ Closed)
      BY <1>3, <2>1, <2>4 DEF Over
    <3> QED
      BY <1>1, <2>1, <2>4, <3>1, Counting
  <2>5. \A s \in Range(ready') : s \in Ids /\ (s \in Range(ready) \/ c \in wf.deps[s])
    <3>1. Range(ready') = Range(ready) \cup {s \in Successors(c, Done') : inDegree[s] - 1 <= 0}
      BY <1>1, <2>1, Enqueued
    <3>2. Range(ready) \subseteq Ids
      BY <1>1 DEF TypeOK, Range
    <3> QED
      BY <3>1, <3>2 DEF Successors
  <2>6. ASSUME NEW s \in Range(ready') \ Done'
        PROVE  wf'.deps[s] \subseteq Closed' /\ s \notin Pending'
    <3>1. CASE s \in Range(ready)
      BY <2>1, <2>3, <2>6, <3>1
    <3>2. CASE s \notin Range(ready)
      <4>1. s \in Ids \ Done' /\ c \in wf.deps[s]
        BY <2>5, <2>6, <3>2
      <4>2. wf.deps[s] \subseteq Closed \cup {c}
        BY <2>4, <2>6, <3>2, <4>1
      <4>3. s \notin Pending
        BY <2>1, <2>3, <4>1
      <4> QED
        BY <2>1, <4>2, <4>3
    <3> QED
      BY <3>1, <3>2
  <2>7. \A i, j \in 1 .. Len(ready') : ready'[i] = ready'[j] /\ ready'[i] \notin Done' => i = j
    <3>1. \A i, j \in 1 .. Len(ready) : ready[i] = ready[j] /\ ready[i] \notin Done' => i = j
      BY <1>3, <2>1 DEF Over
    <3>2. \A s \in Range(ready) : s \in Done' \/ c \notin wf.deps[s]
      BY <2>1, <2>3
    <3> QED
      BY <1>1, <2>1, <3>1, <3>2, ReadyOnce
  <2>8. \A s \in Pending' : s \notin Done' /\ wf'.deps[s] \subseteq Closed'
    BY <1>9, <2>1, <2>3 DEF Close, Done
  <2>9. phase' = "skip" => \A s \in Range(toSkip') : s \notin Pending'
    BY <2>1, <2>3 DEF Successors
  <2>10. \A i, j \in 1 .. Len(batch') : batch'[i] = batch'[j] => i = j
    BY <1>3, <2>1 DEF Over
  <2> QED
    BY <2>1, <2>2, <2>4, <2>6, <2>7, <2>8, <2>9, <2>10
<1> QED
  BY <1>4, <1>5, <1>6, <1>7, <1>8, <1>9, StepsOfTheDag

-------------------------------------------------------------------------------
(* What was recorded, and what a completed run has done. *)

\* What is in the history is done, or in the batch.
Written ==
    BranchesHang(wf) /\ phase \notin Over =>
        \A k \in 1 .. Len(history) : history[k].step \in Done \cup Range(batch)

\* All the steps are done when the loop ends without a failure.
Whole == phase = "finish" /\ ~ stepError => Done = Ids

Accounted ==
    Orderly /\ Counted /\ InTurn /\ Hanging /\ Written /\ RecordedOnce /\ Whole /\ NothingForgotten

LEMMA WrittenKept ==
  ASSUME Accounted, [Next]_vars, BranchesHang(wf)
  PROVE  /\ \A i, j \in 1 .. Len(history') : history'[i].step = history'[j].step => i = j
         /\ phase' \notin Over => \A k \in 1 .. Len(history') : history'[k].step \in Done' \cup Range(batch')
<1>1. /\ Orderly /\ TypeOK /\ PhasesAgree /\ history \in Seq(Entries) /\ Len(history) \in Nat
      /\ \A i, j \in 1 .. Len(history) : history[i].step = history[j].step => i = j
      /\ phase \notin Over => \A k \in 1 .. Len(history) : history[k].step \in Done \cup Range(batch)
  BY Lengths DEF Accounted, Orderly, Written, RecordedOnce
<1>2. CASE Create
  BY <1>1, <1>2 DEF Create, PhasesAgree
<1>3. CASE TakeBatch
  <2>1. PICK fresh \in Seq(Ids), n \in Nat \ {0} :
           /\ batch' \in Seq(Ids) /\ Len(batch') = n
           /\ \A i \in 1 .. n : batch'[i] = fresh[i]
           /\ Len(history') = Len(history) + n
           /\ \A i \in 1 .. Len(history) : history'[i] = history[i]
           /\ \A i \in 1 .. n : history'[Len(history) + i] = [step |-> fresh[i], status |-> "running"]
    BY <1>1, <1>3, Taken
  <2>2. /\ phase = "loop" /\ ~ stepError /\ Pending = {} /\ UNCHANGED Done
        /\ Range(batch') \subseteq Range(ready) \ Done
    BY <1>1, <1>3, TakenApart DEF PhasesAgree
  <2>3. \A i, j \in 1 .. n : batch'[i] = batch'[j] => i = j
    BY <1>1, <1>3, <2>1, <2>2, TakenApart DEF Accounted, Hanging, Over
  <2>4. \A k \in 1 .. Len(history) : history[k].step \in Done
    BY <1>1, <2>2 DEF Accounted, InTurn, Over
  <2>5. ASSUME NEW k \in 1 .. Len(history') \ (1 .. Len(history))
        PROVE  /\ k - Len(history) \in 1 .. n
               /\ history'[k].step = batch'[k - Len(history)]
               /\ history'[k].step \in Range(batch') \ Done
    <3>1. k - Len(history) \in 1 .. n /\ Len(history) + (k - Len(history)) = k
      BY <1>1, <2>1
    <3>2. history'[k] = [step |-> fresh[k - Len(history)], status |-> "running"]
      BY <2>1, <3>1
    <3>3. history'[k].step = batch'[k - Len(history)]
      BY <2>1, <3>1, <3>2
    <3>4. batch'[k - Len(history)] \in Range(batch')
      BY <2>1, <3>1 DEF Range
    <3> QED
      BY <2>2, <3>1, <3>3, <3>4
  <2>6. \A k \in 1 .. Len(history) : k \in 1 .. Len(history') /\ history'[k].step \in Done
    BY <1>1, <2>1, <2>4
  <2>7. ASSUME NEW i \in 1 .. Len(history'), NEW j \in 1 .. Len(history'), history'[i].step = history'[j].step
        PROVE  i = j
    <3>1. CASE i \in 1 .. Len(history)
      <4>1. j \in 1 .. Len(history)
        BY <2>5, <2>6, <2>7, <3>1
      <4> QED
        BY <1>1, <2>1, <2>7, <3>1, <4>1
    <3>2. CASE i \notin 1 .. Len(history)
      <4>1. j \notin 1 .. Len(history)
        BY <2>5, <2>6, <2>7, <3>2
      <4>2. i - Len(history) = j - Len(history)
        BY <2>3, <2>5, <2>7, <3>2, <4>1
      <4> QED
        BY <1>1, <2>1, <4>2
    <3> QED
      BY <3>1, <3>2
  <2> QED
    BY <2>2, <2>5, <2>6, <2>7
<1>4. CASE Exhausted
  BY <1>1, <1>4 DEF Exhausted, slots, Done, Over
<1>5. CASE Quiet
  BY <1>1, <1>5 DEF Quiet, Done
<1>6. CASE Handle
  BY <1>1, <1>6 DEF Handle, Over
<1>7. ASSUME NEW c \in Ids, Close(c)
      PROVE  /\ \A i, j \in 1 .. Len(history') : history'[i].step = history'[j].step => i = j
             /\ phase' \notin Over => \A k \in 1 .. Len(history') : history'[k].step \in Done' \cup Range(batch')
  <2>1. phase = "skip" /\ UNCHANGED batch /\ Done \subseteq Done'
    BY <1>7 DEF Close, Done
  <2>2. CASE UNCHANGED history
    BY <1>1, <2>1, <2>2 DEF Over
  <2>3. CASE c \in Range(toSkip) \ Done /\ history' = Append(history, [step |-> c, status |-> "skipped"])
    <3>1. cursor \in 1 .. Len(batch)
      BY <1>1, <2>1 DEF PhasesAgree
    <3>2. Range(batch) \subseteq Done \cup Pending
      BY <1>1, <2>1, <3>1, Lengths DEF Accounted, InTurn, Over
    <3>3. c \notin Pending
      BY <2>1, <2>3 DEF Accounted, Hanging, Over
    <3>4. \A k \in 1 .. Len(history) : history[k].step # c
      BY <1>1, <2>1, <2>3, <3>2, <3>3 DEF Over
    <3>5. /\ Len(history') = Len(history) + 1
          /\ \A k \in 1 .. Len(history) : history'[k] = history[k]
          /\ history'[Len(history) + 1] = [step |-> c, status |-> "skipped"]
      BY <1>1, <2>3
    <3>6. history'[Len(history) + 1].step = c
      BY <3>5
    <3>7. \A k \in 1 .. Len(history') : k \in 1 .. Len(history) \/ k = Len(history) + 1
      BY <1>1, <3>5
    <3>8. c \in Done'
      BY <1>7, <2>3 DEF Close, Done
    <3>9. \A i, j \in 1 .. Len(history') : history'[i].step = history'[j].step => i = j
      BY <1>1, <3>4, <3>5, <3>6, <3>7
    <3> QED
      BY <1>1, <2>1, <3>5, <3>6, <3>7, <3>8, <3>9 DEF Over
  <2> QED
    BY <1>7, <2>2, <2>3 DEF Close
<1>8. CASE phase' \in Over /\ UNCHANGED <<wf, history>>
  BY <1>1, <1>8
<1> QED
  BY <1>1, <1>2, <1>3, <1>4, <1>5, <1>6, <1>7, <1>8, StepsOfTheDag

\* When ready holds nothing more to do everything is done: the first step that
\* is not, in an order without a cycle, would wait for nothing.
LEMMA NoneIsLeft ==
  ASSUME Orderly, Counted, Exhausted
  PROVE  Done = Ids
<1>1. TypeOK /\ PhasesAgree /\ wf \in Workflows /\ Done \subseteq Ids /\ ready \in Seq(Ids)
  BY DEF Orderly, TypeOK, Done
<1>2. phase = "loop" /\ ~ stepError /\ \A i \in 1 .. Len(ready) : ready[i] \in Done
  BY <1>1 DEF Exhausted, PhasesAgree
<1>3. Pending = {}
  BY <1>1, <1>2, Lengths DEF PhasesAgree, Pending, Open
<1>4. Range(ready) \subseteq Done
  BY <1>1, <1>2 DEF Range
<1>5. ASSUME Ids \ Done # {} PROVE FALSE
  <2>1. PICK s \in Ids \ Done : wf.deps[s] \cap (Ids \ Done) = {}
    <3>1. Ids \ Done \in (SUBSET Ids) \ {{}}
      BY <1>5
    <3> QED
      BY <1>1, <3>1, Definition
  <2>2. wf.deps[s] \subseteq Closed
    BY <1>1, <1>2, <2>1, DepsAreFinite DEF Closed
  <2>3. s \in Range(ready) \cup Pending
    BY <1>2, <2>1, <2>2 DEF Counted, Over
  <2> QED
    BY <1>3, <1>4, <2>1, <2>3
<1> QED
  BY <1>1, <1>5

LEMMA WholeKept ==
  ASSUME Accounted, [Next]_vars
  PROVE  Whole' /\ NothingForgotten'
<1>1. Orderly /\ TypeOK /\ PhasesAgree /\ Whole /\ NothingForgotten /\ Counted
  BY DEF Accounted, Orderly
<1>2. CASE UNCHANGED vars
  BY <1>1, <1>2 DEF vars, dag, Whole, NothingForgotten, Done, Ids
<1>3. CASE Finish
  <2>1. phase' = "done" /\ result' = (IF stepError THEN "failed" ELSE "completed")
        /\ UNCHANGED <<wf, completed, skipped, history>> /\ phase = "finish"
    BY <1>3 DEF Finish, Verdict, dag
  <2>2. UNCHANGED <<Ids, Done>>
    BY <2>1 DEF Done, Ids
  <2>3. ~ stepError => \A k \in 1 .. Len(history) : history[k].status \in Good
    BY <1>1, <2>1, LoopIsGood
  <2> QED
    BY <1>1, <2>1, <2>2, <2>3 DEF Whole, NothingForgotten, Good
<1>4. CASE Exhausted
  <2>1. UNCHANGED <<Ids, Done, result>> /\ result = "none"
    BY <1>1, <1>4 DEF Exhausted, Done, Ids, PhasesAgree
  <2>2. Done = Ids
    BY <1>1, <1>4, NoneIsLeft
  <2> QED
    BY <2>1, <2>2 DEF Whole, NothingForgotten
<1>5. CASE result' # "completed" /\ phase' # "finish"
  BY <1>5 DEF Whole, NothingForgotten
<1>6. CASE result' # "completed" /\ stepError'
  BY <1>6 DEF Whole, NothingForgotten
<1>7. CASE phase # "done" /\ UNCHANGED result /\ (phase' # "finish" \/ stepError')
  <2>1. result' # "completed"
    BY <1>1, <1>7 DEF PhasesAgree
  <2> QED
    BY <1>5, <1>6, <1>7, <2>1
<1>8. CASE phase = "batch" /\ \E i \in 1 .. Len(work) : ProcessStep(i)
  <2>1. UNCHANGED Kept
    BY <1>1, <1>8, Processed
  <2> QED
    BY <1>7, <1>8, <2>1 DEF Kept
<1>9. CASE BatchDone
  BY <1>7, <1>9 DEF BatchDone, dag
<1>10. CASE Create \/ TakeBatch \/ AllSettled \/ HandleRejected \/ HandleResult \/ SkipOne \/ Advance \/ UpdateFails
  BY <1>7, <1>10 DEF Create, TakeBatch, AllSettled, HandleRejected, HandleResult, SkipOne, Advance, UpdateFails,
     Handling
<1>11. CASE HandleApproval \/ Abort \/ Throw \/ Crash
  BY <1>5, <1>11 DEF HandleApproval, Abort, Throw, Crash
<1> QED
  BY <1>2, <1>3, <1>4, <1>8, <1>9, <1>10, <1>11 DEF Next, Run

LEMMA SameDefinition ==
  ASSUME TypeOK, [Next]_vars
  PROVE  UNCHANGED wf
BY Processed DEF Next, Run, Kept, Create, TakeBatch, Exhausted, AllSettled, HandleRejected, HandleApproval, HandleResult,
   SkipOne, Advance, BatchDone, Finish, UpdateFails, Abort, Throw, Crash, vars

LEMMA AccountedAlways == Spec => []Accounted
<1>1. Init => Counted /\ InTurn /\ Hanging /\ Written /\ RecordedOnce /\ Whole /\ NothingForgotten
  <2> SUFFICES ASSUME Init PROVE Counted /\ InTurn /\ Hanging /\ Written /\ RecordedOnce /\ Whole /\ NothingForgotten
    OBVIOUS
  <2>1. /\ phase = "new" /\ wf \in Workflows /\ batch = <<>> /\ ready = <<>> /\ history = <<>> /\ cursor = 1
        /\ completed = {} /\ skipped = {} /\ result = "none"
        /\ inDegree = [s \in Ids |-> Cardinality(wf.deps[s])]
    BY DEF Init
  <2>2. Done = {} /\ Closed = {} /\ Range(<<>>) = {}
    BY <2>1 DEF Done, Closed, Range
  <2>3. Pending = {}
    BY <2>1 DEF Pending, Open
  <2>4. ASSUME NEW s \in Ids
        PROVE  inDegree[s] = Cardinality(wf.deps[s] \ Closed) /\ inDegree[s] \in Nat
    <3>1. IsFiniteSet(wf.deps[s])
      BY <2>1, DepsAreFinite
    <3>2. Cardinality(wf.deps[s]) \in Nat
      BY <3>1, FS_CardinalityType
    <3>3. wf.deps[s] \ Closed = wf.deps[s]
      BY <2>2
    <3> QED
      BY <2>1, <3>2, <3>3
  <2>5. Counted
    BY <2>1, <2>4 DEF Counted
  <2>6. Hanging
    <3>1. \A s \in Ids \ Done : inDegree[s] >= Cardinality(wf.deps[s] \ Closed)
      BY <2>4
    <3>2. Len(ready) = 0 /\ Len(batch) = 0 /\ Range(ready) = {}
      BY <2>1, <2>2
    <3> QED
      BY <2>1, <2>3, <3>1, <3>2 DEF Hanging
  <2>7. InTurn
    BY <2>1, <2>2 DEF InTurn
  <2>8. Written /\ RecordedOnce
    BY <2>1 DEF Written, RecordedOnce
  <2>9. Whole /\ NothingForgotten
    BY <2>1 DEF Whole, NothingForgotten
  <2> QED
    BY <2>5, <2>6, <2>7, <2>8, <2>9
<1>2. Accounted /\ [Next]_vars /\ Orderly'
        => (Counted /\ InTurn /\ Hanging /\ Written /\ RecordedOnce /\ Whole /\ NothingForgotten)'
  <2> SUFFICES ASSUME Accounted, [Next]_vars
               PROVE  Counted' /\ InTurn' /\ Hanging' /\ Written' /\ RecordedOnce' /\ Whole' /\ NothingForgotten'
    OBVIOUS
  <2>1. Orderly /\ TypeOK /\ Counted /\ InTurn /\ Hanging
    BY DEF Accounted, Orderly
  <2>2. UNCHANGED wf
    BY <2>1, SameDefinition
  <2>3. BranchesHang(wf') <=> BranchesHang(wf)
    BY <2>2
  <2>4. Counted' /\ InTurn'
    BY <2>1, CountedKept, InTurnKept
  <2>5. Hanging'
    BY <2>1, <2>3, HangingKept DEF Hanging
  <2>6. Written' /\ RecordedOnce'
    BY <2>3, WrittenKept DEF Written, RecordedOnce
  <2>7. Whole' /\ NothingForgotten'
    BY WholeKept
  <2> QED
    BY <2>4, <2>5, <2>6, <2>7
<1>3. Orderly /\ Counted /\ InTurn /\ Hanging /\ Written /\ RecordedOnce /\ Whole /\ NothingForgotten <=> Accounted
  BY DEF Accounted
<1> QED
  BY <1>1, <1>2, <1>3, OrderlyAlways, PTL DEF Spec

LEMMA InTopologicalOrder ==
  ASSUME Accounted
  PROVE  TopologicalOrder
<1> SUFFICES ASSUME BranchesHang(wf), phase = "batch", NEW i \in 1 .. Len(batch)
             PROVE  wf.deps[batch[i]] \subseteq Done
  BY DEF TopologicalOrder
<1>1. batch[i] \in Pending /\ Closed = Done
  BY DEF Pending, Open, Closed
<1> QED
  BY <1>1 DEF Accounted, Hanging, Over

\* The steps of a run are accounted for, for any definition without a cycle,
\* any concurrency and any faults: none starts before those it depends on (when
\* the branches hang on their conditions), none is recorded twice, a completed
\* run forgot none, a skipped one has a reason, and the table says how the run
\* came out, an approval next to other steps of its batch excepted.
THEOREM StepsAlwaysAccounted == Spec => []StepsAreAccounted
<1>1. Accounted /\ Explained => StepsAreAccounted
  BY InTopologicalOrder DEF Accounted, Explained, StepsAreAccounted
<1> QED
  BY <1>1, AccountedAlways, ExplainedAlways, PTL

(* The flow engine: what is pending. *)

IsLoop(x) == x \in FlowEngine!Ids(ast) /\ FlowEngine!Node(ast, x).type = "loop"

ResultsInScopes == \A k \in 1 .. Len(results) : results[k].scope \in DOMAIN scopes

\* What is pending has a name in the flow; what goes through its items is a loop.
FlowTyped ==
    /\ FlowEngine!TypeOK
    /\ ResultsInScopes
    /\ \A i \in 1 .. Len(agenda) :
          /\ agenda[i].id \in FlowEngine!Named(ast)
          /\ agenda[i].do = "items" => IsLoop(agenda[i].id) /\ agenda[i].id \in scopes[agenda[i].scope].visited
          /\ agenda[i].do = "items" => items # {}

-------------------------------------------------------------------------------
(* Types *)

LEMMA NodesNamed ==
  ASSUME ast \in Seq(FlowEngine!FlowStepNode)
  PROVE  /\ \A i \in 1 .. Len(ast) : ast[i] \in FlowEngine!FlowStepNode
         /\ \A x \in FlowEngine!Ids(ast) :
               /\ FlowEngine!Node(ast, x) \in FlowEngine!FlowStepNode
               /\ FlowEngine!Node(ast, x) \in FlowEngine!Nodes(ast)
               /\ FlowEngine!Node(ast, x).id = x
<1>1. \A i \in 1 .. Len(ast) : ast[i] \in FlowEngine!FlowStepNode
  OBVIOUS
<1>2. \A node \in FlowEngine!Nodes(ast) : node \in FlowEngine!FlowStepNode
  BY DEF FlowEngine!Nodes, FlowEngine!Range
<1>3. ASSUME NEW x \in FlowEngine!Ids(ast)
      PROVE  FlowEngine!Node(ast, x) \in FlowEngine!Nodes(ast) /\ FlowEngine!Node(ast, x).id = x
  BY <1>3 DEF FlowEngine!Ids, FlowEngine!Node
<1> QED
  BY <1>1, <1>2, <1>3

\* The lists of a node: sequences of names.
LEMMA ListsNamed ==
  ASSUME ast \in Seq(FlowEngine!FlowStepNode), NEW x \in FlowEngine!Ids(ast)
  PROVE  LET a == FlowEngine!Adjacency(FlowEngine!Node(ast, x))
         IN  /\ a.onSuccess \in Seq(Nat) /\ a.onFailure \in Seq(Nat)
             /\ FlowEngine!Range(a.onSuccess) \subseteq FlowEngine!Named(ast)
             /\ FlowEngine!Range(a.onFailure) \subseteq FlowEngine!Named(ast)
             /\ IsLoop(x) => a.onSuccess = FlowEngine!Node(ast, x).first
<1> DEFINE node == FlowEngine!Node(ast, x)
           a == FlowEngine!Adjacency(node)
<1>1. node \in FlowEngine!FlowStepNode /\ node \in FlowEngine!Nodes(ast)
  BY NodesNamed
<1>2. /\ node.first \in Seq(Nat) /\ node.second \in Seq(Nat)
      /\ node.type \in FlowEngine!StepTypes
  BY <1>1 DEF FlowEngine!FlowStepNode
<1>3. <<>> \in Seq(Nat)
  OBVIOUS
<1>4. FlowEngine!Leads(node) \subseteq FlowEngine!Named(ast)
  BY <1>1 DEF FlowEngine!Named
<1> HIDE DEF node
<1>5. /\ a.onSuccess \in Seq(Nat) /\ a.onFailure \in Seq(Nat)
      /\ node.type = "loop" => a.onSuccess = node.first
  BY <1>2, <1>3 DEF FlowEngine!Adjacency
<1>6. FlowEngine!Range(a.onSuccess) \cup FlowEngine!Range(a.onFailure) = FlowEngine!Leads(node)
  BY DEF FlowEngine!Leads
<1> QED
  BY <1>4, <1>5, <1>6 DEF node, IsLoop

\* What a list puts in front of the agenda.
LEMMA CallsOf ==
  ASSUME NEW ids \in Seq(Nat), NEW s \in Nat
  PROVE  /\ FlowEngine!Calls(ids, s) \in Seq(FlowEngine!Pending)
         /\ Len(FlowEngine!Calls(ids, s)) = Len(ids)
         /\ \A i \in 1 .. Len(ids) : FlowEngine!Calls(ids, s)[i] = [do |-> "step", id |-> ids[i], scope |-> s]
<1> DEFINE calls == FlowEngine!Calls(ids, s)
<1>1. /\ DOMAIN ids = 1 .. Len(ids) /\ Len(ids) \in Nat
      /\ \A i \in 1 .. Len(ids) : ids[i] \in Nat
  OBVIOUS
<1>2. calls = [i \in 1 .. Len(ids) |-> [do |-> "step", id |-> ids[i], scope |-> s]]
  BY <1>1 DEF FlowEngine!Calls, FlowEngine!Call
<1>3. \A i \in 1 .. Len(ids) : [do |-> "step", id |-> ids[i], scope |-> s] \in FlowEngine!Pending
  BY <1>1 DEF FlowEngine!Pending
<1>4. calls \in [1 .. Len(ids) -> FlowEngine!Pending]
  BY <1>2, <1>3
<1> HIDE DEF calls
<1>5. calls \in Seq(FlowEngine!Pending) /\ Len(calls) = Len(ids)
  BY <1>1, <1>4
<1> QED
  BY <1>2, <1>5 DEF calls

\* Something takes the place of the head of a list.
LEMMA Replaced ==
  ASSUME NEW T, NEW q \in Seq(T), q # <<>>, NEW new \in Seq(T)
  PROVE  LET list == new \o Tail(q)
         IN  /\ list \in Seq(T)
             /\ Len(list) = Len(new) + Len(q) - 1
             /\ \A i \in 1 .. Len(new) : i \in 1 .. Len(list) /\ list[i] = new[i]
             /\ \A i \in 2 .. Len(q) : Len(new) + i - 1 \in 1 .. Len(list) /\ list[Len(new) + i - 1] = q[i]
             /\ \A i \in 1 .. Len(list) : i > Len(new) =>
                    i - Len(new) + 1 \in 2 .. Len(q) /\ list[i] = q[i - Len(new) + 1]
<1>1. /\ Len(q) \in Nat \ {0} /\ Len(new) \in Nat
      /\ Tail(q) \in Seq(T) /\ Len(Tail(q)) = Len(q) - 1
      /\ \A i \in 1 .. Len(q) - 1 : Tail(q)[i] = q[i + 1]
  OBVIOUS
<1> DEFINE t == Tail(q)
<1> HIDE DEF t
<1>2. /\ t \in Seq(T) /\ Len(t) = Len(q) - 1
      /\ \A i \in 1 .. Len(q) - 1 : t[i] = q[i + 1]
  BY <1>1 DEF t
<1>3. /\ new \o t \in Seq(T)
      /\ Len(new \o t) = Len(new) + Len(t)
      /\ \A i \in 1 .. Len(new) + Len(t) : (new \o t)[i] = IF i <= Len(new) THEN new[i] ELSE t[i - Len(new)]
  <2>1. t \in Seq(T)
    BY <1>2
  <2>2. new \o t \in Seq(T) /\ Len(new \o t) = Len(new) + Len(t)
    BY <2>1
  <2> QED
    BY <2>1, <2>2
<1> DEFINE list == new \o t
<1> HIDE DEF list
<1>4. /\ list \in Seq(T) /\ Len(list) = Len(new) + Len(q) - 1
      /\ \A i \in 1 .. Len(new) : i \in 1 .. Len(list) /\ list[i] = new[i]
  BY <1>1, <1>2, <1>3 DEF list
<1>5. ASSUME NEW i \in 2 .. Len(q)
      PROVE  Len(new) + i - 1 \in 1 .. Len(list) /\ list[Len(new) + i - 1] = q[i]
  <2>1. i - 1 \in 1 .. Len(q) - 1 /\ t[i - 1] = q[i]
    BY <1>1, <1>2
  <2>2. Len(new) + i - 1 \in 1 .. Len(new) + Len(t) /\ ~ (Len(new) + i - 1 <= Len(new)) /\ (Len(new) + i - 1) - Len(new) = i - 1
    BY <1>1, <1>2
  <2> QED
    BY <1>2, <1>3, <1>4, <2>1, <2>2 DEF list
<1>6. ASSUME NEW i \in 1 .. Len(list), i > Len(new)
      PROVE  i - Len(new) + 1 \in 2 .. Len(q) /\ list[i] = q[i - Len(new) + 1]
  <2>1. i - Len(new) \in 1 .. Len(q) - 1
    BY <1>1, <1>4, <1>6
  <2>2. t[i - Len(new)] = q[(i - Len(new)) + 1]
    BY <1>2, <2>1
  <2> QED
    BY <1>1, <1>2, <1>3, <1>4, <1>6, <2>1, <2>2 DEF list
<1> QED
  BY <1>4, <1>5, <1>6 DEF list, t
-------------------------------------------------------------------------------
(* The kinds of step *)

Result == [id : Nat, scope : Nat, status : {"success", "failure", "error"}, met : BOOLEAN]

\* Nothing happens to agenda, scopes and results.
Still == UNCHANGED <<ast, agenda, scopes, results>>

\* The head of the agenda was visited before.
Skipped ==
    /\ agenda # <<>> /\ agenda' = Tail(agenda) /\ UNCHANGED <<ast, scopes, results>>
    /\ agenda[1].do = "step" /\ agenda[1].id \in scopes[agenda[1].scope].visited

\* The head of the agenda has come to a result; ids are what this leads to, and
\* V is what counts as visited besides.
Executed(r, ids, V) ==
    /\ agenda # <<>> /\ agenda' = FlowEngine!Calls(ids, agenda[1].scope) \o Tail(agenda)
    /\ ids \in Seq(Nat) /\ FlowEngine!Range(ids) = FlowEngine!Branch(r) /\ FlowEngine!Range(ids) \subseteq FlowEngine!Named(ast)
    /\ r \in Result /\ r.id = agenda[1].id /\ r.scope = agenda[1].scope
    /\ results' = Append(results, r)
    /\ scopes' = [scopes EXCEPT ![agenda[1].scope].visited = @ \cup {agenda[1].id} \cup V]
    /\ V \subseteq FlowEngine!Named(ast)
    /\ \A x \in V : IsLoop(agenda[1].id) /\ x \in FlowEngine!Range(FlowEngine!Node(ast, agenda[1].id).first)
    /\ IsLoop(agenda[1].id) => \A x \in FlowEngine!Range(FlowEngine!Node(ast, agenda[1].id).first) : x \in V
    /\ agenda[1].do = "step" => agenda[1].id \notin scopes[agenda[1].scope].visited
    /\ UNCHANGED ast

\* The head of the agenda is a loop that begins with its items.
Begun ==
    /\ agenda # <<>> /\ agenda' = <<FlowEngine!Items(agenda[1].id, agenda[1].scope, 1)>> \o Tail(agenda)
    /\ agenda[1].do = "step" /\ IsLoop(agenda[1].id) /\ items # {} /\ agenda[1].id \notin scopes[agenda[1].scope].visited
    /\ scopes' = [scopes EXCEPT ![agenda[1].scope].visited = @ \cup {agenda[1].id}]
    /\ UNCHANGED <<ast, results>>

\* A loop begins with its next item.
Iterated ==
    /\ agenda # <<>> /\ agenda[1].do = "items"
    /\ agenda' = (FlowEngine!Calls(FlowEngine!Node(ast, agenda[1].id).first, Len(scopes) + 1)
                     \o <<FlowEngine!Items(agenda[1].id, agenda[1].scope, agenda[1].index + 1)>>) \o Tail(agenda)
    /\ scopes' = Append(scopes, [of |-> agenda[1].id, visited |-> {}])
    /\ UNCHANGED <<ast, results>>

LEMMA FlowSteps ==
  ASSUME FlowTyped, [FlowEngine!Next]_FlowEngine!vars
  PROVE  \/ Still \/ Skipped \/ Begun \/ Iterated
         \/ \E r, ids, V : Executed(r, ids, V)
<1>1. FlowEngine!TypeOK
  BY DEF FlowTyped
<1>2. /\ ast \in Seq(FlowEngine!FlowStepNode) /\ agenda \in Seq(FlowEngine!Pending)
      /\ scopes \in Seq([of : Nat, visited : SUBSET FlowEngine!Named(ast)])
      /\ \A i \in 1 .. Len(agenda) : agenda[i].scope \in DOMAIN scopes
  BY <1>1 DEF FlowEngine!TypeOK
<1> DEFINE now == agenda[1]
<1>3. agenda # <<>> =>
        /\ FlowEngine!Now = now /\ now.id \in Nat /\ now.scope \in Nat /\ now.scope \in DOMAIN scopes
        /\ now.id \in FlowEngine!Named(ast)
        /\ now.do = "items" => IsLoop(now.id) /\ now.id \in scopes[now.scope].visited
  <2>1. agenda # <<>> => 1 \in 1 .. Len(agenda) /\ agenda[1] \in FlowEngine!Pending /\ Head(agenda) = agenda[1]
    BY <1>2
  <2> QED
    BY <1>2, <2>1 DEF FlowEngine!Now, FlowEngine!Pending, FlowTyped
<1>4. <<>> \in Seq(Nat) /\ FlowEngine!Range(<<>>) = {} /\ {} \subseteq FlowEngine!Named(ast)
  BY DEF FlowEngine!Range
<1> DEFINE node == FlowEngine!Node(ast, now.id)
           adj == FlowEngine!Adjacency(node)
<1>5. agenda # <<>> /\ now.id \in FlowEngine!Ids(ast) =>
        /\ adj.onSuccess \in Seq(Nat) /\ adj.onFailure \in Seq(Nat)
        /\ FlowEngine!Range(adj.onSuccess) \subseteq FlowEngine!Named(ast)
        /\ FlowEngine!Range(adj.onFailure) \subseteq FlowEngine!Named(ast)
        /\ IsLoop(now.id) => adj.onSuccess = node.first
  BY <1>2, ListsNamed
<1> DEFINE met == now.id \in FlowEngine!Ids(ast) => FlowEngine!Holds(node.cond)
           res(status) == [id |-> now.id, scope |-> now.scope, status |-> status, met |-> met]
<1>6. met \in BOOLEAN
  OBVIOUS
<1>7. \A status \in {"success", "failure", "error"} : agenda # <<>> => res(status) \in Result
  BY <1>3, <1>6 DEF Result
<1>8. \A status : agenda # <<>> /\ FlowEngine!Record(status) => results' = Append(results, res(status))
  BY <1>3 DEF FlowEngine!Record, FlowEngine!Current
<1>9. \A V : agenda # <<>> => FlowEngine!Visit(V) = [scopes EXCEPT ![now.scope].visited = @ \cup V]
  BY <1>3 DEF FlowEngine!Visit
<1>10. \A ids : agenda # <<>> /\ FlowEngine!Follow(ids) => agenda' = FlowEngine!Calls(ids, now.scope) \o Tail(agenda)
  BY <1>3 DEF FlowEngine!Follow
<1>11. \A status : /\ res(status).id = now.id /\ res(status).scope = now.scope
                   /\ res(status).status = status /\ (res(status).met <=> met)
  OBVIOUS
\* What a result of this node leads to.
<1>12. \A status : agenda # <<>> /\ now.id \in FlowEngine!Ids(ast) /\ status # "error" =>
        FlowEngine!Branch(res(status)) =
            CASE node.type = "condition" -> FlowEngine!Range(IF met THEN node.first ELSE node.second)
              [] node.type \in {"approval", "webhook"} ->
                     FlowEngine!Range(IF status = "success" THEN node.first ELSE node.second)
              [] OTHER -> {}
  BY DEF FlowEngine!Branch
<1>13. FlowEngine!Branch(res("error")) = {}
  BY DEF FlowEngine!Branch
<1>14. \A status : agenda # <<>> /\ now.id \notin FlowEngine!Ids(ast) => FlowEngine!Branch(res(status)) = {}
  BY DEF FlowEngine!Branch
<1>15. agenda # <<>> /\ now.id \in FlowEngine!Ids(ast) =>
        /\ node.type \in {"condition", "approval", "webhook"} => adj.onSuccess = node.first /\ adj.onFailure = node.second
        /\ node.type \notin {"condition", "approval", "webhook", "loop"} => adj.onSuccess = <<>>
  BY DEF FlowEngine!Adjacency
<1>16. \A type : FlowEngine!Doing(type) =>
        /\ agenda # <<>> /\ now.do = "step" /\ now.id \notin scopes[now.scope].visited
        /\ now.id \in FlowEngine!Ids(ast) /\ node.type = type
        /\ FlowEngine!Current = node
  BY <1>3 DEF FlowEngine!Doing, FlowEngine!Current
<1>17. agenda # <<>> => FlowEngine!Enter = (scopes' = [scopes EXCEPT ![now.scope].visited = @ \cup {now.id}])
  BY <1>3 DEF FlowEngine!Enter, FlowEngine!Visit
<1>18. IsLoop(now.id) <=> now.id \in FlowEngine!Ids(ast) /\ node.type = "loop"
  BY DEF IsLoop
\* A step that is no loop comes to a result.
<1>20. ASSUME NEW status \in {"success", "failure", "error"}, NEW ids \in Seq(Nat),
              agenda # <<>>, now.do = "step", now.id \notin scopes[now.scope].visited, ~ IsLoop(now.id),
              FlowEngine!Range(ids) = FlowEngine!Branch(res(status)), FlowEngine!Range(ids) \subseteq FlowEngine!Named(ast),
              FlowEngine!Enter, FlowEngine!Record(status), FlowEngine!Follow(ids), UNCHANGED ast
       PROVE  Executed(res(status), ids, {})
  <2>1. {now.id} \cup {} = {now.id}
    OBVIOUS
  <2>2. scopes' = [scopes EXCEPT ![now.scope].visited = @ \cup {now.id} \cup {}]
    BY <1>17, <1>20
  <2> QED
    BY <1>7, <1>8, <1>10, <1>11, <1>20, <2>2 DEF Executed, now
<1> HIDE DEF now, node, adj, met, res
<1>21. ASSUME FlowEngine!Skip PROVE Skipped
  BY <1>3, <1>21 DEF FlowEngine!Skip, Skipped, now
<1>22. ASSUME FlowEngine!Unknown PROVE \E r, ids, V : Executed(r, ids, V)
  <2>1. /\ agenda # <<>> /\ now.do = "step" /\ now.id \notin scopes[now.scope].visited /\ now.id \notin FlowEngine!Ids(ast)
        /\ FlowEngine!Enter /\ FlowEngine!Record("error") /\ FlowEngine!Follow(<<>>) /\ UNCHANGED ast
    BY <1>3, <1>22 DEF FlowEngine!Unknown
  <2>2. Executed(res("error"), <<>>, {})
    BY <1>4, <1>13, <1>18, <1>20, <2>1
  <2> QED
    BY <2>2
<1>23. ASSUME FlowEngine!Condition PROVE \E r, ids, V : Executed(r, ids, V)
  <2>1. /\ agenda # <<>> /\ now.do = "step" /\ now.id \notin scopes[now.scope].visited /\ now.id \in FlowEngine!Ids(ast)
        /\ node.type = "condition" /\ FlowEngine!Enter /\ FlowEngine!Record("success") /\ UNCHANGED ast
        /\ FlowEngine!Follow(IF met THEN adj.onSuccess ELSE adj.onFailure)
    BY <1>3, <1>16, <1>23 DEF FlowEngine!Condition, adj, met
  <2> DEFINE ids == IF met THEN adj.onSuccess ELSE adj.onFailure
  <2>2. ids \in Seq(Nat) /\ FlowEngine!Range(ids) \subseteq FlowEngine!Named(ast)
    BY <1>5, <1>6, <2>1
  <2>3. FlowEngine!Range(ids) = FlowEngine!Branch(res("success"))
    BY <1>12, <1>15, <2>1
  <2> HIDE DEF ids
  <2>4. Executed(res("success"), ids, {})
    BY <1>18, <1>20, <2>1, <2>2, <2>3 DEF ids
  <2> QED
    BY <2>4
\* Where all goes well there is one list that a step leads to.
<1>24. ASSUME NEW type \in {"approval", "notify", "end", "unknown", "assign"}, FlowEngine!Doing(type),
              FlowEngine!Enter, FlowEngine!Record("success"), FlowEngine!Follow(adj.onSuccess), UNCHANGED ast
       PROVE  \E r, ids, V : Executed(r, ids, V)
  <2>1. /\ agenda # <<>> /\ now.do = "step" /\ now.id \notin scopes[now.scope].visited /\ now.id \in FlowEngine!Ids(ast)
        /\ node.type = type
    BY <1>16, <1>24
  <2>2. adj.onSuccess \in Seq(Nat) /\ FlowEngine!Range(adj.onSuccess) \subseteq FlowEngine!Named(ast)
    BY <1>5, <2>1
  <2>3. FlowEngine!Range(adj.onSuccess) = FlowEngine!Branch(res("success"))
    BY <1>4, <1>12, <1>15, <2>1
  <2>4. Executed(res("success"), adj.onSuccess, {})
    BY <1>18, <1>20, <1>24, <2>1, <2>2, <2>3
  <2> QED
    BY <2>4
<1>25. ASSUME FlowEngine!Simple PROVE \E r, ids, V : Executed(r, ids, V)
  <2>1. PICK type \in {"approval", "notify", "end", "unknown"} : FlowEngine!Doing(type)
    BY <1>25 DEF FlowEngine!Simple
  <2>2. FlowEngine!Enter /\ FlowEngine!Record("success") /\ FlowEngine!Follow(adj.onSuccess) /\ UNCHANGED ast
    BY <1>16, <1>25, <2>1 DEF FlowEngine!Simple, adj
  <2> QED
    BY <1>24, <2>1, <2>2
<1>26. ASSUME FlowEngine!Assign PROVE \E r, ids, V : Executed(r, ids, V)
  <2>1. FlowEngine!Doing("assign")
    BY <1>26 DEF FlowEngine!Assign
  <2>2. FlowEngine!Enter /\ FlowEngine!Record("success") /\ FlowEngine!Follow(adj.onSuccess) /\ UNCHANGED ast
    BY <1>16, <1>26, <2>1 DEF FlowEngine!Assign, adj
  <2> QED
    BY <1>24, <2>1, <2>2
<1>27. ASSUME FlowEngine!Delay PROVE \E r, ids, V : Executed(r, ids, V)
  <2>1. /\ agenda # <<>> /\ now.do = "step" /\ now.id \notin scopes[now.scope].visited /\ now.id \in FlowEngine!Ids(ast)
        /\ node.type = "delay"
    BY <1>16, <1>27 DEF FlowEngine!Delay
  <2>2. PICK status \in {"success", "error"} : FlowEngine!Record(status)
    BY <1>27 DEF FlowEngine!Delay
  <2>3. FlowEngine!Enter /\ FlowEngine!Follow(<<>>) /\ UNCHANGED ast
    BY <1>27 DEF FlowEngine!Delay
  <2>4. FlowEngine!Branch(res(status)) = {}
    BY <1>12, <1>13, <2>1
  <2>5. Executed(res(status), <<>>, {})
    BY <1>4, <1>18, <1>20, <2>1, <2>2, <2>3, <2>4
  <2> QED
    BY <2>5
<1>28. ASSUME FlowEngine!Webhook PROVE Still \/ \E r, ids, V : Executed(r, ids, V)
  <2>1. /\ agenda # <<>> /\ now.do = "step" /\ now.id \notin scopes[now.scope].visited /\ now.id \in FlowEngine!Ids(ast)
        /\ node.type = "webhook" /\ UNCHANGED ast /\ FlowEngine!Current = node
    BY <1>16, <1>28 DEF FlowEngine!Webhook
  <2>2. /\ adj.onSuccess \in Seq(Nat) /\ FlowEngine!Range(adj.onSuccess) \subseteq FlowEngine!Named(ast)
        /\ adj.onFailure \in Seq(Nat) /\ FlowEngine!Range(adj.onFailure) \subseteq FlowEngine!Named(ast)
        /\ FlowEngine!Range(adj.onSuccess) = FlowEngine!Branch(res("success"))
        /\ FlowEngine!Range(adj.onFailure) = FlowEngine!Branch(res("failure"))
    BY <1>5, <1>12, <1>15, <2>1
  <2>3. CASE FlowEngine!Answered("success", adj.onSuccess)
    <3>1. Executed(res("success"), adj.onSuccess, {})
      BY <1>18, <1>20, <2>1, <2>2, <2>3 DEF FlowEngine!Answered
    <3> QED
      BY <3>1
  <2>4. CASE FlowEngine!Answered("failure", adj.onFailure)
    <3>1. Executed(res("failure"), adj.onFailure, {})
      BY <1>18, <1>20, <2>1, <2>2, <2>4 DEF FlowEngine!Answered
    <3> QED
      BY <3>1
  <2>5. CASE UNCHANGED <<agenda, scopes, results>>
    BY <2>1, <2>5 DEF Still
  <2> QED
    BY <1>28, <2>1, <2>3, <2>4, <2>5 DEF FlowEngine!Webhook, adj
<1>29. ASSUME FlowEngine!Loop PROVE Begun \/ \E r, ids, V : Executed(r, ids, V)
  <2>1. /\ agenda # <<>> /\ now.do = "step" /\ now.id \notin scopes[now.scope].visited /\ now.id \in FlowEngine!Ids(ast)
        /\ node.type = "loop" /\ UNCHANGED ast /\ FlowEngine!Current = node /\ IsLoop(now.id) /\ FlowEngine!Now = now
    BY <1>3, <1>16, <1>18, <1>29 DEF FlowEngine!Loop
  <2>2. FlowEngine!Body(node) = FlowEngine!Range(node.first) /\ FlowEngine!Range(node.first) \subseteq FlowEngine!Named(ast)
    BY <1>5, <2>1 DEF FlowEngine!Body, adj
  <2>3. CASE /\ FlowEngine!Record("failure") /\ FlowEngine!Follow(<<>>)
             /\ scopes' = FlowEngine!Visit({now.id} \cup FlowEngine!Body(node))
    <3>1. FlowEngine!Branch(res("failure")) = {}
      BY <1>12, <2>1
    <3>2. scopes' = [scopes EXCEPT ![now.scope].visited = @ \cup ({now.id} \cup FlowEngine!Range(node.first))]
      BY <1>9, <2>1, <2>2, <2>3
    <3>3. scopes' = [scopes EXCEPT ![now.scope].visited = @ \cup {now.id} \cup FlowEngine!Range(node.first)]
      BY <3>2
    <3>4. Executed(res("failure"), <<>>, FlowEngine!Range(node.first))
      BY <1>4, <1>7, <1>8, <1>10, <1>11, <2>1, <2>2, <2>3, <3>1, <3>3 DEF Executed, now, node
    <3> QED
      BY <3>4
  <2>4. CASE /\ agenda' = <<FlowEngine!Items(now.id, now.scope, 1)>> \o Tail(agenda)
             /\ FlowEngine!Enter /\ UNCHANGED results /\ items # {}
    BY <1>17, <2>1, <2>4 DEF Begun, now
  <2> QED
    BY <1>29, <2>1, <2>3, <2>4 DEF FlowEngine!Loop
<1>30. ASSUME FlowEngine!NextItem PROVE Iterated
  <2>1. agenda # <<>> /\ FlowEngine!Now = now /\ now.do = "items" /\ FlowEngine!Current = node
    BY <1>3, <1>30 DEF FlowEngine!NextItem, FlowEngine!Current, node
  <2>2. adj.onSuccess = node.first
    BY <1>3, <1>5, <1>18, <2>1
  <2> QED
    BY <1>30, <2>1, <2>2 DEF FlowEngine!NextItem, Iterated, now, node, adj
<1>31. ASSUME FlowEngine!Leave PROVE \E r, ids, V : Executed(r, ids, V)
  <2>1. agenda # <<>> /\ FlowEngine!Now = now /\ now.do = "items" /\ FlowEngine!Current = node
    BY <1>3, <1>31 DEF FlowEngine!Leave, FlowEngine!Current, node
  <2>2. IsLoop(now.id) /\ now.id \in scopes[now.scope].visited /\ now.id \in FlowEngine!Ids(ast) /\ node.type = "loop"
    BY <1>3, <1>18, <2>1
  <2>3. FlowEngine!Body(node) = FlowEngine!Range(node.first) /\ FlowEngine!Range(node.first) \subseteq FlowEngine!Named(ast)
    BY <1>5, <2>1, <2>2 DEF FlowEngine!Body, adj
  <2>4. FlowEngine!Branch(res("success")) = {}
    BY <1>12, <2>1, <2>2
  <2>5. scopes' = [scopes EXCEPT ![now.scope].visited = @ \cup FlowEngine!Range(node.first)]
    BY <1>9, <1>31, <2>1, <2>3 DEF FlowEngine!Leave
  <2>6. scopes' = [scopes EXCEPT ![now.scope].visited = @ \cup {now.id} \cup FlowEngine!Range(node.first)]
    BY <2>2, <2>5
  <2>7. agenda' = FlowEngine!Calls(<<>>, now.scope) \o Tail(agenda)
    <3>1. FlowEngine!Calls(<<>>, now.scope) = <<>>
      BY DEF FlowEngine!Calls
    <3>2. Tail(agenda) \in Seq(FlowEngine!Pending)
      BY <1>2, <2>1
    <3> QED
      BY <1>31, <3>1, <3>2 DEF FlowEngine!Leave
  <2>8. FlowEngine!Record("success") /\ UNCHANGED ast
    BY <1>31 DEF FlowEngine!Leave
  <2>9. Executed(res("success"), <<>>, FlowEngine!Range(node.first))
    BY <1>4, <1>7, <1>8, <1>11, <2>1, <2>2, <2>3, <2>4, <2>6, <2>7, <2>8 DEF Executed, now, node
  <2> QED
    BY <2>9
<1>32. ASSUME FlowEngine!ReadDue \/ FlowEngine!ResumeOne \/ UNCHANGED FlowEngine!vars PROVE Still
  BY <1>32 DEF FlowEngine!ReadDue, FlowEngine!ResumeOne, FlowEngine!vars, Still
<1> QED
  BY <1>21, <1>22, <1>23, <1>25, <1>26, <1>27, <1>28, <1>29, <1>30, <1>31, <1>32 DEF FlowEngine!Next, FlowEngine!Execute

ScopeOf == [of : Nat, visited : SUBSET FlowEngine!Named(ast)]

\* The part of FlowTyped that is about what is executed.
Framed ==
    /\ ast \in Seq(FlowEngine!FlowStepNode)
    /\ agenda \in Seq(FlowEngine!Pending)
    /\ scopes \in Seq(ScopeOf)
    /\ results \in Seq(Result)
    /\ \A s \in DOMAIN scopes : s = 1 <=> scopes[s].of = FlowEngine!Whole
    /\ \A i \in 1 .. Len(agenda) :
          /\ agenda[i].scope \in DOMAIN scopes
          /\ agenda[i].id \in FlowEngine!Named(ast)
          /\ agenda[i].do = "items" => IsLoop(agenda[i].id) /\ agenda[i].id \in scopes[agenda[i].scope].visited
    /\ ResultsInScopes

\* The part that is about the data, the delays and the webhook.
FlowKept ==
    /\ \A i \in 1 .. Len(agenda) : agenda[i].do = "items" => items # {}
    /\ field \in Int /\ items \in Collections
    /\ delays \cup jobs \subseteq FlowEngine!Ids(ast) \X DOMAIN scopes
    /\ attempt \in 0 .. MaxAttempts - 1

LEMMA FlowTypedParts == FlowTyped <=> Framed /\ FlowKept
<1>1. ASSUME agenda \in Seq(FlowEngine!Pending) PROVE DOMAIN agenda = 1 .. Len(agenda)
  BY <1>1
<1> QED
  BY <1>1 DEF FlowTyped, Framed, FlowKept, FlowEngine!TypeOK, ScopeOf, Result

\* What a step puts in the place of the head of the agenda.
Fresh(new) ==
    /\ new \in Seq(FlowEngine!Pending)
    /\ agenda # <<>> /\ agenda' = new \o Tail(agenda)
    /\ \A i \in 1 .. Len(new) : new[i].do = "items" =>
          i = Len(new) /\ new[i].id = agenda[1].id /\ new[i].scope = agenda[1].scope

LEMMA FreshSkipped ==
  ASSUME Framed, Skipped
  PROVE  Fresh(<<>>)
<1>1. <<>> \in Seq(FlowEngine!Pending) /\ Len(<<>>) = 0
  OBVIOUS
<1>2. Tail(agenda) \in Seq(FlowEngine!Pending)
  BY DEF Framed, Skipped
<1>3. <<>> \o Tail(agenda) = Tail(agenda)
  BY <1>2
<1> QED
  BY <1>1, <1>3 DEF Skipped, Fresh

LEMMA FreshExecuted ==
  ASSUME Framed, NEW r, NEW ids, NEW V, Executed(r, ids, V)
  PROVE  LET new == FlowEngine!Calls(ids, agenda[1].scope)
         IN  /\ Fresh(new)
             /\ \A i \in 1 .. Len(new) : /\ new[i].do = "step" /\ new[i].scope = agenda[1].scope
                                         /\ new[i].id \in FlowEngine!Range(ids)
             /\ \A x \in FlowEngine!Range(ids) : \E i \in 1 .. Len(new) : new[i].id = x
<1> DEFINE new == FlowEngine!Calls(ids, agenda[1].scope)
<1>1. agenda[1].scope \in Nat
  <2>1. 1 \in 1 .. Len(agenda) /\ agenda[1] \in FlowEngine!Pending
    BY DEF Framed, Executed
  <2> QED
    BY <2>1 DEF FlowEngine!Pending
<1>2. ids \in Seq(Nat) /\ DOMAIN ids = 1 .. Len(ids)
  BY DEF Executed
<1>3. /\ new \in Seq(FlowEngine!Pending) /\ Len(new) = Len(ids)
      /\ \A i \in 1 .. Len(ids) : new[i] = [do |-> "step", id |-> ids[i], scope |-> agenda[1].scope]
  BY <1>1, <1>2, CallsOf
<1> HIDE DEF new
<1>4. ASSUME NEW i \in 1 .. Len(new)
      PROVE  new[i].do = "step" /\ new[i].scope = agenda[1].scope /\ new[i].id = ids[i]
  <2>1. new[i] = [do |-> "step", id |-> ids[i], scope |-> agenda[1].scope]
    BY <1>3
  <2> QED
    BY <2>1
<1>5. Fresh(new)
  BY <1>3, <1>4 DEF Executed, Fresh, new
<1>6. FlowEngine!Range(ids) = {ids[i] : i \in 1 .. Len(ids)}
  BY <1>2 DEF FlowEngine!Range
<1> QED
  BY <1>3, <1>4, <1>5, <1>6 DEF new

LEMMA FreshBegun ==
  ASSUME Framed, Begun
  PROVE  LET new == <<FlowEngine!Items(agenda[1].id, agenda[1].scope, 1)>>
         IN  /\ Fresh(new) /\ Len(new) = 1
             /\ new[1].do = "items" /\ new[1].id = agenda[1].id /\ new[1].scope = agenda[1].scope
<1>1. agenda[1].scope \in Nat /\ agenda[1].id \in Nat
  <2>1. 1 \in 1 .. Len(agenda) /\ agenda[1] \in FlowEngine!Pending
    BY DEF Framed, Begun
  <2> QED
    BY <2>1 DEF FlowEngine!Pending
<1> DEFINE item == FlowEngine!Items(agenda[1].id, agenda[1].scope, 1)
<1>2. item \in FlowEngine!Pending /\ item.do = "items" /\ item.id = agenda[1].id /\ item.scope = agenda[1].scope
  BY <1>1 DEF FlowEngine!Items, FlowEngine!Pending
<1> HIDE DEF item
<1> DEFINE new == <<item>>
<1>3. new \in Seq(FlowEngine!Pending) /\ Len(new) = 1 /\ new[1] = item
  BY <1>2
<1>4. agenda # <<>> /\ agenda' = new \o Tail(agenda)
  BY DEF Begun, item
<1> HIDE DEF new
<1>5. Fresh(new)
  BY <1>2, <1>3, <1>4 DEF Fresh
<1> QED
  BY <1>2, <1>3, <1>5 DEF item, new

LEMMA FreshIterated ==
  ASSUME Framed, Iterated
  PROVE  LET first == FlowEngine!Node(ast, agenda[1].id).first
             new == FlowEngine!Calls(first, Len(scopes) + 1)
                        \o <<FlowEngine!Items(agenda[1].id, agenda[1].scope, agenda[1].index + 1)>>
         IN  /\ Fresh(new) /\ first \in Seq(Nat) /\ FlowEngine!Range(first) \subseteq FlowEngine!Named(ast)
             /\ Len(new) = Len(first) + 1
             /\ \A i \in 1 .. Len(first) : /\ new[i].do = "step" /\ new[i].scope = Len(scopes) + 1
                                           /\ new[i].id = first[i]
             /\ new[Len(first) + 1].do = "items"
             /\ new[Len(first) + 1].id = agenda[1].id /\ new[Len(first) + 1].scope = agenda[1].scope
<1> DEFINE first == FlowEngine!Node(ast, agenda[1].id).first
           calls == FlowEngine!Calls(first, Len(scopes) + 1)
           item == FlowEngine!Items(agenda[1].id, agenda[1].scope, agenda[1].index + 1)
<1>1. agenda[1].scope \in Nat /\ agenda[1].id \in Nat /\ agenda[1].index \in Nat \ {0} /\ Len(scopes) + 1 \in Nat
  <2>1. 1 \in 1 .. Len(agenda) /\ agenda[1] \in FlowEngine!Pending /\ agenda[1].do = "items"
    BY DEF Framed, Iterated
  <2> QED
    BY <2>1 DEF FlowEngine!Pending, Framed
<1>2. item \in FlowEngine!Pending /\ item.do = "items" /\ item.id = agenda[1].id /\ item.scope = agenda[1].scope
  BY <1>1 DEF FlowEngine!Items, FlowEngine!Pending
<1>3. first \in Seq(Nat) /\ FlowEngine!Range(first) \subseteq FlowEngine!Named(ast)
  <2>1. 1 \in 1 .. Len(agenda) /\ IsLoop(agenda[1].id) /\ ast \in Seq(FlowEngine!FlowStepNode)
    BY DEF Framed, Iterated
  <2>2. agenda[1].id \in FlowEngine!Ids(ast)
    BY <2>1 DEF IsLoop
  <2> QED
    BY <2>1, <2>2, ListsNamed
<1>4. /\ calls \in Seq(FlowEngine!Pending) /\ Len(calls) = Len(first)
      /\ \A i \in 1 .. Len(first) : calls[i] = [do |-> "step", id |-> first[i], scope |-> Len(scopes) + 1]
  BY <1>1, <1>3, CallsOf
<1>5. agenda # <<>> /\ agenda' = (calls \o <<item>>) \o Tail(agenda)
  BY DEF Iterated
<1> HIDE DEF item, calls, first
<1>6. /\ calls \o <<item>> \in Seq(FlowEngine!Pending) /\ Len(calls \o <<item>>) = Len(calls) + 1
      /\ \A i \in 1 .. Len(calls) : (calls \o <<item>>)[i] = calls[i]
      /\ (calls \o <<item>>)[Len(calls) + 1] = item
  BY <1>2, <1>4
<1> DEFINE new == calls \o <<item>>
<1> HIDE DEF new
<1>7. /\ new \in Seq(FlowEngine!Pending) /\ Len(new) = Len(first) + 1 /\ Len(first) \in Nat
      /\ \A i \in 1 .. Len(first) : new[i].do = "step" /\ new[i].scope = Len(scopes) + 1 /\ new[i].id = first[i]
      /\ new[Len(first) + 1] = item
  <2>1. Len(first) \in Nat
    BY <1>3
  <2>2. \A i \in 1 .. Len(first) : new[i] = [do |-> "step", id |-> first[i], scope |-> Len(scopes) + 1]
    BY <1>4, <1>6 DEF new
  <2>3. ASSUME NEW i \in 1 .. Len(first)
        PROVE  new[i].do = "step" /\ new[i].scope = Len(scopes) + 1 /\ new[i].id = first[i]
    <3>1. new[i] = [do |-> "step", id |-> first[i], scope |-> Len(scopes) + 1]
      BY <2>2
    <3> QED
      BY ONLY <3>1
  <2>4. new[Len(first) + 1] = item /\ Len(new) = Len(first) + 1 /\ new \in Seq(FlowEngine!Pending)
    BY <1>4, <1>6 DEF new
  <2> QED
    BY <2>1, <2>3, <2>4
<1>8. ASSUME NEW i \in 1 .. Len(new), new[i].do = "items"
      PROVE  i = Len(new) /\ new[i].id = agenda[1].id /\ new[i].scope = agenda[1].scope
  BY <1>2, <1>7, <1>8
<1>9. Fresh(new)
  BY <1>5, <1>7, <1>8 DEF Fresh, new
<1> QED
  BY <1>2, <1>3, <1>7, <1>9 DEF new, calls, item, first

\* The agenda after a step: what the step put there, and what was pending.
LEMMA NewAgenda ==
  ASSUME Framed, NEW new, Fresh(new)
  PROVE  /\ agenda' \in Seq(FlowEngine!Pending) /\ Len(agenda') \in Nat
         /\ Len(new) \in Nat /\ Len(agenda) \in Nat \ {0} /\ 1 \in 1 .. Len(agenda)
         /\ \A i \in 1 .. Len(new) : i \in 1 .. Len(agenda') /\ agenda'[i] = new[i]
         /\ \A i \in 2 .. Len(agenda) : \E k \in 1 .. Len(agenda') : agenda'[k] = agenda[i]
         /\ \A i \in 1 .. Len(agenda') : i > Len(new) =>
               i - Len(new) + 1 \in 2 .. Len(agenda) /\ agenda'[i] = agenda[i - Len(new) + 1]
         /\ \A i \in 1 .. Len(agenda') :
               \/ \E j \in 1 .. Len(new) : agenda'[i] = new[j]
               \/ \E j \in 2 .. Len(agenda) : agenda'[i] = agenda[j]
<1> DEFINE q == agenda
           list == new \o Tail(q)
<1>1. q \in Seq(FlowEngine!Pending) /\ q # <<>> /\ new \in Seq(FlowEngine!Pending) /\ agenda' = list
  BY DEF Framed, Fresh
<1>2. Len(q) \in Nat \ {0} /\ 1 \in 1 .. Len(q) /\ Len(new) \in Nat
  BY <1>1
<1>3. /\ list \in Seq(FlowEngine!Pending)
      /\ Len(list) = Len(new) + Len(q) - 1
      /\ \A i \in 1 .. Len(new) : i \in 1 .. Len(list) /\ list[i] = new[i]
      /\ \A i \in 2 .. Len(q) : Len(new) + i - 1 \in 1 .. Len(list) /\ list[Len(new) + i - 1] = q[i]
      /\ \A i \in 1 .. Len(list) : i > Len(new) =>
             i - Len(new) + 1 \in 2 .. Len(q) /\ list[i] = q[i - Len(new) + 1]
  BY ONLY <1>1, Replaced
<1> HIDE DEF list, q
<1>4. \A i \in 2 .. Len(q) : \E k \in 1 .. Len(list) : list[k] = q[i]
  BY <1>3
<1>5. ASSUME NEW i \in 1 .. Len(list)
      PROVE  \/ \E j \in 1 .. Len(new) : list[i] = new[j]
             \/ \E j \in 2 .. Len(q) : list[i] = q[j]
  <2>1. CASE i <= Len(new)
    <3>1. i \in 1 .. Len(new)
      BY <1>2, <2>1
    <3> QED
      BY <1>3, <3>1
  <2>2. CASE i > Len(new)
    BY <1>3, <2>2
  <2> QED
    BY <1>2, <1>3, <2>1, <2>2
<1>6. Len(list) \in Nat
  BY <1>2, <1>3
<1> QED
  BY <1>1, <1>2, <1>3, <1>4, <1>5, <1>6 DEF q

\* What the flow's names mean does not change.
LEMMA FlowStays ==
  ASSUME UNCHANGED ast
  PROVE  /\ \A x : IsLoop(x)' <=> IsLoop(x)
         /\ FlowEngine!Named(ast)' = FlowEngine!Named(ast) /\ FlowEngine!Ids(ast)' = FlowEngine!Ids(ast)
         /\ ScopeOf' = ScopeOf
         /\ FlowEngine!EntrySteps(ast)' = FlowEngine!EntrySteps(ast)
         /\ \A x : FlowEngine!Node(ast, x)' = FlowEngine!Node(ast, x)
         /\ \A r : FlowEngine!Branch(r)' = FlowEngine!Branch(r)
BY DEF IsLoop, ScopeOf, FlowEngine!Branch

\* What visiting more does to the scopes.
LEMMA MoreVisited ==
  ASSUME Framed, agenda # <<>>, NEW V, V \subseteq FlowEngine!Named(ast), UNCHANGED ast,
         scopes' = [scopes EXCEPT ![agenda[1].scope].visited = @ \cup V]
  PROVE  /\ agenda[1].scope \in 1 .. Len(scopes) /\ Len(scopes) \in Nat
         /\ scopes' \in Seq(ScopeOf') /\ Len(scopes') = Len(scopes)
         /\ DOMAIN scopes = 1 .. Len(scopes) /\ DOMAIN scopes' = 1 .. Len(scopes)
         /\ \A t \in 1 .. Len(scopes) :
               /\ scopes'[t].of = scopes[t].of
               /\ scopes'[t].visited = IF t = agenda[1].scope THEN scopes[t].visited \cup V ELSE scopes[t].visited
               /\ scopes[t].visited \subseteq scopes'[t].visited
<1> DEFINE s == agenda[1].scope
<1>1. scopes \in Seq(ScopeOf) /\ DOMAIN scopes = 1 .. Len(scopes) /\ Len(scopes) \in Nat
  BY DEF Framed
<1>2. s \in 1 .. Len(scopes)
  <2>1. agenda \in Seq(FlowEngine!Pending)
    BY DEF Framed
  <2>2. 1 \in 1 .. Len(agenda)
    BY <2>1
  <2> QED
    BY <1>1, <2>2 DEF Framed
<1> HIDE DEF s
<1>3. scopes' = [scopes EXCEPT ![s].visited = @ \cup V]
  BY DEF s
<1>a. \A t \in 1 .. Len(scopes) : scopes[t] \in ScopeOf /\ scopes[t].of \in Nat /\ scopes[t].visited \in SUBSET FlowEngine!Named(ast)
  <2>1. \A t \in 1 .. Len(scopes) : scopes[t] \in ScopeOf
    BY <1>1
  <2> QED
    BY <2>1 DEF ScopeOf
<1>b. \A t \in 1 .. Len(scopes) : scopes'[t] = IF t = s THEN [scopes[s] EXCEPT !.visited = @ \cup V] ELSE scopes[t]
  BY <1>1, <1>3
<1>c. /\ [scopes[s] EXCEPT !.visited = @ \cup V] \in ScopeOf
      /\ [scopes[s] EXCEPT !.visited = @ \cup V].of = scopes[s].of
      /\ [scopes[s] EXCEPT !.visited = @ \cup V].visited = scopes[s].visited \cup V
  BY <1>2, <1>a DEF ScopeOf
<1>4. /\ scopes' \in Seq(ScopeOf) /\ Len(scopes') = Len(scopes)
      /\ \A t \in 1 .. Len(scopes) :
            /\ scopes'[t].of = scopes[t].of
            /\ scopes'[t].visited = IF t = s THEN scopes[s].visited \cup V ELSE scopes[t].visited
  <2>1. scopes' \in [1 .. Len(scopes) -> ScopeOf]
    BY <1>1, <1>3, <1>a, <1>b, <1>c
  <2>2. scopes' \in Seq(ScopeOf) /\ Len(scopes') = Len(scopes)
    BY <1>1, <2>1
  <2>3. ASSUME NEW t \in 1 .. Len(scopes)
        PROVE  /\ scopes'[t].of = scopes[t].of
               /\ scopes'[t].visited = IF t = s THEN scopes[s].visited \cup V ELSE scopes[t].visited
    <3>1. CASE t = s
      BY <1>b, <1>c, <3>1
    <3>2. CASE t # s
      <4>1. scopes'[t] = scopes[t]
        BY <1>b, <3>2
      <4> QED
        BY ONLY <3>2, <4>1
    <3> QED
      BY <3>1, <3>2
  <2> QED
    BY <2>2, <2>3
<1>5. ScopeOf' = ScopeOf
  BY FlowStays
<1>6. DOMAIN scopes' = 1 .. Len(scopes)
  BY <1>4
<1>7. \A t \in 1 .. Len(scopes) : scopes[t].visited \subseteq scopes'[t].visited
  BY <1>4
<1> QED
  BY <1>1, <1>2, <1>4, <1>5, <1>6, <1>7 DEF s

\* The entries of the agenda are of known scopes, and their loops visited.
Sound(entry, in) ==
    /\ entry.scope \in DOMAIN in
    /\ entry.id \in FlowEngine!Named(ast)
    /\ entry.do = "items" => IsLoop(entry.id) /\ entry.id \in in[entry.scope].visited

\* A step frames: entries that were sound stay so where the scopes only visit more.
LEMMA FramedStep ==
  ASSUME Framed, UNCHANGED ast,
         scopes' \in Seq(ScopeOf'), DOMAIN scopes \subseteq DOMAIN scopes',
         \A t \in DOMAIN scopes : scopes[t].visited \subseteq scopes'[t].visited,
         \A t \in DOMAIN scopes' : t = 1 <=> scopes'[t].of = FlowEngine!Whole,
         results' \in Seq(Result), ResultsInScopes',
         NEW new, Fresh(new), \A i \in 1 .. Len(new) : Sound(new[i], scopes')
  PROVE  Framed'
<1>1. \A j \in 1 .. Len(agenda) : Sound(agenda[j], scopes)
  BY DEF Framed, Sound
<1>2. \A e : Sound(e, scopes) => Sound(e, scopes')
  BY DEF Sound
<1>3. Len(agenda) \in Nat /\ agenda' \in Seq(FlowEngine!Pending)
  BY NewAgenda
<1>4. ASSUME NEW i \in 1 .. Len(agenda') PROVE Sound(agenda'[i], scopes')
  <2>1. CASE \E j \in 1 .. Len(new) : agenda'[i] = new[j]
    <3>1. PICK j \in 1 .. Len(new) : agenda'[i] = new[j]
      BY <2>1
    <3>2. Sound(new[j], scopes')
      BY <3>1
    <3> QED
      BY <3>1, <3>2
  <2>2. CASE \E j \in 2 .. Len(agenda) : agenda'[i] = agenda[j]
    <3>1. PICK j \in 2 .. Len(agenda) : agenda'[i] = agenda[j]
      BY <2>2
    <3>2. j \in 1 .. Len(agenda)
      BY <1>3
    <3>3. Sound(agenda[j], scopes')
      BY <1>1, <1>2, <3>2
    <3> QED
      BY <3>1, <3>3
  <2> QED
    BY <2>1, <2>2, NewAgenda
<1>5. /\ ast' \in Seq(FlowEngine!FlowStepNode) /\ agenda' \in Seq(FlowEngine!Pending)
      /\ FlowEngine!FlowStepNode' = FlowEngine!FlowStepNode /\ FlowEngine!Pending' = FlowEngine!Pending
      /\ FlowEngine!Whole' = FlowEngine!Whole /\ Result' = Result
  BY <1>3 DEF Framed, FlowEngine!FlowStepNode, FlowEngine!Pending, FlowEngine!Whole, Result
<1>6. \A i \in 1 .. Len(agenda') :
         /\ agenda'[i].scope \in DOMAIN scopes'
         /\ agenda'[i].id \in FlowEngine!Named(ast)'
         /\ agenda'[i].do = "items" => IsLoop(agenda'[i].id) /\ agenda'[i].id \in scopes'[agenda'[i].scope].visited
  BY <1>4, FlowStays DEF Sound
<1>7. \A x : IsLoop(x)' <=> IsLoop(x)
  BY FlowStays
<1> QED
  BY <1>5, <1>6, <1>7 DEF Framed, IsLoop

LEMMA HeadSound ==
  ASSUME Framed, agenda # <<>>
  PROVE  /\ 1 \in 1 .. Len(agenda) /\ Sound(agenda[1], scopes)
         /\ agenda[1].id \in Nat /\ agenda[1].scope \in Nat
<1>1. 1 \in 1 .. Len(agenda) /\ agenda[1] \in FlowEngine!Pending
  BY DEF Framed
<1> QED
  BY <1>1 DEF Framed, Sound, FlowEngine!Pending

LEMMA FramedStill == ASSUME Framed, Still PROVE Framed'
<1>1. /\ \A x : IsLoop(x)' <=> IsLoop(x)
      /\ FlowEngine!Named(ast)' = FlowEngine!Named(ast) /\ ScopeOf' = ScopeOf
  BY FlowStays DEF Still
<1>2. FlowEngine!FlowStepNode' = FlowEngine!FlowStepNode /\ FlowEngine!Pending' = FlowEngine!Pending
      /\ FlowEngine!Whole' = FlowEngine!Whole /\ Result' = Result
  BY DEF FlowEngine!FlowStepNode, FlowEngine!Pending, FlowEngine!Whole, Result
<1> QED
  BY <1>1, <1>2 DEF Framed, Still, ResultsInScopes, IsLoop

LEMMA FramedSkipped == ASSUME Framed, Skipped PROVE Framed'
<1>1. Fresh(<<>>)
  BY FreshSkipped
<1>2. \A i \in 1 .. Len(<<>>) : Sound(<<>>[i], scopes')
  OBVIOUS
<1>3. UNCHANGED <<ast, scopes, results>>
  BY DEF Skipped
<1>4. ScopeOf' = ScopeOf /\ \A t \in DOMAIN scopes' : t = 1 <=> scopes'[t].of = FlowEngine!Whole
  BY <1>3, FlowStays DEF Framed
<1>5. scopes' \in Seq(ScopeOf') /\ results' \in Seq(Result) /\ ResultsInScopes'
  BY <1>3, <1>4 DEF Framed, ResultsInScopes
<1> QED
  BY <1>1, <1>2, <1>3, <1>4, <1>5, FramedStep

\* A result is added to the list.
LEMMA MoreResults ==
  ASSUME results \in Seq(Result), NEW r \in Result, results' = Append(results, r)
  PROVE  /\ results' \in Seq(Result) /\ Len(results') = Len(results) + 1 /\ Len(results) \in Nat
         /\ \A k \in 1 .. Len(results) : k \in 1 .. Len(results') /\ results'[k] = results[k]
         /\ results'[Len(results) + 1] = r /\ Len(results) + 1 \in 1 .. Len(results')
         /\ \A k \in 1 .. Len(results') : k \in 1 .. Len(results) \/ k = Len(results) + 1
<1>1. /\ results' \in Seq(Result) /\ Len(results') = Len(results) + 1 /\ Len(results) \in Nat
      /\ \A k \in 1 .. Len(results) : results'[k] = results[k]
      /\ results'[Len(results) + 1] = r
  OBVIOUS
<1> QED
  BY <1>1

LEMMA FramedExecuted == ASSUME Framed, NEW r, NEW ids, NEW V, Executed(r, ids, V) PROVE Framed'
<1> DEFINE new == FlowEngine!Calls(ids, agenda[1].scope)
           W == {agenda[1].id} \cup V
<1>1. /\ agenda # <<>> /\ UNCHANGED ast /\ V \subseteq FlowEngine!Named(ast)
      /\ r \in Result /\ r.scope = agenda[1].scope /\ r.id = agenda[1].id /\ results' = Append(results, r)
      /\ FlowEngine!Range(ids) \subseteq FlowEngine!Named(ast)
  BY DEF Executed
<1>2. Sound(agenda[1], scopes)
  BY <1>1, HeadSound
<1>3. scopes' = [scopes EXCEPT ![agenda[1].scope].visited = @ \cup W]
  BY DEF Executed
<1>4. W \subseteq FlowEngine!Named(ast)
  BY <1>1, <1>2 DEF Sound
<1> HIDE DEF W
<1>5. /\ agenda[1].scope \in 1 .. Len(scopes)
      /\ scopes' \in Seq(ScopeOf') /\ DOMAIN scopes = 1 .. Len(scopes) /\ DOMAIN scopes' = 1 .. Len(scopes)
      /\ \A t \in 1 .. Len(scopes) : scopes'[t].of = scopes[t].of /\ scopes[t].visited \subseteq scopes'[t].visited
  BY <1>1, <1>3, <1>4, MoreVisited
<1>6. /\ Fresh(new)
      /\ \A i \in 1 .. Len(new) : new[i].do = "step" /\ new[i].scope = agenda[1].scope /\ new[i].id \in FlowEngine!Range(ids)
  BY FreshExecuted
<1> HIDE DEF new
<1>7. \A i \in 1 .. Len(new) : Sound(new[i], scopes')
  BY <1>1, <1>5, <1>6 DEF Sound
<1>8. /\ results \in Seq(Result) /\ \A k \in 1 .. Len(results) : results[k].scope \in DOMAIN scopes
      /\ \A t \in DOMAIN scopes : t = 1 <=> scopes[t].of = FlowEngine!Whole
  BY DEF Framed, ResultsInScopes
<1>9. results' \in Seq(Result) /\ ResultsInScopes'
  <2>1. /\ results' \in Seq(Result)
        /\ \A k \in 1 .. Len(results) : results'[k] = results[k]
        /\ results'[Len(results) + 1] = r
        /\ \A k \in 1 .. Len(results') : k \in 1 .. Len(results) \/ k = Len(results) + 1
    BY <1>1, <1>8, MoreResults
  <2> QED
    BY <1>1, <1>5, <1>8, <2>1 DEF ResultsInScopes
<1>10. \A t \in DOMAIN scopes' : t = 1 <=> scopes'[t].of = FlowEngine!Whole
  BY <1>5, <1>8
<1> QED
  BY <1>1, <1>5, <1>6, <1>7, <1>9, <1>10, FramedStep

LEMMA FramedBegun == ASSUME Framed, Begun PROVE Framed'
<1> DEFINE new == <<FlowEngine!Items(agenda[1].id, agenda[1].scope, 1)>>
<1>1. /\ agenda # <<>> /\ UNCHANGED <<ast, results>> /\ IsLoop(agenda[1].id)
      /\ scopes' = [scopes EXCEPT ![agenda[1].scope].visited = @ \cup {agenda[1].id}]
  BY DEF Begun
<1>2. Sound(agenda[1], scopes)
  BY <1>1, HeadSound
<1>3. {agenda[1].id} \subseteq FlowEngine!Named(ast)
  BY <1>2 DEF Sound
<1>5. /\ agenda[1].scope \in 1 .. Len(scopes)
      /\ scopes' \in Seq(ScopeOf') /\ DOMAIN scopes = 1 .. Len(scopes) /\ DOMAIN scopes' = 1 .. Len(scopes)
      /\ \A t \in 1 .. Len(scopes) :
            /\ scopes'[t].of = scopes[t].of /\ scopes[t].visited \subseteq scopes'[t].visited
            /\ t = agenda[1].scope => agenda[1].id \in scopes'[t].visited
  <2> DEFINE V == {agenda[1].id}
  <2>1. V \subseteq FlowEngine!Named(ast) /\ scopes' = [scopes EXCEPT ![agenda[1].scope].visited = @ \cup V]
    BY <1>1, <1>3
  <2>2. agenda[1].id \in V
    OBVIOUS
  <2> HIDE DEF V
  <2>3. /\ agenda[1].scope \in 1 .. Len(scopes)
        /\ scopes' \in Seq(ScopeOf') /\ DOMAIN scopes = 1 .. Len(scopes) /\ DOMAIN scopes' = 1 .. Len(scopes)
        /\ \A t \in 1 .. Len(scopes) :
              /\ scopes'[t].of = scopes[t].of /\ scopes[t].visited \subseteq scopes'[t].visited
              /\ scopes'[t].visited = IF t = agenda[1].scope THEN scopes[t].visited \cup V ELSE scopes[t].visited
    BY <1>1, <2>1, MoreVisited
  <2> QED
    BY <2>2, <2>3
<1>6. /\ Fresh(new) /\ Len(new) = 1
      /\ new[1].do = "items" /\ new[1].id = agenda[1].id /\ new[1].scope = agenda[1].scope
  BY FreshBegun
<1> HIDE DEF new
<1>7. \A i \in 1 .. Len(new) : Sound(new[i], scopes')
  <2>1. Sound(new[1], scopes')
    BY <1>1, <1>3, <1>5, <1>6 DEF Sound
  <2>2. \A i \in 1 .. Len(new) : i = 1
    BY <1>6
  <2> QED
    BY <2>1, <2>2
<1>8. /\ results' \in Seq(Result) /\ ResultsInScopes'
      /\ \A t \in DOMAIN scopes' : t = 1 <=> scopes'[t].of = FlowEngine!Whole
  BY <1>1, <1>5 DEF Framed, ResultsInScopes
<1> QED
  BY <1>1, <1>5, <1>6, <1>7, <1>8, FramedStep

LEMMA FramedIterated == ASSUME Framed, Iterated PROVE Framed'
<1> DEFINE first == FlowEngine!Node(ast, agenda[1].id).first
           new == FlowEngine!Calls(first, Len(scopes) + 1)
                      \o <<FlowEngine!Items(agenda[1].id, agenda[1].scope, agenda[1].index + 1)>>
           scope == [of |-> agenda[1].id, visited |-> {}]
<1>1. /\ agenda # <<>> /\ UNCHANGED <<ast, results>> /\ agenda[1].do = "items"
      /\ scopes' = Append(scopes, scope)
  BY DEF Iterated
<1>2. Sound(agenda[1], scopes) /\ agenda[1].id \in Nat
  BY <1>1, HeadSound
<1>3. /\ scopes \in Seq(ScopeOf) /\ scope \in ScopeOf
  BY <1>2 DEF Framed, ScopeOf
<1>4. agenda[1].id # FlowEngine!Whole
  <2>1. agenda[1].id \in FlowEngine!Ids(ast) /\ ast \in Seq(FlowEngine!FlowStepNode)
    BY <1>1, <1>2 DEF Sound, IsLoop, Framed
  <2>2. FlowEngine!Node(ast, agenda[1].id) \in FlowEngine!FlowStepNode
        /\ FlowEngine!Node(ast, agenda[1].id).id = agenda[1].id
    BY <2>1, NodesNamed
  <2> QED
    BY <2>2 DEF FlowEngine!FlowStepNode
<1>5. scope.of = agenda[1].id
  OBVIOUS
<1> HIDE DEF scope
<1>6. /\ scopes' \in Seq(ScopeOf) /\ Len(scopes) \in Nat
      /\ DOMAIN scopes = 1 .. Len(scopes) /\ DOMAIN scopes' = 1 .. Len(scopes) + 1
      /\ \A t \in 1 .. Len(scopes) : scopes'[t] = scopes[t]
      /\ scopes'[Len(scopes) + 1] = scope
  BY <1>1, <1>3
<1>7. Len(scopes) + 1 # 1
  BY <1>2, <1>6 DEF Sound
<1>8. \A t \in DOMAIN scopes' : t = 1 <=> scopes'[t].of = FlowEngine!Whole
  <2> SUFFICES ASSUME NEW t \in DOMAIN scopes' PROVE t = 1 <=> scopes'[t].of = FlowEngine!Whole
    OBVIOUS
  <2>1. CASE t = Len(scopes) + 1
    BY <1>4, <1>5, <1>6, <1>7, <2>1
  <2>2. CASE t \in 1 .. Len(scopes)
    BY <1>6, <2>2 DEF Framed
  <2> QED
    BY <1>6, <2>1, <2>2
<1>9. /\ Fresh(new) /\ FlowEngine!Range(first) \subseteq FlowEngine!Named(ast) /\ first \in Seq(Nat)
      /\ Len(new) = Len(first) + 1
      /\ \A i \in 1 .. Len(first) : new[i].do = "step" /\ new[i].scope = Len(scopes) + 1 /\ new[i].id = first[i]
      /\ new[Len(first) + 1].do = "items"
      /\ new[Len(first) + 1].id = agenda[1].id /\ new[Len(first) + 1].scope = agenda[1].scope
  BY FreshIterated
<1> HIDE DEF new, first
<1>10. ASSUME NEW i \in 1 .. Len(new) PROVE Sound(new[i], scopes')
  <2>1. CASE i = Len(first) + 1
    BY <1>1, <1>2, <1>6, <1>9, <2>1 DEF Sound
  <2>2. CASE i \in 1 .. Len(first)
    <3>1. first[i] \in FlowEngine!Named(ast)
      BY <1>9, <2>2 DEF FlowEngine!Range
    <3> QED
      BY <1>6, <1>9, <2>2, <3>1 DEF Sound
  <2>3. Len(first) \in Nat
    BY <1>9
  <2> QED
    BY <1>9, <2>1, <2>2, <2>3
<1>11. results' \in Seq(Result) /\ ResultsInScopes'
  BY <1>1, <1>6 DEF Framed, ResultsInScopes
<1>12. scopes' \in Seq(ScopeOf') /\ DOMAIN scopes \subseteq DOMAIN scopes'
       /\ \A t \in DOMAIN scopes : scopes[t].visited \subseteq scopes'[t].visited
  BY <1>1, <1>6, FlowStays
<1> QED
  BY <1>1, <1>8, <1>9, <1>10, <1>11, <1>12, FramedStep

LEMMA FramedNext ==
  ASSUME FlowTyped, [FlowEngine!Next]_FlowEngine!vars
  PROVE  Framed'
<1>1. Framed
  BY FlowTypedParts
<1> QED
  BY <1>1, FlowSteps, FramedStill, FramedSkipped, FramedExecuted, FramedBegun, FramedIterated

\* Loops under way have items.
ItemsThere == \A i \in 1 .. Len(agenda) : agenda[i].do = "items" => items # {}

LEMMA ItemsThereStep ==
  ASSUME FlowTyped, [FlowEngine!Next]_FlowEngine!vars
  PROVE  ItemsThere' /\ UNCHANGED items
<1>1. Framed /\ ItemsThere
  BY FlowTypedParts DEF FlowKept, ItemsThere
<1>2. UNCHANGED items
  BY DEF FlowEngine!Next, FlowEngine!Execute, FlowEngine!Skip, FlowEngine!Unknown, FlowEngine!Condition,
         FlowEngine!Simple, FlowEngine!Assign, FlowEngine!Delay, FlowEngine!Webhook, FlowEngine!Loop,
         FlowEngine!NextItem, FlowEngine!Leave, FlowEngine!ReadDue, FlowEngine!ResumeOne, FlowEngine!vars
<1>3. CASE items # {}
  BY <1>2, <1>3 DEF ItemsThere
<1>4. CASE items = {}
  <2>1. \A i \in 1 .. Len(agenda) : agenda[i].do # "items"
    BY <1>1, <1>4 DEF ItemsThere
  <2>2. \A new : Fresh(new) /\ (\A i \in 1 .. Len(new) : new[i].do # "items") => ItemsThere'
    <3> SUFFICES ASSUME NEW new, Fresh(new), \A i \in 1 .. Len(new) : new[i].do # "items",
                        NEW i \in 1 .. Len(agenda')
                 PROVE  agenda'[i].do # "items"
      BY DEF ItemsThere
    <3>1. \/ \E j \in 1 .. Len(new) : agenda'[i] = new[j]
          \/ \E j \in 2 .. Len(agenda) : agenda'[i] = agenda[j]
      BY <1>1, NewAgenda
    <3>2. Len(agenda) \in Nat
      BY <1>1, NewAgenda
    <3> QED
      BY <2>1, <3>1, <3>2
  <2>3. CASE Still
    <3>1. agenda' = agenda
      BY <2>3 DEF Still
    <3> QED
      BY <1>2, <2>1, <3>1 DEF ItemsThere
  <2>4. CASE Skipped
    <3> DEFINE new == <<>>
    <3>1. Fresh(new) /\ \A i \in 1 .. Len(new) : new[i].do # "items"
      BY <1>1, <2>4, FreshSkipped
    <3> HIDE DEF new
    <3> QED
      BY <1>2, <2>2, <3>1
  <2>5. ~ Begun
    BY <1>4 DEF Begun
  <2>6. ~ Iterated
    <3> SUFFICES ASSUME Iterated PROVE FALSE
      OBVIOUS
    <3>1. agenda # <<>> /\ agenda[1].do = "items"
      BY DEF Iterated
    <3> QED
      BY <1>1, <2>1, <3>1, HeadSound
  <2>7. ASSUME NEW r, NEW ids, NEW V, Executed(r, ids, V) PROVE ItemsThere'
    <3> DEFINE new == FlowEngine!Calls(ids, agenda[1].scope)
    <3>1. Fresh(new) /\ \A i \in 1 .. Len(new) : new[i].do = "step"
      BY <1>1, <2>7, FreshExecuted
    <3> HIDE DEF new
    <3> QED
      BY <1>2, <2>2, <3>1
  <2>8. Still \/ Skipped \/ Begun \/ Iterated \/ \E r, ids, V : Executed(r, ids, V)
    BY FlowSteps
  <2> QED
    BY <1>2, <2>3, <2>4, <2>5, <2>6, <2>7, <2>8
<1> QED
  BY <1>2, <1>3, <1>4

\* Scopes are added, never dropped.
LEMMA ScopesStay ==
  ASSUME Framed, Still \/ Skipped \/ Begun \/ Iterated \/ \E r, ids, V : Executed(r, ids, V)
  PROVE  DOMAIN scopes \subseteq DOMAIN scopes' /\ UNCHANGED ast
<1>1. CASE Still \/ Skipped
  BY <1>1 DEF Still, Skipped
<1>2. CASE Begun
  BY <1>2 DEF Begun
<1>3. CASE Iterated
  <2>1. scopes' = Append(scopes, [of |-> agenda[1].id, visited |-> {}]) /\ scopes \in Seq(ScopeOf)
    BY <1>3 DEF Iterated, Framed
  <2>2. DOMAIN scopes = 1 .. Len(scopes) /\ DOMAIN scopes' = 1 .. Len(scopes) + 1 /\ Len(scopes) \in Nat
    BY <2>1
  <2> QED
    BY <1>3, <2>2 DEF Iterated
<1>4. ASSUME NEW r, NEW ids, NEW V, Executed(r, ids, V) PROVE DOMAIN scopes \subseteq DOMAIN scopes' /\ UNCHANGED ast
  <2>1. /\ scopes' = [scopes EXCEPT ![agenda[1].scope].visited = @ \cup {agenda[1].id} \cup V] /\ UNCHANGED ast
    BY <1>4 DEF Executed
  <2> QED
    BY <2>1
<1> QED
  BY <1>1, <1>2, <1>3, <1>4

LEMMA KeptNext ==
  ASSUME FlowsAssumption, ExecutorAssumption, FlowTyped, [FlowEngine!Next]_FlowEngine!vars
  PROVE  FlowKept'
<1>1. Framed /\ FlowKept /\ FlowEngine!TypeOK
  BY FlowTypedParts DEF FlowTyped
<1>2. ItemsThere' /\ items' = items
  BY ItemsThereStep
<1>3. DOMAIN scopes \subseteq DOMAIN scopes' /\ UNCHANGED ast
  BY <1>1, FlowSteps, ScopesStay
<1>4. FlowEngine!Ids(ast)' = FlowEngine!Ids(ast)
  BY <1>3
<1>5. MaxAttempts \in Nat \ {0} /\ \A collection \in Collections : collection \subseteq Seq(Int)
  BY DEF ExecutorAssumption, FlowsAssumption
<1>6. agenda # <<>> => /\ FlowEngine!Now = agenda[1] /\ agenda[1].scope \in DOMAIN scopes
                       /\ agenda[1] \in FlowEngine!Pending
                       /\ agenda[1].do = "items" => items # {}
  <2>1. agenda # <<>> => 1 \in 1 .. Len(agenda) /\ agenda[1] \in FlowEngine!Pending /\ Head(agenda) = agenda[1]
    BY <1>1 DEF Framed
  <2> QED
    BY <1>1, <2>1, HeadSound DEF FlowEngine!Now, FlowKept, Sound
<1>7. ASSUME field' \in Int, delays' \cup jobs' \subseteq FlowEngine!Ids(ast) \X DOMAIN scopes, attempt' \in 0 .. MaxAttempts - 1
      PROVE  FlowKept'
  BY <1>1, <1>2, <1>3, <1>7 DEF FlowKept, ItemsThere
<1>8. /\ field \in Int /\ delays \cup jobs \subseteq FlowEngine!Ids(ast) \X DOMAIN scopes /\ attempt \in 0 .. MaxAttempts - 1
      /\ items \in Collections
  BY <1>1 DEF FlowKept
<1>9. ASSUME FlowEngine!Skip \/ FlowEngine!Unknown \/ FlowEngine!Condition \/ FlowEngine!Simple \/ FlowEngine!Loop
             \/ UNCHANGED FlowEngine!vars
      PROVE  FlowKept'
  BY <1>7, <1>8, <1>9 DEF FlowEngine!Skip, FlowEngine!Unknown, FlowEngine!Condition, FlowEngine!Simple, FlowEngine!Loop,
                         FlowEngine!vars
<1>10. ASSUME FlowEngine!Assign PROVE FlowKept'
  <2>1. /\ field' = FlowEngine!Node(ast, agenda[1].id).value /\ agenda[1].id \in FlowEngine!Ids(ast)
        /\ UNCHANGED <<delays, jobs, attempt>>
    BY <1>6, <1>10 DEF FlowEngine!Assign, FlowEngine!Doing, FlowEngine!Current
  <2>2. FlowEngine!Node(ast, agenda[1].id) \in FlowEngine!FlowStepNode
    BY <1>1, <2>1, NodesNamed DEF Framed
  <2>3. FlowEngine!Node(ast, agenda[1].id).value \in Nat
    BY <2>2 DEF FlowEngine!FlowStepNode
  <2> QED
    BY <1>7, <1>8, <2>1, <2>3
<1>11. ASSUME FlowEngine!Delay PROVE FlowKept'
  <2>1. /\ UNCHANGED <<field, jobs, attempt>>
        /\ delays' \subseteq delays \cup {<<agenda[1].id, agenda[1].scope>>}
        /\ agenda[1].id \in FlowEngine!Ids(ast) /\ agenda # <<>>
    BY <1>6, <1>11 DEF FlowEngine!Delay, FlowEngine!Doing
  <2> QED
    BY <1>6, <1>7, <1>8, <2>1
<1>12. ASSUME FlowEngine!Webhook PROVE FlowKept'
  <2>1. /\ UNCHANGED <<field, delays, jobs>>
        /\ attempt' = 0 \/ (attempt + 1 < MaxAttempts /\ attempt' = attempt + 1)
    BY <1>12 DEF FlowEngine!Webhook, FlowEngine!Answered
  <2>2. attempt' \in 0 .. MaxAttempts - 1
    BY <1>5, <1>8, <2>1
  <2> QED
    BY <1>7, <1>8, <2>1, <2>2
<1>13. ASSUME FlowEngine!NextItem PROVE FlowKept'
  <2>1. /\ UNCHANGED <<delays, jobs, attempt>> /\ agenda # <<>> /\ agenda[1].do = "items"
        /\ agenda[1].index <= Len(FlowEngine!Array)
        /\ field' \in {field, FlowEngine!Array[agenda[1].index]}
    BY <1>6, <1>13 DEF FlowEngine!NextItem
  <2>2. FlowEngine!Array \in items
    BY <1>6, <2>1 DEF FlowEngine!Array
  <2>3. FlowEngine!Array \in Seq(Int)
    BY <1>5, <1>8, <2>2
  <2>4. agenda[1].index \in Nat \ {0}
    BY <1>6, <2>1 DEF FlowEngine!Pending
  <2>5. FlowEngine!Array[agenda[1].index] \in Int
    BY <2>1, <2>3, <2>4
  <2> QED
    BY <1>7, <1>8, <2>1, <2>5
<1>14. ASSUME FlowEngine!Leave PROVE FlowKept'
  <2>1. /\ UNCHANGED <<delays, jobs, attempt>> /\ field' \in {field, FlowEngine!Undefined}
    BY <1>14 DEF FlowEngine!Leave
  <2> QED
    BY <1>7, <1>8, <2>1 DEF FlowEngine!Undefined
<1>15. ASSUME FlowEngine!ReadDue PROVE FlowKept'
  <2>1. UNCHANGED <<field, delays, attempt>> /\ jobs' \subseteq jobs \cup delays
    BY <1>15 DEF FlowEngine!ReadDue
  <2> QED
    BY <1>7, <1>8, <2>1
<1>16. ASSUME FlowEngine!ResumeOne PROVE FlowKept'
  <2>1. UNCHANGED <<field, attempt>> /\ jobs' \subseteq jobs /\ delays' \subseteq delays
    BY <1>16 DEF FlowEngine!ResumeOne
  <2> QED
    BY <1>7, <1>8, <2>1
<1> QED
  BY <1>9, <1>10, <1>11, <1>12, <1>13, <1>14, <1>15, <1>16 DEF FlowEngine!Next, FlowEngine!Execute

\* The results so far.
Made == {results[k] : k \in 1 .. Len(results)}

\* Pass s begins with x, or a result of the pass leads to it.
Due(s, x) == x \in FlowEngine!Roots(s) \/ \E r \in Made : r.scope = s /\ x \in FlowEngine!Branch(r)

HasRun(s, x) == \E r \in Made : r.scope = s /\ r.id = x

\* Pass s has been through the items of a loop that executes x.
InLoop(s, x) == \E l : HasRun(s, l) /\ IsLoop(l) /\ x \in FlowEngine!Range(FlowEngine!Node(ast, l).first)

\* A call of x is pending in pass s, or a loop x is under way there.
Awaits(s, x) == \E i \in 1 .. Len(agenda) : agenda[i].scope = s /\ agenda[i].id = x
UnderWay(s, x) == \E i \in 1 .. Len(agenda) : agenda[i].scope = s /\ agenda[i].id = x /\ agenda[i].do = "items"

Visited(s, x) == s \in DOMAIN scopes /\ x \in scopes[s].visited

\* A loop is under way once in a pass.
OneLoop ==
    \A i, j \in 1 .. Len(agenda) :
        agenda[i].do = "items" /\ agenda[j].do = "items" /\ agenda[i].scope = agenda[j].scope /\ agenda[i].id = agenda[j].id
            => i = j

\* What is pending is due; what is under way has no result yet.
AgendaIsDue ==
    \A s, x : (Awaits(s, x) => Due(s, x)) /\ (UnderWay(s, x) => ~ HasRun(s, x))

\* What has a result has been visited.  What was visited has a result, is a loop
\* under way, or was executed by a loop.
VisitedIsKnown ==
    \A s, x : /\ HasRun(s, x) => Visited(s, x)
              /\ Visited(s, x) => HasRun(s, x) \/ InLoop(s, x) \/ UnderWay(s, x)

\* What is due has a result, was executed by a loop, or is pending.
DueIsPending ==
    \A s, x : s \in DOMAIN scopes /\ Due(s, x) => HasRun(s, x) \/ InLoop(s, x) \/ Awaits(s, x)

\* The i-th result has a reason among those before it, and none of them is of
\* the same step in the same pass.
Before(i) == {results[k] : k \in 1 .. i - 1}
ExplainedAt(i) ==
    \A s, x : results[i].scope = s /\ results[i].id = x =>
        /\ x \in FlowEngine!Roots(s) \/ \E r \in Before(i) : r.scope = s /\ x \in FlowEngine!Branch(r)
        /\ \A r \in Before(i) : ~ (r.scope = s /\ r.id = x)

AllExplained == \A i \in 1 .. Len(results) : ExplainedAt(i)

Reasons == OneLoop /\ AgendaIsDue /\ VisitedIsKnown /\ DueIsPending /\ AllExplained

-------------------------------------------------------------------------------
(* What a step does to them *)

\* What is pending besides the head.
Rest(s, x) == \E i \in 2 .. Len(agenda) : agenda[i].scope = s /\ agenda[i].id = x
RestLoop(s, x) == \E i \in 2 .. Len(agenda) : agenda[i].scope = s /\ agenda[i].id = x /\ agenda[i].do = "items"

LEMMA HeadAndRest ==
  ASSUME Framed, agenda # <<>>, NEW s, NEW x
  PROVE  /\ Awaits(s, x) <=> Rest(s, x) \/ (s = agenda[1].scope /\ x = agenda[1].id)
         /\ UnderWay(s, x) <=>
               RestLoop(s, x) \/ (s = agenda[1].scope /\ x = agenda[1].id /\ agenda[1].do = "items")
         /\ RestLoop(s, x) => Rest(s, x)
         /\ UnderWay(s, x) => IsLoop(x) /\ Visited(s, x)
         /\ Awaits(s, x) => s \in DOMAIN scopes
         /\ OneLoop /\ agenda[1].do = "items" => ~ RestLoop(agenda[1].scope, agenda[1].id)
<1>1. agenda \in Seq(FlowEngine!Pending) /\ Len(agenda) \in Nat \ {0}
  BY DEF Framed
<1>2. 1 \in 1 .. Len(agenda) /\ 2 .. Len(agenda) \subseteq 1 .. Len(agenda)
      /\ \A i \in 1 .. Len(agenda) : i = 1 \/ i \in 2 .. Len(agenda)
  BY <1>1
<1>3. /\ Awaits(s, x) <=> Rest(s, x) \/ (s = agenda[1].scope /\ x = agenda[1].id)
      /\ RestLoop(s, x) => Rest(s, x)
  BY <1>2 DEF Awaits, Rest, RestLoop
<1>4. UnderWay(s, x) <=>
               RestLoop(s, x) \/ (s = agenda[1].scope /\ x = agenda[1].id /\ agenda[1].do = "items")
  BY <1>2 DEF UnderWay, RestLoop
<1>5. UnderWay(s, x) => IsLoop(x) /\ Visited(s, x)
  BY DEF Framed, UnderWay, Visited
<1>6. Awaits(s, x) => s \in DOMAIN scopes
  BY DEF Framed, Awaits
<1>7. OneLoop /\ agenda[1].do = "items" => ~ RestLoop(agenda[1].scope, agenda[1].id)
  BY <1>2 DEF OneLoop, RestLoop
<1> QED
  BY <1>3, <1>4, <1>5, <1>6, <1>7

LEMMA AgendaMoves ==
  ASSUME Framed, NEW new, Fresh(new)
  PROVE  /\ \A s, x : Awaits(s, x)' <=>
               Rest(s, x) \/ \E i \in 1 .. Len(new) : new[i].scope = s /\ new[i].id = x
         /\ \A s, x : UnderWay(s, x)' <=>
               RestLoop(s, x) \/ \E i \in 1 .. Len(new) : new[i].scope = s /\ new[i].id = x /\ new[i].do = "items"
         /\ OneLoop /\ (\A i \in 1 .. Len(new) : new[i].do = "items" => ~ RestLoop(agenda[1].scope, agenda[1].id)) => OneLoop'
<1>1. /\ agenda' \in Seq(FlowEngine!Pending) /\ Len(agenda') \in Nat
      /\ Len(new) \in Nat /\ Len(agenda) \in Nat \ {0}
      /\ \A i \in 1 .. Len(new) : i \in 1 .. Len(agenda') /\ agenda'[i] = new[i]
      /\ \A i \in 2 .. Len(agenda) : \E k \in 1 .. Len(agenda') : agenda'[k] = agenda[i]
      /\ \A i \in 1 .. Len(agenda') : i > Len(new) =>
            i - Len(new) + 1 \in 2 .. Len(agenda) /\ agenda'[i] = agenda[i - Len(new) + 1]
      /\ \A i \in 1 .. Len(agenda') :
            \/ \E j \in 1 .. Len(new) : agenda'[i] = new[j]
            \/ \E j \in 2 .. Len(agenda) : agenda'[i] = agenda[j]
  BY NewAgenda
<1>2. \A s, x : Awaits(s, x)' <=>
               Rest(s, x) \/ \E i \in 1 .. Len(new) : new[i].scope = s /\ new[i].id = x
  <2> SUFFICES ASSUME NEW s, NEW x
               PROVE  (\E i \in 1 .. Len(agenda') : agenda'[i].scope = s /\ agenda'[i].id = x) <=>
                          \/ \E i \in 2 .. Len(agenda) : agenda[i].scope = s /\ agenda[i].id = x
                          \/ \E i \in 1 .. Len(new) : new[i].scope = s /\ new[i].id = x
    BY DEF Awaits, Rest
  <2>1. ASSUME NEW i \in 2 .. Len(agenda), agenda[i].scope = s, agenda[i].id = x
        PROVE  \E k \in 1 .. Len(agenda') : agenda'[k].scope = s /\ agenda'[k].id = x
    <3>1. PICK k \in 1 .. Len(agenda') : agenda'[k] = agenda[i]
      BY <1>1
    <3> QED
      BY <2>1, <3>1
  <2>2. ASSUME NEW i \in 1 .. Len(new), new[i].scope = s, new[i].id = x
        PROVE  \E k \in 1 .. Len(agenda') : agenda'[k].scope = s /\ agenda'[k].id = x
    BY <1>1, <2>2
  <2>3. ASSUME NEW i \in 1 .. Len(agenda'), agenda'[i].scope = s, agenda'[i].id = x
        PROVE  \/ \E j \in 2 .. Len(agenda) : agenda[j].scope = s /\ agenda[j].id = x
               \/ \E j \in 1 .. Len(new) : new[j].scope = s /\ new[j].id = x
    <3>1. CASE \E j \in 1 .. Len(new) : agenda'[i] = new[j]
      BY <2>3, <3>1
    <3>2. CASE \E j \in 2 .. Len(agenda) : agenda'[i] = agenda[j]
      BY <2>3, <3>2
    <3> QED
      BY <1>1, <3>1, <3>2
  <2> QED
    BY <2>1, <2>2, <2>3
<1>3. \A s, x : UnderWay(s, x)' <=>
               RestLoop(s, x) \/ \E i \in 1 .. Len(new) : new[i].scope = s /\ new[i].id = x /\ new[i].do = "items"
  <2> SUFFICES ASSUME NEW s, NEW x
               PROVE  (\E i \in 1 .. Len(agenda') : agenda'[i].scope = s /\ agenda'[i].id = x /\ agenda'[i].do = "items") <=>
                          \/ \E i \in 2 .. Len(agenda) : agenda[i].scope = s /\ agenda[i].id = x /\ agenda[i].do = "items"
                          \/ \E i \in 1 .. Len(new) : new[i].scope = s /\ new[i].id = x /\ new[i].do = "items"
    BY DEF UnderWay, RestLoop
  <2>1. ASSUME NEW i \in 2 .. Len(agenda), agenda[i].scope = s, agenda[i].id = x, agenda[i].do = "items"
        PROVE  \E k \in 1 .. Len(agenda') : agenda'[k].scope = s /\ agenda'[k].id = x /\ agenda'[k].do = "items"
    <3>1. PICK k \in 1 .. Len(agenda') : agenda'[k] = agenda[i]
      BY <1>1
    <3> QED
      BY <2>1, <3>1
  <2>2. ASSUME NEW i \in 1 .. Len(new), new[i].scope = s, new[i].id = x, new[i].do = "items"
        PROVE  \E k \in 1 .. Len(agenda') : agenda'[k].scope = s /\ agenda'[k].id = x /\ agenda'[k].do = "items"
    BY <1>1, <2>2
  <2>3. ASSUME NEW i \in 1 .. Len(agenda'), agenda'[i].scope = s, agenda'[i].id = x, agenda'[i].do = "items"
        PROVE  \/ \E j \in 2 .. Len(agenda) : agenda[j].scope = s /\ agenda[j].id = x /\ agenda[j].do = "items"
               \/ \E j \in 1 .. Len(new) : new[j].scope = s /\ new[j].id = x /\ new[j].do = "items"
    <3>1. CASE \E j \in 1 .. Len(new) : agenda'[i] = new[j]
      BY <2>3, <3>1
    <3>2. CASE \E j \in 2 .. Len(agenda) : agenda'[i] = agenda[j]
      BY <2>3, <3>2
    <3> QED
      BY <1>1, <3>1, <3>2
  <2> QED
    BY <2>1, <2>2, <2>3
<1>4. ASSUME OneLoop, \A i \in 1 .. Len(new) : new[i].do = "items" => ~ RestLoop(agenda[1].scope, agenda[1].id)
      PROVE  OneLoop'
  <2> SUFFICES ASSUME NEW i \in 1 .. Len(agenda'), NEW j \in 1 .. Len(agenda'), i <= j,
                      agenda'[i].do = "items", agenda'[j].do = "items",
                      agenda'[i].scope = agenda'[j].scope, agenda'[i].id = agenda'[j].id
               PROVE  i = j
    BY <1>1 DEF OneLoop
  <2>1. \A k \in 1 .. Len(new) : new[k].do = "items" =>
            k = Len(new) /\ new[k].id = agenda[1].id /\ new[k].scope = agenda[1].scope
    BY DEF Fresh
  <2>2. CASE j <= Len(new)
    <3>1. i \in 1 .. Len(new) /\ j \in 1 .. Len(new)
      BY <1>1, <2>2
    <3> QED
      BY <1>1, <2>1, <3>1
  <2>3. CASE i > Len(new)
    <3>1. /\ i - Len(new) + 1 \in 2 .. Len(agenda) /\ agenda'[i] = agenda[i - Len(new) + 1]
          /\ j - Len(new) + 1 \in 2 .. Len(agenda) /\ agenda'[j] = agenda[j - Len(new) + 1]
      BY <1>1, <2>3
    <3>2. i - Len(new) + 1 = j - Len(new) + 1
      BY <1>1, <1>4, <3>1 DEF OneLoop
    <3> QED
      BY <1>1, <3>2
  <2>4. CASE i <= Len(new) /\ j > Len(new)
    <3>1. i \in 1 .. Len(new) /\ agenda'[i] = new[i]
      BY <1>1, <2>4
    <3>2. j - Len(new) + 1 \in 2 .. Len(agenda) /\ agenda'[j] = agenda[j - Len(new) + 1]
      BY <1>1, <2>4
    <3>3. RestLoop(agenda[1].scope, agenda[1].id)
      BY <2>1, <3>1, <3>2 DEF RestLoop
    <3> QED
      BY <1>4, <3>1, <3>3
  <2> QED
    BY <1>1, <2>2, <2>3, <2>4
<1> QED
  BY <1>2, <1>3, <1>4

\* Where there is no new result nothing more has run, and what is due in the
\* passes there were is due as before.
LEMMA SameResults ==
  ASSUME UNCHANGED <<ast, results>>
  PROVE  /\ \A s, x : HasRun(s, x)' <=> HasRun(s, x)
         /\ \A s, x : InLoop(s, x)' <=> InLoop(s, x)
         /\ \A s, x : scopes'[s].of = scopes[s].of => (Due(s, x)' <=> Due(s, x))
<1>1. Made' = Made
  BY DEF Made
<1>2. \A s, x : HasRun(s, x)' <=> HasRun(s, x)
  BY <1>1 DEF HasRun
<1>3. \A s, x : InLoop(s, x)' <=> InLoop(s, x)
  <2> HIDE DEF HasRun
  <2> QED
    BY <1>2, FlowStays DEF InLoop
<1>4. ASSUME NEW s, scopes'[s].of = scopes[s].of PROVE FlowEngine!Roots(s)' = FlowEngine!Roots(s)
  BY <1>4, FlowStays DEF FlowEngine!Roots, FlowEngine!Whole
<1>5. \A s, x : scopes'[s].of = scopes[s].of => (Due(s, x)' <=> Due(s, x))
  BY <1>1, <1>4, FlowStays DEF Due
<1> QED
  BY <1>2, <1>3, <1>5

LEMMA NewResult ==
  ASSUME Framed, UNCHANGED ast, NEW r \in Result, results' = Append(results, r)
  PROVE  /\ \A s, x : HasRun(s, x)' <=> HasRun(s, x) \/ (r.scope = s /\ r.id = x)
         /\ \A s, x : InLoop(s, x)' <=>
                InLoop(s, x) \/ (r.scope = s /\ IsLoop(r.id) /\ x \in FlowEngine!Range(FlowEngine!Node(ast, r.id).first))
         /\ \A s, x : scopes'[s].of = scopes[s].of =>
                (Due(s, x)' <=> Due(s, x) \/ (r.scope = s /\ x \in FlowEngine!Branch(r)))
<1>1. Made' = Made \cup {r}
  <2>1. results \in Seq(Result)
    BY DEF Framed
  <2>2. /\ \A k \in 1 .. Len(results) : k \in 1 .. Len(results') /\ results'[k] = results[k]
        /\ results'[Len(results) + 1] = r /\ Len(results) + 1 \in 1 .. Len(results')
        /\ \A k \in 1 .. Len(results') : k \in 1 .. Len(results) \/ k = Len(results) + 1
    BY <2>1, MoreResults
  <2>3. Made' = {results'[k] : k \in 1 .. Len(results')}
    BY DEF Made
  <2> QED
    BY <2>2, <2>3 DEF Made
<1>2. \A s, x : HasRun(s, x)' <=> HasRun(s, x) \/ (r.scope = s /\ r.id = x)
  BY <1>1 DEF HasRun
<1>3. \A s, x : InLoop(s, x)' <=>
          InLoop(s, x) \/ (r.scope = s /\ IsLoop(r.id) /\ x \in FlowEngine!Range(FlowEngine!Node(ast, r.id).first))
  <2> HIDE DEF HasRun
  <2>1. \A s, x : InLoop(s, x)' <=>
            \E l : HasRun(s, l)' /\ IsLoop(l) /\ x \in FlowEngine!Range(FlowEngine!Node(ast, l).first)
    BY FlowStays DEF InLoop
  <2> DEFINE body(l) == FlowEngine!Range(FlowEngine!Node(ast, l).first)
  <2>2. \A s, x : InLoop(s, x) <=> \E l : HasRun(s, l) /\ IsLoop(l) /\ x \in body(l)
    BY DEF InLoop
  <2> HIDE DEF body
  <2>3. \A s, x : InLoop(s, x)' <=> \E l : HasRun(s, l)' /\ IsLoop(l) /\ x \in body(l)
    BY <2>1 DEF body
  <2>4. \A s, x : InLoop(s, x)' <=> InLoop(s, x) \/ (r.scope = s /\ IsLoop(r.id) /\ x \in body(r.id))
    BY <1>2, <2>2, <2>3
  <2> QED
    BY <2>4 DEF body
<1>4. ASSUME NEW s, scopes'[s].of = scopes[s].of PROVE FlowEngine!Roots(s)' = FlowEngine!Roots(s)
  BY <1>4, FlowStays DEF FlowEngine!Roots, FlowEngine!Whole
<1>5. \A s, x : scopes'[s].of = scopes[s].of =>
                (Due(s, x)' <=> Due(s, x) \/ (r.scope = s /\ x \in FlowEngine!Branch(r)))
  BY <1>1, <1>4, FlowStays DEF Due
<1> QED
  BY <1>2, <1>3, <1>5

\* Results that were explained stay so.
LEMMA StillExplained ==
  ASSUME Framed, UNCHANGED ast, NEW i \in 1 .. Len(results), ExplainedAt(i),
         \A k \in 1 .. Len(results) : results'[k] = results[k],
         \A s \in DOMAIN scopes : scopes'[s].of = scopes[s].of
  PROVE  ExplainedAt(i)'
<1>1. Before(i)' = Before(i)
  <2>1. Len(results) \in Nat
    BY DEF Framed
  <2>2. \A k \in 1 .. i - 1 : results'[k] = results[k]
    BY <2>1
  <2> QED
    BY <2>2 DEF Before
<1>2. \A s \in DOMAIN scopes : FlowEngine!Roots(s)' = FlowEngine!Roots(s)
  BY FlowStays DEF FlowEngine!Roots, FlowEngine!Whole
<1>3. results[i].scope \in DOMAIN scopes /\ results'[i] = results[i]
  BY DEF Framed, ResultsInScopes
<1>4. \A s, x : results'[i].scope = s /\ results'[i].id = x =>
        /\ x \in FlowEngine!Roots(s)' \/ \E r \in Before(i) : r.scope = s /\ x \in FlowEngine!Branch(r)
        /\ \A r \in Before(i) : ~ (r.scope = s /\ r.id = x)
  BY <1>2, <1>3 DEF ExplainedAt
<1> QED
  BY <1>1, <1>4, FlowStays DEF ExplainedAt

LEMMA SameExplained ==
  ASSUME Framed, AllExplained, UNCHANGED <<ast, results>>, \A s \in DOMAIN scopes : scopes'[s].of = scopes[s].of
  PROVE  AllExplained'
<1> SUFFICES ASSUME NEW i \in 1 .. Len(results) PROVE ExplainedAt(i)'
  BY DEF AllExplained
<1> QED
  BY StillExplained DEF AllExplained

LEMMA ReasonsStill == ASSUME Framed, Reasons, Still PROVE Reasons'
<1>1. UNCHANGED <<ast, agenda, scopes, results>>
  BY DEF Still
<1>2. /\ \A s, x : (HasRun(s, x)' <=> HasRun(s, x)) /\ (InLoop(s, x)' <=> InLoop(s, x)) /\ (Due(s, x)' <=> Due(s, x))
  BY <1>1, SameResults
<1>3. /\ \A s, x : (Awaits(s, x)' <=> Awaits(s, x)) /\ (UnderWay(s, x)' <=> UnderWay(s, x)) /\ (Visited(s, x)' <=> Visited(s, x))
  BY <1>1 DEF Awaits, UnderWay, Visited
<1>4. AllExplained' /\ OneLoop'
  BY <1>1, SameExplained DEF Reasons, OneLoop
<1>5. DOMAIN scopes' = DOMAIN scopes
  BY <1>1
<1> QED
  BY <1>2, <1>3, <1>4, <1>5 DEF Reasons, AgendaIsDue, VisitedIsKnown, DueIsPending

LEMMA ReasonsSkipped == ASSUME Framed, Reasons, Skipped PROVE Reasons'
<1> DEFINE new == <<>>
           s0 == agenda[1].scope
           x0 == agenda[1].id
<1>1. /\ UNCHANGED <<ast, scopes, results>> /\ agenda # <<>>
      /\ agenda[1].do = "step"
  BY DEF Skipped
<1>2. Fresh(new) /\ Len(new) = 0
  BY FreshSkipped
<1> HIDE DEF new
<1>3. /\ \A s, x : (HasRun(s, x)' <=> HasRun(s, x)) /\ (InLoop(s, x)' <=> InLoop(s, x)) /\ (Due(s, x)' <=> Due(s, x))
  BY <1>1, SameResults
<1>4. \A i \in 1 .. Len(new) : FALSE
  BY <1>2
<1>5. OneLoop' /\ \A s, x : (Awaits(s, x)' <=> Rest(s, x)) /\ (UnderWay(s, x)' <=> RestLoop(s, x))
  BY <1>2, <1>4, AgendaMoves DEF Reasons
<1>6. /\ Visited(s0, x0)
      /\ \A s, x : Visited(s, x)' <=> Visited(s, x)
  BY <1>1, HeadSound DEF Visited, Skipped, Sound
<1>7. \A s, x : /\ Awaits(s, x) <=> Rest(s, x) \/ (s = s0 /\ x = x0)
                /\ UnderWay(s, x) <=> RestLoop(s, x)
                /\ RestLoop(s, x) => Rest(s, x)
  BY <1>1, HeadAndRest
<1>8. AllExplained' /\ DOMAIN scopes' = DOMAIN scopes
  BY <1>1, SameExplained DEF Reasons
<1> HIDE DEF s0, x0
<1>9. AgendaIsDue /\ VisitedIsKnown /\ DueIsPending
  BY DEF Reasons
<1>10. AgendaIsDue'
  BY <1>3, <1>5, <1>7, <1>9 DEF AgendaIsDue
<1>11. VisitedIsKnown'
  BY <1>3, <1>5, <1>6, <1>7, <1>9 DEF VisitedIsKnown
<1>12. DueIsPending'
  BY <1>3, <1>5, <1>6, <1>7, <1>8, <1>9 DEF DueIsPending, VisitedIsKnown
<1> QED
  BY <1>5, <1>8, <1>10, <1>11, <1>12 DEF Reasons

LEMMA ReasonsBegun == ASSUME Framed, Reasons, Begun PROVE Reasons'
<1> DEFINE new == <<FlowEngine!Items(agenda[1].id, agenda[1].scope, 1)>>
           s0 == agenda[1].scope
           x0 == agenda[1].id
<1>1. /\ UNCHANGED <<ast, results>> /\ agenda # <<>> /\ agenda[1].do = "step" /\ x0 \notin scopes[s0].visited
      /\ scopes' = [scopes EXCEPT ![s0].visited = @ \cup {x0}] /\ {x0} \subseteq FlowEngine!Named(ast)
  BY HeadSound DEF Begun, Sound
<1>2. /\ Fresh(new) /\ Len(new) = 1
      /\ new[1].do = "items" /\ new[1].id = x0 /\ new[1].scope = s0
  BY FreshBegun
<1> HIDE DEF new
<1>3. /\ s0 \in 1 .. Len(scopes) /\ DOMAIN scopes = 1 .. Len(scopes) /\ DOMAIN scopes' = 1 .. Len(scopes)
      /\ \A t \in 1 .. Len(scopes) :
            /\ scopes'[t].of = scopes[t].of
            /\ scopes'[t].visited = IF t = s0 THEN scopes[t].visited \cup {x0} ELSE scopes[t].visited
  <2> DEFINE V == {x0}
  <2>1. V \subseteq FlowEngine!Named(ast) /\ scopes' = [scopes EXCEPT ![agenda[1].scope].visited = @ \cup V]
    BY <1>1
  <2> HIDE DEF V
  <2>2. /\ s0 \in 1 .. Len(scopes) /\ DOMAIN scopes = 1 .. Len(scopes) /\ DOMAIN scopes' = 1 .. Len(scopes)
        /\ \A t \in 1 .. Len(scopes) :
              /\ scopes'[t].of = scopes[t].of
              /\ scopes'[t].visited = IF t = s0 THEN scopes[t].visited \cup V ELSE scopes[t].visited
    BY <1>1, <2>1, MoreVisited
  <2> QED
    BY <2>2 DEF V
<1>4. \A s, x : HasRun(s, x)' <=> HasRun(s, x)
  BY <1>1, SameResults
<1>5. \A s, x : InLoop(s, x)' <=> InLoop(s, x)
  BY <1>1, SameResults
<1>6. \A s \in DOMAIN scopes : \A x : Due(s, x)' <=> Due(s, x)
  BY <1>1, <1>3, SameResults
<1>7. \A i \in 1 .. Len(new) : i = 1
  BY <1>2
<1>8. 1 \in 1 .. Len(new)
  BY <1>2
<1>9. \A s, x : /\ Awaits(s, x) <=> Rest(s, x) \/ (s = s0 /\ x = x0)
                /\ UnderWay(s, x) <=> RestLoop(s, x)
                /\ UnderWay(s, x) => Visited(s, x)
                /\ Awaits(s, x) => s \in DOMAIN scopes
  BY <1>1, HeadAndRest
<1>10. ~ Visited(s0, x0)
  BY <1>1 DEF Visited
<1>11. /\ OneLoop'
       /\ \A s, x : /\ Awaits(s, x)' <=> Awaits(s, x)
                    /\ UnderWay(s, x)' <=> UnderWay(s, x) \/ (s = s0 /\ x = x0)
  <2>1. /\ \A s, x : Awaits(s, x)' <=>
               Rest(s, x) \/ \E i \in 1 .. Len(new) : new[i].scope = s /\ new[i].id = x
        /\ \A s, x : UnderWay(s, x)' <=>
               RestLoop(s, x) \/ \E i \in 1 .. Len(new) : new[i].scope = s /\ new[i].id = x /\ new[i].do = "items"
    BY <1>2, AgendaMoves
  <2>2. ~ RestLoop(s0, x0)
    BY <1>9, <1>10
  <2>3. OneLoop'
    BY <1>2, <2>2, AgendaMoves DEF Reasons
  <2>4. \A s, x : (\E i \in 1 .. Len(new) : new[i].scope = s /\ new[i].id = x) <=> (s = s0 /\ x = x0)
    BY <1>2, <1>7, <1>8
  <2>5. \A s, x : (\E i \in 1 .. Len(new) : new[i].scope = s /\ new[i].id = x /\ new[i].do = "items") <=> (s = s0 /\ x = x0)
    BY <1>2, <1>7, <1>8
  <2> QED
    BY <1>9, <2>1, <2>3, <2>4, <2>5
<1>12. \A s, x : Visited(s, x)' <=> Visited(s, x) \/ (s = s0 /\ x = x0)
  <2> SUFFICES ASSUME NEW s, NEW x
               PROVE  s \in DOMAIN scopes' /\ x \in scopes'[s].visited <=>
                          (s \in DOMAIN scopes /\ x \in scopes[s].visited) \/ (s = s0 /\ x = x0)
    BY DEF Visited
  <2>1. CASE s = s0
    BY <1>3, <2>1
  <2>2. CASE s # s0
    BY <1>3, <2>2
  <2> QED
    BY <2>1, <2>2
<1>13. AllExplained' /\ DOMAIN scopes' = DOMAIN scopes
  BY <1>1, <1>3, SameExplained DEF Reasons
<1>14. AgendaIsDue /\ VisitedIsKnown /\ DueIsPending
  BY DEF Reasons
<1> HIDE DEF s0, x0
<1>15. AgendaIsDue'
  BY <1>4, <1>6, <1>9, <1>10, <1>11, <1>14 DEF AgendaIsDue, VisitedIsKnown
<1>16. VisitedIsKnown'
  BY <1>4, <1>5, <1>11, <1>12, <1>14 DEF VisitedIsKnown
<1>17. DueIsPending'
  BY <1>4, <1>5, <1>6, <1>11, <1>13, <1>14 DEF DueIsPending
<1> QED
  BY <1>11, <1>13, <1>15, <1>16, <1>17 DEF Reasons

LEMMA ReasonsIterated == ASSUME Framed, Reasons, Iterated PROVE Reasons'
<1> DEFINE first == FlowEngine!Node(ast, agenda[1].id).first
           new == FlowEngine!Calls(first, Len(scopes) + 1)
                      \o <<FlowEngine!Items(agenda[1].id, agenda[1].scope, agenda[1].index + 1)>>
<1>0. PICK s0, x0, n, body : /\ s0 = agenda[1].scope /\ x0 = agenda[1].id /\ n = Len(scopes) + 1
                             /\ body = FlowEngine!Range(first)
  OBVIOUS
<1>1. /\ UNCHANGED <<ast, results>> /\ agenda # <<>> /\ agenda[1].do = "items"
      /\ scopes' = Append(scopes, [of |-> x0, visited |-> {}])
  BY <1>0 DEF Iterated
<1>2. /\ Fresh(new) /\ first \in Seq(Nat)
      /\ Len(new) = Len(first) + 1
      /\ \A i \in 1 .. Len(first) : new[i].do = "step" /\ new[i].scope = n /\ new[i].id = first[i]
      /\ new[Len(first) + 1].do = "items"
      /\ new[Len(first) + 1].id = x0 /\ new[Len(first) + 1].scope = s0
  BY <1>0, FreshIterated
<1>3. body = {first[i] : i \in 1 .. Len(first)} /\ Len(first) \in Nat
  <2>1. first \in Seq(Nat)
    BY <1>2
  <2> HIDE DEF first
  <2>2. DOMAIN first = 1 .. Len(first) /\ Len(first) \in Nat
    BY <2>1
  <2> QED
    BY <1>0, <2>2 DEF FlowEngine!Range
<1>4. /\ Len(scopes) \in Nat /\ DOMAIN scopes = 1 .. Len(scopes) /\ DOMAIN scopes' = DOMAIN scopes \cup {n}
      /\ n \notin DOMAIN scopes
      /\ \A t \in DOMAIN scopes : scopes'[t] = scopes[t]
      /\ scopes'[n] = [of |-> x0, visited |-> {}]
  <2>1. scopes \in Seq(ScopeOf)
    BY DEF Framed
  <2>2. /\ Len(scopes) \in Nat /\ DOMAIN scopes = 1 .. Len(scopes) /\ DOMAIN scopes' = 1 .. Len(scopes) + 1
        /\ \A t \in 1 .. Len(scopes) : scopes'[t] = scopes[t]
        /\ scopes'[Len(scopes) + 1] = [of |-> x0, visited |-> {}]
    BY <1>1, <2>1
  <2> QED
    BY <1>0, <2>2
<1>5. s0 \in DOMAIN scopes /\ IsLoop(x0)
  BY <1>0, <1>1, HeadSound DEF Sound
<1>6. \A s, x : HasRun(s, x)' <=> HasRun(s, x)
  BY <1>1, SameResults
<1>7. \A s, x : InLoop(s, x)' <=> InLoop(s, x)
  BY <1>1, SameResults
<1>8. \A s \in DOMAIN scopes : \A x : Due(s, x)' <=> Due(s, x)
  BY <1>1, <1>4, SameResults
<1>9. \A r \in Made : r.scope \in DOMAIN scopes
  BY DEF Framed, ResultsInScopes, Made
<1>10. \A x : Due(n, x)' <=> x \in body
  <2>1. x0 # FlowEngine!Whole
    <3>1. x0 \in FlowEngine!Ids(ast) /\ ast \in Seq(FlowEngine!FlowStepNode)
      BY <1>5 DEF IsLoop, Framed
    <3>2. FlowEngine!Node(ast, x0) \in FlowEngine!FlowStepNode /\ FlowEngine!Node(ast, x0).id = x0
      BY <3>1, NodesNamed
    <3> QED
      BY <3>2 DEF FlowEngine!FlowStepNode
  <2>2. scopes'[n].of = x0
    BY <1>4
  <2>3. FlowEngine!Node(ast, x0)' = FlowEngine!Node(ast, x0)
    BY <1>1
  <2>4. FlowEngine!Roots(n)' = body
    BY <1>0, <2>1, <2>2, <2>3 DEF FlowEngine!Roots, FlowEngine!Whole
  <2>5. Made' = Made
    BY <1>1 DEF Made
  <2>6. \A r \in Made : r.scope # n
    BY <1>4, <1>9
  <2> QED
    BY <2>4, <2>5, <2>6 DEF Due
<1>11. \A x : ~ HasRun(n, x)
  BY <1>4, <1>9 DEF HasRun
<1> HIDE DEF new, first
<1>12. \A s, x : /\ Awaits(s, x) <=> Rest(s, x) \/ (s = s0 /\ x = x0)
                 /\ UnderWay(s, x) <=> RestLoop(s, x) \/ (s = s0 /\ x = x0)
                 /\ UnderWay(s, x) => Visited(s, x)
                 /\ Awaits(s, x) => s \in DOMAIN scopes
  BY <1>0, <1>1, HeadAndRest
<1>13. ~ RestLoop(s0, x0)
  BY <1>0, <1>1, HeadAndRest DEF Reasons
<1>14. \A i \in 1 .. Len(new) : i \in 1 .. Len(first) \/ i = Len(first) + 1
  BY <1>2, <1>3
<1>15. /\ OneLoop'
       /\ \A s, x : /\ Awaits(s, x)' <=> Awaits(s, x) \/ (s = n /\ x \in body)
                    /\ UnderWay(s, x)' <=> UnderWay(s, x)
  <2>1. /\ \A s, x : Awaits(s, x)' <=>
               Rest(s, x) \/ \E i \in 1 .. Len(new) : new[i].scope = s /\ new[i].id = x
        /\ \A s, x : UnderWay(s, x)' <=>
               RestLoop(s, x) \/ \E i \in 1 .. Len(new) : new[i].scope = s /\ new[i].id = x /\ new[i].do = "items"
    BY <1>2, AgendaMoves
  <2>2. OneLoop'
    BY <1>0, <1>2, <1>13, AgendaMoves DEF Reasons
  <2>3. 1 .. Len(first) \subseteq 1 .. Len(new) /\ Len(first) + 1 \in 1 .. Len(new)
    BY <1>2, <1>3
  <2>4. ASSUME NEW s, NEW x
        PROVE  (\E i \in 1 .. Len(new) : new[i].scope = s /\ new[i].id = x) <=> (s = s0 /\ x = x0) \/ (s = n /\ x \in body)
    <3>1. ASSUME NEW i \in 1 .. Len(new), new[i].scope = s, new[i].id = x
          PROVE  (s = s0 /\ x = x0) \/ (s = n /\ x \in body)
      BY <1>2, <1>3, <1>14, <3>1
    <3>2. ASSUME s = n, x \in body
          PROVE  \E i \in 1 .. Len(new) : new[i].scope = s /\ new[i].id = x
      <4>1. PICK i \in 1 .. Len(first) : first[i] = x
        BY <1>3, <3>2
      <4>2. i \in 1 .. Len(new) /\ new[i].scope = s /\ new[i].id = x
        BY <1>2, <2>3, <3>2, <4>1
      <4> QED
        BY <4>2
    <3>3. ASSUME s = s0, x = x0
          PROVE  \E i \in 1 .. Len(new) : new[i].scope = s /\ new[i].id = x
      BY <1>2, <2>3, <3>3
    <3> QED
      BY <3>1, <3>2, <3>3
  <2>5. ASSUME NEW s, NEW x
        PROVE  (\E i \in 1 .. Len(new) : new[i].scope = s /\ new[i].id = x /\ new[i].do = "items") <=> (s = s0 /\ x = x0)
    <3>1. ASSUME NEW i \in 1 .. Len(new), new[i].scope = s, new[i].id = x, new[i].do = "items"
          PROVE  s = s0 /\ x = x0
      BY <1>2, <1>14, <3>1
    <3>2. ASSUME s = s0, x = x0
          PROVE  \E i \in 1 .. Len(new) : new[i].scope = s /\ new[i].id = x /\ new[i].do = "items"
      BY <1>2, <2>3, <3>2
    <3> QED
      BY <3>1, <3>2
  <2>6. \A s, x : Awaits(s, x)' <=> Awaits(s, x) \/ (s = n /\ x \in body)
    <3> SUFFICES ASSUME NEW s, NEW x PROVE Awaits(s, x)' <=> Awaits(s, x) \/ (s = n /\ x \in body)
      OBVIOUS
    <3>1. Awaits(s, x)' <=> Rest(s, x) \/ (s = s0 /\ x = x0) \/ (s = n /\ x \in body)
      BY <2>1, <2>4
    <3>2. Awaits(s, x) <=> Rest(s, x) \/ (s = s0 /\ x = x0)
      BY <1>12
    <3> QED
      BY <3>1, <3>2
  <2>7. \A s, x : UnderWay(s, x)' <=> UnderWay(s, x)
    BY <1>12, <2>1, <2>5
  <2> QED
    BY <2>2, <2>6, <2>7
<1>16. \A s, x : Visited(s, x)' <=> Visited(s, x)
  <2>1. scopes'[n].visited = {}
    BY <1>4
  <2> QED
    BY <1>4, <2>1 DEF Visited
<1>17. AllExplained'
  BY <1>1, <1>4, SameExplained DEF Reasons
<1>18. AgendaIsDue /\ VisitedIsKnown /\ DueIsPending
  BY DEF Reasons
<1>19. AgendaIsDue'
  <2>1. \A s, x : Awaits(s, x) => Due(s, x)'
    BY <1>8, <1>12, <1>18 DEF AgendaIsDue
  <2>2. \A s, x : UnderWay(s, x) => ~ HasRun(s, x)
    BY <1>18 DEF AgendaIsDue
  <2> QED
    BY <1>6, <1>10, <1>15, <2>1, <2>2 DEF AgendaIsDue
<1>20. VisitedIsKnown'
  BY <1>6, <1>7, <1>15, <1>16, <1>18 DEF VisitedIsKnown
<1>21. DueIsPending'
  <2>1. \A x : Due(n, x)' => Awaits(n, x)'
    BY <1>10, <1>15
  <2>2. \A s \in DOMAIN scopes : \A x : Due(s, x)' => HasRun(s, x)' \/ InLoop(s, x)' \/ Awaits(s, x)'
    BY <1>6, <1>7, <1>8, <1>15, <1>18 DEF DueIsPending
  <2> QED
    BY <1>4, <2>1, <2>2 DEF DueIsPending
<1> QED
  BY <1>15, <1>17, <1>19, <1>20, <1>21 DEF Reasons

LEMMA ReasonsExecuted == ASSUME Framed, Reasons, NEW r, NEW ids, NEW V, Executed(r, ids, V) PROVE Reasons'
<1> DEFINE new == FlowEngine!Calls(ids, agenda[1].scope)
           W == {agenda[1].id} \cup V
<1>0. PICK s0, x0, m : s0 = agenda[1].scope /\ x0 = agenda[1].id /\ m = Len(results) + 1
  OBVIOUS
<1>1. /\ agenda # <<>> /\ UNCHANGED ast /\ V \subseteq FlowEngine!Named(ast)
      /\ r \in Result /\ r.scope = s0 /\ r.id = x0 /\ results' = Append(results, r)
      /\ FlowEngine!Range(ids) = FlowEngine!Branch(r)
      /\ agenda[1].do = "step" => x0 \notin scopes[s0].visited
      /\ \A x \in V : IsLoop(x0) /\ x \in FlowEngine!Range(FlowEngine!Node(ast, x0).first)
  BY <1>0 DEF Executed
<1>2. Sound(agenda[1], scopes)
  BY <1>1, HeadSound
<1>3. W \subseteq FlowEngine!Named(ast) /\ scopes' = [scopes EXCEPT ![agenda[1].scope].visited = @ \cup W]
  <2>1. scopes' = [scopes EXCEPT ![agenda[1].scope].visited = @ \cup W]
    BY DEF Executed
  <2> QED
    BY <1>1, <1>2, <2>1 DEF Sound
<1>4. \A x : x \in W <=> x = x0 \/ x \in V
  BY <1>0
<1> HIDE DEF W
<1>5. /\ s0 \in 1 .. Len(scopes) /\ DOMAIN scopes = 1 .. Len(scopes) /\ DOMAIN scopes' = 1 .. Len(scopes)
      /\ \A t \in 1 .. Len(scopes) :
            /\ scopes'[t].of = scopes[t].of
            /\ scopes'[t].visited = IF t = s0 THEN scopes[t].visited \cup W ELSE scopes[t].visited
  <2>1. /\ agenda[1].scope \in 1 .. Len(scopes) /\ DOMAIN scopes = 1 .. Len(scopes) /\ DOMAIN scopes' = 1 .. Len(scopes)
        /\ \A t \in 1 .. Len(scopes) :
              /\ scopes'[t].of = scopes[t].of
              /\ scopes'[t].visited = IF t = agenda[1].scope THEN scopes[t].visited \cup W ELSE scopes[t].visited
    BY <1>1, <1>3, MoreVisited
  <2> QED
    BY <1>0, <2>1
<1>6. /\ Fresh(new)
      /\ \A i \in 1 .. Len(new) : new[i].do = "step" /\ new[i].scope = s0 /\ new[i].id \in FlowEngine!Range(ids)
      /\ \A x \in FlowEngine!Range(ids) : \E i \in 1 .. Len(new) : new[i].id = x
  BY <1>0, FreshExecuted
<1> HIDE DEF new
<1>7. \A s, x : HasRun(s, x)' <=> HasRun(s, x) \/ (s = s0 /\ x = x0)
  BY <1>1, NewResult
<1>8. /\ \A s, x : InLoop(s, x) => InLoop(s, x)'
      /\ \A x \in V : InLoop(s0, x)'
  <2>1. \A s, x : InLoop(s, x)' <=>
           InLoop(s, x) \/ (r.scope = s /\ IsLoop(r.id) /\ x \in FlowEngine!Range(FlowEngine!Node(ast, r.id).first))
    BY <1>1, NewResult
  <2> QED
    BY <1>1, <2>1
<1>9. \A s \in DOMAIN scopes : \A x : Due(s, x)' <=> Due(s, x) \/ (s = s0 /\ x \in FlowEngine!Branch(r))
  BY <1>1, <1>5, NewResult
<1>10. \A s, x : /\ Awaits(s, x) <=> Rest(s, x) \/ (s = s0 /\ x = x0)
                 /\ UnderWay(s, x) <=> RestLoop(s, x) \/ (s = s0 /\ x = x0 /\ agenda[1].do = "items")
                 /\ RestLoop(s, x) => Rest(s, x)
                 /\ UnderWay(s, x) => Visited(s, x)
                 /\ Awaits(s, x) => s \in DOMAIN scopes
  BY <1>0, <1>1, HeadAndRest
<1>11. AgendaIsDue /\ VisitedIsKnown /\ DueIsPending
  BY DEF Reasons
\* The head has not run, and is not among the loops under way besides it.
<1>12. ~ HasRun(s0, x0) /\ ~ RestLoop(s0, x0)
  <2>1. agenda[1].do = "step" \/ agenda[1].do = "items"
    <3>1. 1 \in 1 .. Len(agenda) /\ agenda[1] \in FlowEngine!Pending
      BY <1>1 DEF Framed
    <3> QED
      BY <3>1 DEF FlowEngine!Pending
  <2>2. CASE agenda[1].do = "step"
    <3>1. ~ Visited(s0, x0)
      BY <1>1, <2>2 DEF Visited
    <3> QED
      BY <1>10, <1>11, <3>1 DEF VisitedIsKnown
  <2>3. CASE agenda[1].do = "items"
    <3>1. UnderWay(s0, x0)
      BY <1>10, <2>3
    <3>2. ~ RestLoop(s0, x0)
      BY <1>0, <1>1, <2>3, HeadAndRest DEF Reasons
    <3> QED
      BY <1>11, <3>1, <3>2 DEF AgendaIsDue
  <2> QED
    BY <2>1, <2>2, <2>3
<1>13. /\ OneLoop'
       /\ \A s, x : /\ Awaits(s, x)' <=> Rest(s, x) \/ (s = s0 /\ x \in FlowEngine!Branch(r))
                    /\ UnderWay(s, x)' <=> RestLoop(s, x)
  <2>1. /\ \A s, x : Awaits(s, x)' <=>
               Rest(s, x) \/ \E i \in 1 .. Len(new) : new[i].scope = s /\ new[i].id = x
        /\ \A s, x : UnderWay(s, x)' <=>
               RestLoop(s, x) \/ \E i \in 1 .. Len(new) : new[i].scope = s /\ new[i].id = x /\ new[i].do = "items"
    BY <1>6, AgendaMoves
  <2>2. OneLoop'
    BY <1>0, <1>6, <1>12, AgendaMoves DEF Reasons
  <2>3. \A s, x : (\E i \in 1 .. Len(new) : new[i].scope = s /\ new[i].id = x) <=> (s = s0 /\ x \in FlowEngine!Branch(r))
    BY <1>1, <1>6
  <2>4. \A i \in 1 .. Len(new) : new[i].do # "items"
    BY <1>6
  <2>5. \A s, x : Awaits(s, x)' <=> Rest(s, x) \/ (s = s0 /\ x \in FlowEngine!Branch(r))
    BY <2>1, <2>3
  <2>6. \A s, x : UnderWay(s, x)' <=> RestLoop(s, x)
    BY <2>1, <2>4
  <2> QED
    BY <2>2, <2>5, <2>6
<1>14. \A s, x : Visited(s, x)' <=> Visited(s, x) \/ (s = s0 /\ x \in W)
  <2> SUFFICES ASSUME NEW s, NEW x
               PROVE  s \in DOMAIN scopes' /\ x \in scopes'[s].visited <=>
                          (s \in DOMAIN scopes /\ x \in scopes[s].visited) \/ (s = s0 /\ x \in W)
    BY DEF Visited
  <2>1. CASE s = s0
    BY <1>5, <2>1
  <2>2. CASE s # s0
    BY <1>5, <2>2
  <2> QED
    BY <2>1, <2>2
<1>15. AllExplained'
  <2>1. results \in Seq(Result)
    BY DEF Framed
  <2>2. /\ Len(results) \in Nat
        /\ \A k \in 1 .. Len(results) : results'[k] = results[k]
        /\ results'[m] = r
        /\ \A k \in 1 .. Len(results') : k \in 1 .. Len(results) \/ k = m
    BY <1>0, <1>1, <2>1, MoreResults
  <2>3. ASSUME NEW i \in 1 .. Len(results) PROVE ExplainedAt(i)'
    <3>1. ExplainedAt(i)
      BY DEF Reasons, AllExplained
    <3> QED
      BY <1>1, <1>5, <2>2, <3>1, StillExplained
  <2>4. ExplainedAt(m)'
    <3>1. Before(m)' = Made
      <4>1. m - 1 = Len(results)
        BY <1>0, <2>2
      <4>2. Before(m)' = {results'[k] : k \in 1 .. m - 1}
        BY DEF Before
      <4> QED
        BY <2>2, <4>1, <4>2 DEF Made
    <3>2. FlowEngine!Roots(s0)' = FlowEngine!Roots(s0)
      BY <1>1, <1>5, FlowStays DEF FlowEngine!Roots, FlowEngine!Whole
    <3>3. Due(s0, x0)
      BY <1>10, <1>11 DEF AgendaIsDue
    <3>4. /\ x0 \in FlowEngine!Roots(s0) \/ \E q \in Made : q.scope = s0 /\ x0 \in FlowEngine!Branch(q)
          /\ \A q \in Made : ~ (q.scope = s0 /\ q.id = x0)
      BY <1>12, <3>3 DEF Due, HasRun
    <3>5. \A s, x : r.scope = s /\ r.id = x => s = s0 /\ x = x0
      BY <1>1
    <3>6. \A q : FlowEngine!Branch(q)' = FlowEngine!Branch(q)
      BY <1>1, FlowStays
    <3> QED
      BY <2>2, <3>1, <3>2, <3>4, <3>5, <3>6 DEF ExplainedAt
  <2> QED
    BY <2>2, <2>3, <2>4 DEF AllExplained
<1>16. DOMAIN scopes' = DOMAIN scopes /\ s0 \in DOMAIN scopes
  BY <1>5
<1>17. AgendaIsDue'
  <2>1. \A s, x : Awaits(s, x) => Due(s, x)'
    BY <1>9, <1>10, <1>11 DEF AgendaIsDue
  <2>2. \A x \in FlowEngine!Branch(r) : Due(s0, x)'
    BY <1>9, <1>16
  <2>3. \A s, x : UnderWay(s, x) => ~ HasRun(s, x)
    BY <1>11 DEF AgendaIsDue
  <2> QED
    BY <1>7, <1>10, <1>12, <1>13, <2>1, <2>2, <2>3 DEF AgendaIsDue
<1>18. VisitedIsKnown'
  <2>1. \A s, x : HasRun(s, x)' => Visited(s, x)'
    BY <1>4, <1>7, <1>11, <1>14 DEF VisitedIsKnown
  <2>2. \A s, x : Visited(s, x) => HasRun(s, x)' \/ InLoop(s, x)' \/ UnderWay(s, x)'
    BY <1>7, <1>8, <1>10, <1>11, <1>13 DEF VisitedIsKnown
  <2> QED
    BY <1>4, <1>7, <1>8, <1>14, <2>1, <2>2 DEF VisitedIsKnown
<1>19. DueIsPending'
  <2>1. \A s \in DOMAIN scopes : \A x : Due(s, x) => HasRun(s, x)' \/ InLoop(s, x)' \/ Awaits(s, x)'
    BY <1>7, <1>8, <1>10, <1>11, <1>13 DEF DueIsPending
  <2> QED
    BY <1>9, <1>13, <1>16, <2>1 DEF DueIsPending
<1> QED
  BY <1>13, <1>15, <1>17, <1>18, <1>19 DEF Reasons

FlowInv == Framed /\ FlowKept /\ Reasons

\* The steps that a flow begins with are steps of it.
LEMMA EntriesNamed ==
  ASSUME ast \in Seq(FlowEngine!FlowStepNode)
  PROVE  /\ FlowEngine!EntrySteps(ast) \in Seq(Nat)
         /\ FlowEngine!Range(FlowEngine!EntrySteps(ast)) \subseteq FlowEngine!Named(ast)
<1> DEFINE S == {node \in FlowEngine!Nodes(ast) : node.id \notin FlowEngine!Incoming(ast)}
           entries == Among(ast, S)
<1>1. FlowEngine!Among(ast, S) = entries
  BY DEF Among, FlowEngine!Among, Nth, FlowEngine!Nth, Cardinality, FlowEngine!Cardinality
<1>2. entries \in Seq(FlowEngine!FlowStepNode) /\ Range(entries) = Range(ast) \cap S
  BY AmongThem
<1>3. FlowEngine!EntrySteps(ast) = [i \in DOMAIN entries |-> entries[i].id]
  BY <1>1 DEF FlowEngine!EntrySteps
<1>4. \A i \in 1 .. Len(ast) : ast[i].id \in Nat /\ ast[i].id \in FlowEngine!Named(ast)
  <2>1. \A i \in 1 .. Len(ast) : ast[i] \in FlowEngine!FlowStepNode /\ ast[i] \in FlowEngine!Nodes(ast)
    BY DEF FlowEngine!Nodes, FlowEngine!Range
  <2>2. \A i \in 1 .. Len(ast) : ast[i].id \in FlowEngine!Ids(ast)
    BY <2>1 DEF FlowEngine!Ids
  <2> QED
    BY <2>1, <2>2 DEF FlowEngine!FlowStepNode, FlowEngine!Named
<1> HIDE DEF entries, S
<1>5. DOMAIN entries = 1 .. Len(entries) /\ Len(entries) \in Nat /\ DOMAIN ast = 1 .. Len(ast)
  BY <1>2
<1>6. ASSUME NEW i \in 1 .. Len(entries) PROVE entries[i].id \in Nat /\ entries[i].id \in FlowEngine!Named(ast)
  <2>1. entries[i] \in Range(ast)
    BY <1>2, <1>5 DEF Range
  <2>2. PICK j \in 1 .. Len(ast) : ast[j] = entries[i]
    BY <1>5, <2>1 DEF Range
  <2> QED
    BY <1>4, <2>2
<1> DEFINE ids == [i \in 1 .. Len(entries) |-> entries[i].id]
<1>7. FlowEngine!EntrySteps(ast) = ids
  BY <1>3, <1>5
<1>8. ids \in [1 .. Len(entries) -> Nat]
  BY <1>6
<1>9. \A i \in 1 .. Len(entries) : ids[i] \in FlowEngine!Named(ast)
  BY <1>6
<1>10. DOMAIN ids = 1 .. Len(entries)
  OBVIOUS
<1> HIDE DEF ids
<1>11. ids \in Seq(Nat)
  BY <1>5, <1>8
<1> QED
  BY <1>7, <1>9, <1>10, <1>11 DEF FlowEngine!Range

LEMMA FlowInit ==
  ASSUME FlowsAssumption, ExecutorAssumption, FlowEngine!Init
  PROVE  FlowInv
<1> DEFINE ids == FlowEngine!EntrySteps(ast)
<1>1. /\ ast \in Flows /\ agenda = FlowEngine!Calls(ids, 1)
      /\ scopes = <<[of |-> FlowEngine!Whole, visited |-> {}]>>
      /\ results = <<>> /\ field \in Values /\ items \in Collections /\ delays = {} /\ jobs = {} /\ attempt = 0
  BY DEF FlowEngine!Init
<1>2. ast \in Seq(FlowEngine!FlowStepNode) /\ field \in Int /\ MaxAttempts \in Nat \ {0}
  BY <1>1 DEF FlowsAssumption, ExecutorAssumption
<1>3. ids \in Seq(Nat) /\ FlowEngine!Range(ids) \subseteq FlowEngine!Named(ast)
  BY <1>2, EntriesNamed
<1>4. /\ agenda \in Seq(FlowEngine!Pending) /\ Len(agenda) = Len(ids)
      /\ \A i \in 1 .. Len(ids) : agenda[i] = [do |-> "step", id |-> ids[i], scope |-> 1]
  BY <1>1, <1>3, CallsOf
<1>5. FlowEngine!Range(ids) = {ids[i] : i \in 1 .. Len(ids)}
  <2> HIDE DEF ids
  <2>1. DOMAIN ids = 1 .. Len(ids)
    BY <1>3
  <2> QED
    BY <2>1 DEF FlowEngine!Range
<1> HIDE DEF ids
<1>6. ASSUME NEW i \in 1 .. Len(agenda)
      PROVE  agenda[i].do = "step" /\ agenda[i].id = ids[i] /\ agenda[i].scope = 1 /\ i \in 1 .. Len(ids)
  <2>1. i \in 1 .. Len(ids) /\ agenda[i] = [do |-> "step", id |-> ids[i], scope |-> 1]
    BY <1>4
  <2> QED
    BY <2>1
<1>7. /\ scopes \in Seq(ScopeOf) /\ DOMAIN scopes = {1} /\ scopes[1].of = FlowEngine!Whole /\ scopes[1].visited = {}
  <2> DEFINE scope == [of |-> FlowEngine!Whole, visited |-> {}]
  <2>1. scope \in ScopeOf /\ scope.of = FlowEngine!Whole /\ scope.visited = {}
    BY DEF ScopeOf, FlowEngine!Whole
  <2>2. scopes = <<scope>>
    BY <1>1
  <2> HIDE DEF scope
  <2> QED
    BY <2>1, <2>2
<1>8. results \in Seq(Result) /\ Len(results) = 0 /\ 1 .. Len(results) = {} /\ Made = {}
  <2>1. results \in Seq(Result) /\ Len(results) = 0
    BY <1>1
  <2>2. 1 .. Len(results) = {}
    BY <2>1
  <2> QED
    BY <2>1, <2>2 DEF Made
<1>9. Framed
  <2>1. \A i \in 1 .. Len(agenda) :
          /\ agenda[i].scope \in DOMAIN scopes
          /\ agenda[i].id \in FlowEngine!Named(ast)
          /\ agenda[i].do # "items"
    BY <1>3, <1>5, <1>6, <1>7
  <2>2. ResultsInScopes
    BY <1>8 DEF ResultsInScopes
  <2> QED
    BY <1>2, <1>4, <1>7, <1>8, <2>1, <2>2 DEF Framed
<1>10. FlowKept
  <2>1. \A i \in 1 .. Len(agenda) : agenda[i].do # "items"
    BY <1>6
  <2> QED
    BY <1>1, <1>2, <2>1 DEF FlowKept
<1>11. \A s, x : ~ HasRun(s, x) /\ ~ UnderWay(s, x) /\ ~ Visited(s, x)
  BY <1>6, <1>7, <1>8 DEF HasRun, UnderWay, Visited
<1>12. FlowEngine!Roots(1) = FlowEngine!Range(ids)
  BY <1>7 DEF FlowEngine!Roots, ids
<1>13. \A s, x : Awaits(s, x) <=> s = 1 /\ x \in FlowEngine!Range(ids)
  <2> SUFFICES ASSUME NEW s, NEW x PROVE Awaits(s, x) <=> s = 1 /\ x \in FlowEngine!Range(ids)
    OBVIOUS
  <2>1. x \in FlowEngine!Range(ids) <=> \E i \in 1 .. Len(ids) : ids[i] = x
    BY <1>5
  <2>2. ASSUME Awaits(s, x) PROVE s = 1 /\ x \in FlowEngine!Range(ids)
    <3>1. PICK i \in 1 .. Len(agenda) : agenda[i].scope = s /\ agenda[i].id = x
      BY <2>2 DEF Awaits
    <3>2. agenda[i].scope = 1 /\ agenda[i].id = ids[i] /\ i \in 1 .. Len(ids)
      BY <1>6
    <3> QED
      BY <2>1, <3>1, <3>2
  <2>3. ASSUME s = 1, x \in FlowEngine!Range(ids) PROVE Awaits(s, x)
    <3>1. PICK i \in 1 .. Len(ids) : ids[i] = x
      BY <2>1, <2>3
    <3>2. i \in 1 .. Len(agenda) /\ agenda[i].scope = s /\ agenda[i].id = x
      BY <1>4, <1>6, <2>3, <3>1
    <3> QED
      BY <3>2 DEF Awaits
  <2> QED
    BY <2>2, <2>3
<1>14. OneLoop /\ AllExplained
  BY <1>6, <1>8 DEF OneLoop, AllExplained
<1>15. AgendaIsDue
  BY <1>11, <1>12, <1>13 DEF AgendaIsDue, Due
<1>16. DueIsPending
  <2>1. \A x : Due(1, x) => Awaits(1, x)
    BY <1>8, <1>12, <1>13 DEF Due
  <2> QED
    BY <1>7, <2>1 DEF DueIsPending
<1>17. VisitedIsKnown
  BY <1>11 DEF VisitedIsKnown
<1> QED
  BY <1>9, <1>10, <1>14, <1>15, <1>16, <1>17 DEF FlowInv, Reasons

LEMMA FlowStep ==
  ASSUME FlowsAssumption, ExecutorAssumption, FlowInv, [FlowEngine!Next]_FlowEngine!vars
  PROVE  FlowInv'
<1>1. FlowTyped /\ Framed /\ Reasons
  BY FlowTypedParts DEF FlowInv
<1>2. Framed' /\ FlowKept'
  BY <1>1, FramedNext, KeptNext
<1>3. Still \/ Skipped \/ Begun \/ Iterated \/ \E r, ids, V : Executed(r, ids, V)
  BY <1>1, FlowSteps
<1>4. Reasons'
  BY <1>1, <1>3, ReasonsStill, ReasonsSkipped, ReasonsBegun, ReasonsIterated, ReasonsExecuted
<1> QED
  BY <1>2, <1>4 DEF FlowInv

LEMMA FlowExplained == FlowInv => FlowEngine!ResultsAreExplained /\ FlowEngine!TypeOK
<1> SUFFICES ASSUME FlowInv PROVE FlowEngine!ResultsAreExplained /\ FlowEngine!TypeOK
  OBVIOUS
<1>1. FlowTyped /\ Framed
  BY FlowTypedParts DEF FlowInv
<1>2. results \in Seq(Result) /\ DOMAIN results = 1 .. Len(results)
  BY <1>1 DEF Framed
<1>3. FlowEngine!Explained
  <2> SUFFICES ASSUME NEW i \in 1 .. Len(results)
               PROVE  LET earlier == {results[j] : j \in {k \in 1 .. i - 1 : results[k].scope = results[i].scope}}
                      IN  /\ results[i].id \in FlowEngine!Roots(results[i].scope) \cup UNION {FlowEngine!Branch(r) : r \in earlier}
                          /\ \A r \in earlier : r.id # results[i].id
    BY <1>2 DEF FlowEngine!Explained
  <2> DEFINE earlier == {results[j] : j \in {k \in 1 .. i - 1 : results[k].scope = results[i].scope}}
             s == results[i].scope
             x == results[i].id
  <2>1. \A r : r \in earlier <=> r \in Before(i) /\ r.scope = s
    BY DEF Before
  <2>2. ExplainedAt(i)
    BY DEF FlowInv, Reasons, AllExplained
  <2>3. /\ x \in FlowEngine!Roots(s) \/ \E r \in Before(i) : r.scope = s /\ x \in FlowEngine!Branch(r)
        /\ \A r \in Before(i) : ~ (r.scope = s /\ r.id = x)
    BY <2>2 DEF ExplainedAt
  <2> HIDE DEF earlier, s, x
  <2>4. x \in FlowEngine!Roots(s) \cup UNION {FlowEngine!Branch(r) : r \in earlier}
    BY <2>1, <2>3
  <2>5. \A r \in earlier : r.id # x
    BY <2>1, <2>3
  <2> QED
    BY <2>4, <2>5 DEF earlier, s, x
<1>4. FlowEngine!Complete
  <2> SUFFICES ASSUME agenda = <<>>, NEW s \in DOMAIN scopes,
                      NEW x \in FlowEngine!Roots(s) \cup UNION {FlowEngine!Branch(r) : r \in FlowEngine!ResultsIn(s)},
                      x \notin FlowEngine!Ran(s)
               PROVE  x \in UNION {FlowEngine!Range(FlowEngine!Node(ast, l).first) :
                                     l \in {id \in FlowEngine!Ran(s) \cap FlowEngine!Ids(ast) : FlowEngine!Node(ast, id).type = "loop"}}
    BY DEF FlowEngine!Complete
  <2>1. \A r : r \in FlowEngine!ResultsIn(s) <=> r \in Made /\ r.scope = s
    BY <1>2 DEF FlowEngine!ResultsIn, FlowEngine!Range, Made
  <2>2. \A y : y \in FlowEngine!Ran(s) <=> HasRun(s, y)
    BY <2>1 DEF FlowEngine!Ran, HasRun
  <2>3. Due(s, x)
    BY <2>1 DEF Due
  <2>4. ~ Awaits(s, x)
    <3>1. Len(agenda) = 0
      OBVIOUS
    <3> QED
      BY <3>1 DEF Awaits
  <2>5. InLoop(s, x)
    BY <2>2, <2>3, <2>4 DEF FlowInv, Reasons, DueIsPending
  <2>6. PICK l : HasRun(s, l) /\ IsLoop(l) /\ x \in FlowEngine!Range(FlowEngine!Node(ast, l).first)
    BY <2>5 DEF InLoop
  <2>7. l \in {id \in FlowEngine!Ran(s) \cap FlowEngine!Ids(ast) : FlowEngine!Node(ast, id).type = "loop"}
    BY <2>2, <2>6 DEF IsLoop
  <2> QED
    BY <2>6, <2>7
<1> QED
  BY <1>1, <1>3, <1>4 DEF FlowEngine!ResultsAreExplained, FlowTyped

LEMMA FlowAlways == RuntimeSpec => [](part = "flow" => FlowInv)
<1>1. RuntimeInit => (part = "flow" => FlowInv)
  BY FlowInit, FlowsAssumption, ExecutorAssumption DEF RuntimeInit
<1>2. (part = "flow" => FlowInv) /\ [RuntimeNext]_runtimeVars => (part = "flow" => FlowInv)'
  <2> SUFFICES ASSUME part = "flow" => FlowInv, [RuntimeNext]_runtimeVars, part' = "flow" PROVE FlowInv'
    OBVIOUS
  <2>1. part = "flow" /\ [FlowEngine!Next]_FlowEngine!vars
    BY DEF RuntimeNext, runtimeVars, flowVars, FlowEngine!vars, ExecutorTurn, FlowTurn, MigrationsTurn, MindTurn, DefinitionsTurn
  <2> QED
    BY <2>1, FlowStep, FlowsAssumption, ExecutorAssumption
<1> QED
  BY <1>1, <1>2, PTL DEF RuntimeSpec

\* In every flow, on every branch, loop and failure: each result has a reason in
\* its pass, none comes twice, and when the flow ends nothing that was due lacks one.
THEOREM FlowsAreExplained == RuntimeSpec => []ResultsAreExplained
<1>1. (part = "flow" => FlowInv) => ResultsAreExplained
  BY FlowExplained DEF ResultsAreExplained
<1> QED
  BY <1>1, FlowAlways, PTL

-------------------------------------------------------------------------------
(* The generator.  What is kept of a surface is a few summaries and the end  *)
(* of what was said; what is asked is the prompt and a stretch of it.        *)

Everyone == {"system", "user", "assistant"}
Stored == Chat!Message(Everyone)
Uttered == Chat!Message({"user", "assistant"})

\* m is messages of the system, and then the end of c.
TailedAt(m, c, k) ==
    /\ k \in 0 .. Len(m) /\ Len(m) - k <= Len(c)
    /\ \A i \in 1 .. k : m[i].role = "system"
    /\ \A i \in k + 1 .. Len(m) : m[i] = c[Len(c) - Len(m) + i]

\* c is a conversation: nothing of the system, numbered from 0 on.
Numbered(c) == c \in Seq(Uttered) /\ \A i \in 1 .. Len(c) : c[i].turn = i - 1

\* p is the prompt and a stretch of c that fits.
First(p) == p[2].turn + 1
Stretch(p, c) ==
    /\ p \in Seq(Stored) /\ Len(p) >= 1 /\ p[1] = Chat!SystemPrompt
    /\ Len(p) > 1 =>
          /\ First(p) \in Nat \ {0} /\ First(p) + Len(p) - 2 <= Len(c)
          /\ \A i \in 2 .. Len(p) : p[i] = c[First(p) + i - 2]
          /\ Chat!Total(p) + Reserve <= Window

\* S takes of seq what stands after a, up to b.
Takes(S, seq, a, b) == \A i \in 1 .. Len(seq) : seq[i] \in S <=> a < i /\ i <= b

\* What is kept when the positions that are kept follow one another.
LEMMA AmongRange ==
  ASSUME NEW T, NEW seq \in Seq(T), NEW S, NEW a \in Nat, NEW b \in Nat, a <= b, b <= Len(seq),
         Takes(S, seq, a, b)
  PROVE  /\ Among(seq, S) \in Seq(T) /\ Len(Among(seq, S)) = b - a
         /\ \A i \in 1 .. b - a : Among(seq, S)[i] = seq[a + i]
<1> DEFINE P == {p \in DOMAIN seq : seq[p] \in S}
<1>1. P = a + 1 .. b
  <2>1. DOMAIN seq = 1 .. Len(seq) /\ Len(seq) \in Nat
    OBVIOUS
  <2> QED
    BY <2>1 DEF Takes
<1>2. Cardinality(a + 1 .. b) = b - a
  <2>1. a + 1 \in Int /\ b \in Int
    OBVIOUS
  <2>2. Cardinality(a + 1 .. b) = IF a + 1 > b THEN 0 ELSE b - (a + 1) + 1
    BY <2>1, FS_Interval
  <2> QED
    BY <2>2
<1>3. ASSUME NEW i \in 1 .. b - a PROVE Nth(a + 1 .. b, i) = a + i
  <2>1. ASSUME NEW p \in a + 1 .. b PROVE Cardinality({q \in a + 1 .. b : q < p}) = p - a - 1
    <3>1. {q \in a + 1 .. b : q < p} = a + 1 .. p - 1
      OBVIOUS
    <3>2. a + 1 \in Int /\ p - 1 \in Int
      OBVIOUS
    <3>3. Cardinality(a + 1 .. p - 1) = IF a + 1 > p - 1 THEN 0 ELSE p - 1 - (a + 1) + 1
      BY <3>2, FS_Interval
    <3>4. Cardinality(a + 1 .. p - 1) = p - a - 1
      BY <3>3
    <3> QED
      BY <3>1, <3>4
  <2>2. a + i \in a + 1 .. b
    OBVIOUS
  <2>3. \A p \in a + 1 .. b : Cardinality({q \in a + 1 .. b : q < p}) = i - 1 <=> p = a + i
    <3> SUFFICES ASSUME NEW p \in a + 1 .. b
                 PROVE  Cardinality({q \in a + 1 .. b : q < p}) = i - 1 <=> p = a + i
      OBVIOUS
    <3>1. Cardinality({q \in a + 1 .. b : q < p}) = p - a - 1
      BY <2>1
    <3>2. p - a - 1 = i - 1 <=> p = a + i
      OBVIOUS
    <3> QED
      BY <3>1, <3>2
  <2> QED
    BY <2>2, <2>3 DEF Nth
<1>4. Among(seq, S) = [i \in 1 .. Cardinality(P) |-> seq[Nth(P, i)]]
  BY DEF Among
<1>5. Among(seq, S) = [i \in 1 .. b - a |-> seq[a + i]]
  BY <1>1, <1>2, <1>3, <1>4
<1>6. \A i \in 1 .. b - a : seq[a + i] \in T
  OBVIOUS
<1>7. Among(seq, S) \in [1 .. b - a -> T] /\ b - a \in Nat
  BY <1>5, <1>6
<1>8. Among(seq, S) \in Seq(T) /\ Len(Among(seq, S)) = b - a
  BY <1>7
<1> QED
  BY <1>5, <1>8

LEMMA ChatAmong == \A seq, S : Chat!Among(seq, S) = Among(seq, S)
BY DEF Among, Chat!Among, Nth, Chat!Nth, Cardinality, Chat!Cardinality

\* What is spoken and what is summarised of messages that are the end of c.
LEMMA Parts ==
  ASSUME NEW m \in Seq(Stored), NEW c \in Seq(Uttered), NEW k, TailedAt(m, c, k)
  PROVE  /\ Chat!Spoken(m) \in Seq(Stored) /\ Len(Chat!Spoken(m)) = Len(m) - k
         /\ \A i \in 1 .. Len(m) - k : Chat!Spoken(m)[i] = m[k + i]
         /\ Chat!Summaries(m) \in Seq(Stored) /\ Len(Chat!Summaries(m)) = k
         /\ \A i \in 1 .. k : Chat!Summaries(m)[i] = m[i]
<1>1. \A i \in 1 .. Len(m) : m[i] \in Chat!Range(m)
  BY DEF Chat!Range
<1>2. \A i \in 1 .. Len(m) : m[i].role = "system" <=> i <= k
  <2>1. \A i \in 1 .. Len(c) : c[i].role # "system"
    <3>1. \A i \in 1 .. Len(c) : c[i] \in Uttered
      OBVIOUS
    <3> QED
      BY <3>1 DEF Uttered, Chat!Message
  <2>2. ASSUME NEW i \in 1 .. Len(m), i > k PROVE m[i].role # "system"
    <3>1. m[i] = c[Len(c) - Len(m) + i] /\ Len(c) - Len(m) + i \in 1 .. Len(c)
      BY <2>2 DEF TailedAt
    <3> QED
      BY <2>1, <3>1
  <2>3. \A i \in 1 .. Len(m) : i <= k => m[i].role = "system"
    BY DEF TailedAt
  <2>4. k \in Nat
    BY DEF TailedAt
  <2> QED
    BY <2>2, <2>3, <2>4
<1>3. k \in Nat /\ k <= Len(m) /\ Len(m) \in Nat
  BY DEF TailedAt
<1>4. /\ Chat!Spoken(m) \in Seq(Stored) /\ Len(Chat!Spoken(m)) = Len(m) - k
      /\ \A i \in 1 .. Len(m) - k : Chat!Spoken(m)[i] = m[k + i]
  <2> DEFINE S == {x \in Chat!Range(m) : x.role # "system"}
  <2>1. Takes(S, m, k, Len(m))
    BY <1>1, <1>2, <1>3 DEF Takes
  <2>2. Chat!Spoken(m) = Among(m, S)
    BY ChatAmong DEF Chat!Spoken
  <2> HIDE DEF S
  <2>3. m \in Seq(Stored) /\ k \in Nat /\ Len(m) \in Nat /\ k <= Len(m) /\ Len(m) <= Len(m)
    BY <1>3
  <2>4. /\ Among(m, S) \in Seq(Stored) /\ Len(Among(m, S)) = Len(m) - k
        /\ \A i \in 1 .. Len(m) - k : Among(m, S)[i] = m[k + i]
    BY <2>1, <2>3, AmongRange
  <2> QED
    BY <2>2, <2>4
<1>5. /\ Chat!Summaries(m) \in Seq(Stored) /\ Len(Chat!Summaries(m)) = k
      /\ \A i \in 1 .. k : Chat!Summaries(m)[i] = m[i]
  <2> DEFINE S == {x \in Chat!Range(m) : x.role = "system"}
  <2>1. Takes(S, m, 0, k)
    BY <1>1, <1>2, <1>3 DEF Takes
  <2>2. Chat!Summaries(m) = Among(m, S)
    BY ChatAmong DEF Chat!Summaries
  <2> HIDE DEF S
  <2>3. /\ Among(m, S) \in Seq(Stored) /\ Len(Among(m, S)) = k - 0
        /\ \A i \in 1 .. k - 0 : Among(m, S)[i] = m[0 + i]
    <3>1. m \in Seq(Stored) /\ 0 \in Nat /\ k \in Nat /\ 0 <= k /\ k <= Len(m)
      BY <1>3
    <3> QED
      BY <2>1, <3>1, AmongRange
  <2>4. \A i \in 1 .. k : 0 + i = i
    OBVIOUS
  <2> QED
    BY <1>3, <2>2, <2>3, <2>4
<1> QED
  BY <1>4, <1>5

Tailed(m, c) == m \in Seq(Stored) /\ \E k : TailedAt(m, c, k)

LEMMA SummaryTyped == Chat!Summary \in Stored /\ Chat!Summary.role = "system" /\ Chat!SystemPrompt \in Stored
<1>1. Chat!Summary = [role |-> "system", by |-> Nothing, turn |-> 0, size |-> 1]
  BY DEF Chat!Summary
<1>2. Chat!SystemPrompt = [role |-> "system", by |-> Nothing, turn |-> 0, size |-> PromptSize]
  BY DEF Chat!SystemPrompt
<1>3. PromptSize \in Nat
  BY TalksAssumption
<1> QED
  BY <1>1, <1>2, <1>3 DEF Stored, Everyone, Chat!Message

\* What is added to the conversation is added to what is kept.
LEMMA TailedLonger ==
  ASSUME NEW m, NEW c \in Seq(Uttered), NEW x \in Seq(Uttered), Tailed(m, c)
  PROVE  Tailed(m \o x, c \o x)
<1>1. PICK k : TailedAt(m, c, k)
  BY DEF Tailed
<1>2. m \in Seq(Stored)
  BY DEF Tailed
<1>3. x \in Seq(Stored)
  <2>1. Uttered \subseteq Stored
    BY DEF Uttered, Stored, Everyone, Chat!Message
  <2> QED
    BY <2>1
<1>4. m \o x \in Seq(Stored) /\ Len(m \o x) = Len(m) + Len(x) /\ Len(c \o x) = Len(c) + Len(x)
  BY <1>2, <1>3
<1>5. Len(m) \in Nat /\ Len(x) \in Nat /\ Len(c) \in Nat /\ k \in Nat /\ k <= Len(m) /\ Len(m) - k <= Len(c)
  BY <1>1, <1>2 DEF TailedAt
<1>6. ASSUME NEW i \in 1 .. k PROVE (m \o x)[i].role = "system"
  <2>1. (m \o x)[i] = m[i]
    BY <1>2, <1>3, <1>5
  <2> QED
    BY <1>1, <2>1 DEF TailedAt
<1>7. ASSUME NEW i \in k + 1 .. Len(m) + Len(x)
      PROVE  (m \o x)[i] = (c \o x)[Len(c) + Len(x) - (Len(m) + Len(x)) + i]
  <2>1. CASE i <= Len(m)
    <3>1. (m \o x)[i] = m[i]
      BY <1>2, <1>3, <1>5, <2>1
    <3>2. m[i] = c[Len(c) - Len(m) + i]
      BY <1>1, <1>5, <2>1 DEF TailedAt
    <3>3. Len(c) - Len(m) + i \in 1 .. Len(c)
      BY <1>5, <2>1
    <3>4. (c \o x)[Len(c) - Len(m) + i] = c[Len(c) - Len(m) + i]
      BY <3>3
    <3>5. Len(c) + Len(x) - (Len(m) + Len(x)) + i = Len(c) - Len(m) + i
      BY <1>5
    <3> QED
      BY <3>1, <3>2, <3>4, <3>5
  <2>2. CASE i > Len(m)
    <3>1. i - Len(m) \in 1 .. Len(x)
      BY <1>5, <2>2
    <3>2. (m \o x)[Len(m) + (i - Len(m))] = x[i - Len(m)]
      BY <1>2, <1>3, <3>1
    <3>3. (c \o x)[Len(c) + (i - Len(m))] = x[i - Len(m)]
      BY <3>1
    <3>4. /\ Len(m) + (i - Len(m)) = i
          /\ Len(c) + Len(x) - (Len(m) + Len(x)) + i = Len(c) + (i - Len(m))
      BY <1>5
    <3> QED
      BY <3>2, <3>3, <3>4
  <2> QED
    BY <1>5, <2>1, <2>2
<1>8. TailedAt(m \o x, c \o x, k)
  BY <1>4, <1>5, <1>6, <1>7 DEF TailedAt
<1> QED
  BY <1>4, <1>8 DEF Tailed

\* Pruning leaves the end of the conversation.
LEMMA TailedPruned ==
  ASSUME NEW m, NEW c \in Seq(Uttered), Tailed(m, c)
  PROVE  Tailed(Chat!Pruned(m), c)
<1>1. PICK k : TailedAt(m, c, k)
  BY DEF Tailed
<1>2. m \in Seq(Stored)
  BY DEF Tailed
<1> DEFINE spoken == Chat!Spoken(m)
           sums == Chat!Summaries(m)
           old == (7 * Len(spoken)) \div 10
           t == SubSeq(spoken, old + 1, Len(spoken))
           a == Append(sums, Chat!Summary)
<1>3. /\ spoken \in Seq(Stored) /\ Len(spoken) = Len(m) - k
      /\ \A i \in 1 .. Len(m) - k : spoken[i] = m[k + i]
      /\ sums \in Seq(Stored) /\ Len(sums) = k
      /\ \A i \in 1 .. k : sums[i] = m[i]
  BY <1>1, <1>2, Parts
<1>4. Chat!Pruned(m) = m \/ Chat!Pruned(m) = a \o t
  BY DEF Chat!Pruned
<1>5. k \in Nat /\ k <= Len(m) /\ Len(m) \in Nat /\ Len(c) \in Nat /\ Len(m) - k <= Len(c)
  BY <1>1, <1>2 DEF TailedAt
<1>6. \A i \in 1 .. k : m[i].role = "system"
  BY <1>1 DEF TailedAt
<1>7. \A i \in k + 1 .. Len(m) : m[i] = c[Len(c) - Len(m) + i]
  BY <1>1 DEF TailedAt
<1>8. old \in Nat /\ old <= Len(m) - k
  <2>1. Len(spoken) \in Nat
    BY <1>3
  <2> QED
    BY <1>3, <2>1
<1> HIDE DEF spoken, sums, old
<1>9. a \in Seq(Stored) /\ Len(a) = k + 1 /\ \A i \in 1 .. k + 1 : a[i].role = "system"
  <2>1. a \in Seq(Stored) /\ Len(a) = k + 1 /\ a[k + 1] = Chat!Summary
    BY <1>3, <1>5, SummaryTyped
  <2>2. ASSUME NEW i \in 1 .. k PROVE a[i] = m[i]
    BY <1>3, <1>5, SummaryTyped
  <2>3. \A i \in 1 .. k + 1 : i \in 1 .. k \/ i = k + 1
    BY <1>5
  <2> QED
    BY <1>6, <2>1, <2>2, <2>3, SummaryTyped
<1>10. /\ t \in Seq(Stored) /\ Len(t) = Len(m) - k - old
       /\ \A j \in 1 .. Len(m) - k - old : t[j] = m[k + old + j]
  <2>1. old + 1 \in 1 .. Len(spoken) + 1 /\ Len(spoken) \in Nat
    BY <1>3, <1>5, <1>8
  <2>2. t \in Seq(Stored) /\ Len(t) = Len(spoken) - old
    BY <1>3, <1>8, <2>1
  <2>3. ASSUME NEW j \in 1 .. Len(m) - k - old PROVE t[j] = m[k + old + j]
    <3>1. t[j] = spoken[old + j]
      BY <1>3, <1>5, <1>8, <2>1, <2>3
    <3>2. old + j \in 1 .. Len(m) - k
      BY <1>5, <1>8
    <3>3. spoken[old + j] = m[k + (old + j)] /\ k + (old + j) = k + old + j
      BY <1>3, <1>5, <1>8, <3>2
    <3> QED
      BY <3>1, <3>3
  <2>4. Len(spoken) - old = Len(m) - k - old
    BY <1>3, <1>5, <1>8
  <2> QED
    BY <2>2, <2>3, <2>4
<1> HIDE DEF a, t
<1>11. CASE Chat!Pruned(m) = a \o t
  <2> DEFINE p == a \o t
  <2>1. p \in Seq(Stored) /\ Len(p) = k + 1 + (Len(m) - k - old)
    <3>1. a \in Seq(Stored) /\ t \in Seq(Stored)
      BY <1>9, <1>10
    <3>2. p \in Seq(Stored) /\ Len(p) = Len(a) + Len(t)
      BY <3>1
    <3> QED
      BY <1>9, <1>10, <3>2
  <2>2. ASSUME NEW i \in 1 .. k + 1 PROVE p[i].role = "system"
    <3>1. p[i] = a[i]
      BY <1>5, <1>9, <1>10
    <3> QED
      BY <1>9, <3>1
  <2>3. ASSUME NEW i \in (k + 1) + 1 .. Len(p) PROVE p[i] = c[Len(c) - Len(p) + i]
    <3>1. i - (k + 1) \in 1 .. Len(m) - k - old
      BY <1>5, <1>8, <2>1
    <3>2. p[Len(a) + (i - (k + 1))] = t[i - (k + 1)]
      BY <1>9, <1>10, <3>1
    <3>3. Len(a) + (i - (k + 1)) = i
      BY <1>5, <1>9
    <3>4. t[i - (k + 1)] = m[k + old + (i - (k + 1))]
      BY <1>10, <3>1
    <3>5. k + old + (i - (k + 1)) \in k + 1 .. Len(m)
      BY <1>5, <1>8, <3>1
    <3>6. m[k + old + (i - (k + 1))] = c[Len(c) - Len(m) + (k + old + (i - (k + 1)))]
      BY <1>7, <3>5
    <3>7. Len(c) - Len(m) + (k + old + (i - (k + 1))) = Len(c) - Len(p) + i
      BY <1>5, <1>8, <2>1
    <3> QED
      BY <3>2, <3>3, <3>4, <3>6, <3>7
  <2>4. k + 1 \in 0 .. Len(p) /\ Len(p) - (k + 1) <= Len(c)
    BY <1>5, <1>8, <2>1
  <2>5. TailedAt(p, c, k + 1)
    BY <2>2, <2>3, <2>4 DEF TailedAt
  <2> QED
    BY <1>11, <2>1, <2>5 DEF Tailed
<1> QED
  BY <1>4, <1>11

\* What is kept and spoken is the end of what was said.
LEMMA SuffixOf ==
  ASSUME NEW T, NEW U, NEW t \in Seq(T), NEW c \in Seq(U), Len(t) <= Len(c),
         \A i \in 1 .. Len(t) : t[i] = c[Len(c) - Len(t) + i]
  PROVE  Chat!IsSuffix(t, c)
<1>1. Chat!Reverse(t) = [i \in 1 .. Len(t) |-> t[(Len(t) - i) + 1]]
  BY DEF Chat!Reverse
<1>2. Chat!Reverse(c) = [i \in 1 .. Len(c) |-> c[(Len(c) - i) + 1]]
  BY DEF Chat!Reverse
<1>3. Chat!Reverse(t) \in Seq(T) /\ Len(Chat!Reverse(t)) = Len(t)
  <2>1. \A i \in 1 .. Len(t) : t[(Len(t) - i) + 1] \in T
    OBVIOUS
  <2>2. Chat!Reverse(t) \in [1 .. Len(t) -> T] /\ Len(t) \in Nat
    BY <1>1, <2>1
  <2> QED
    BY <2>2
<1>4. Chat!Reverse(c) \in Seq(U) /\ Len(Chat!Reverse(c)) = Len(c)
  <2>1. \A i \in 1 .. Len(c) : c[(Len(c) - i) + 1] \in U
    OBVIOUS
  <2>2. Chat!Reverse(c) \in [1 .. Len(c) -> U] /\ Len(c) \in Nat
    BY <1>2, <2>1
  <2> QED
    BY <2>2
<1>5. ASSUME NEW i \in 1 .. Len(t) PROVE Chat!Reverse(t)[i] = Chat!Reverse(c)[i]
  <2>1. (Len(t) - i) + 1 \in 1 .. Len(t) /\ i \in 1 .. Len(c)
    OBVIOUS
  <2>2. t[(Len(t) - i) + 1] = c[Len(c) - Len(t) + ((Len(t) - i) + 1)]
    BY <2>1
  <2>3. Len(c) - Len(t) + ((Len(t) - i) + 1) = (Len(c) - i) + 1
    BY <2>1
  <2> QED
    BY <1>1, <1>2, <2>1, <2>2, <2>3
<1>6. SubSeq(Chat!Reverse(t), 1, Len(t)) = SubSeq(Chat!Reverse(c), 1, Len(t))
  BY <1>3, <1>4, <1>5
<1> QED
  BY <1>3, <1>4, <1>6 DEF Chat!IsSuffix, Chat!IsPrefix

LEMMA GreatestExists ==
  ASSUME NEW n \in Nat, NEW W \in SUBSET (1 .. n), W # {}
  PROVE  \E i \in W : \A j \in W : i >= j
<1> DEFINE T == {n - i : i \in W}
<1>0. \A i \in W : i \in Nat /\ n - i \in Nat
  OBVIOUS
<1>1. T \subseteq Nat /\ T # {}
  BY <1>0
<1>2. PICK x \in T : \A y \in T : ~ (<<y, x>> \in OpToRel(<, Nat))
  BY <1>1, NatLessThanWellFounded, WFMin
<1>3. \A y \in T : ~ (y < x)
  BY <1>1, <1>2 DEF OpToRel
<1>4. PICK i \in W : x = n - i
  OBVIOUS
<1>5. ASSUME NEW j \in W PROVE i >= j
  <2>1. ~ (n - j < x)
    BY <1>3
  <2> QED
    BY <1>0, <1>4, <2>1
<1> QED
  BY <1>5

\* A model is sent the prompt with an unbroken stretch of the conversation.
LEMMA WindowIsStretch ==
  ASSUME NEW m, NEW c, Numbered(c), Tailed(m, c)
  PROVE  Stretch(Chat!WindowOf(m), c)
<1> DEFINE q == Chat!Pruned(m)
           spoken == Chat!Spoken(q)
           all == <<Chat!SystemPrompt>> \o spoken
           fits == {n \in 2 .. Len(all) : Chat!Total(SubSeq(all, 1, n)) + Reserve <= Window} \cup {1}
           top == Chat!Max(fits)
           p == SubSeq(all, 1, top)
<1>1. c \in Seq(Uttered) /\ \A i \in 1 .. Len(c) : c[i].turn = i - 1
  BY DEF Numbered
<1>2. Tailed(q, c)
  BY <1>1, TailedPruned
<1>3. PICK k : TailedAt(q, c, k)
  BY <1>2 DEF Tailed
<1>4. q \in Seq(Stored)
  BY <1>2 DEF Tailed
<1>5. Chat!WindowOf(m) = p
  BY DEF Chat!WindowOf
<1> HIDE DEF q
<1>6. /\ spoken \in Seq(Stored) /\ Len(spoken) = Len(q) - k
      /\ \A i \in 1 .. Len(q) - k : spoken[i] = q[k + i]
  BY <1>1, <1>3, <1>4, Parts
<1>7. /\ k \in Nat /\ k <= Len(q) /\ Len(q) \in Nat /\ Len(c) \in Nat /\ Len(q) - k <= Len(c)
      /\ \A i \in k + 1 .. Len(q) : q[i] = c[Len(c) - Len(q) + i]
  BY <1>1, <1>3, <1>4 DEF TailedAt
<1> DEFINE L == Len(spoken)
<1>8. L \in Nat /\ L <= Len(c) /\ \A i \in 1 .. L : spoken[i] = c[Len(c) - L + i]
  <2>1. L \in Nat /\ L <= Len(c)
    BY <1>6, <1>7
  <2>2. ASSUME NEW i \in 1 .. L PROVE spoken[i] = c[Len(c) - L + i]
    <3>1. i \in 1 .. Len(q) - k /\ k + i \in k + 1 .. Len(q)
      BY <1>6, <1>7
    <3>2. spoken[i] = c[Len(c) - Len(q) + (k + i)]
      BY <1>6, <1>7, <3>1
    <3>3. Len(c) - Len(q) + (k + i) = Len(c) - L + i
      BY <1>6, <1>7, <3>1
    <3> QED
      BY <3>2, <3>3
  <2> QED
    BY <2>1, <2>2
<1> HIDE DEF spoken
<1>9. /\ all \in Seq(Stored) /\ Len(all) = L + 1 /\ all[1] = Chat!SystemPrompt
      /\ \A i \in 1 .. L : all[i + 1] = spoken[i]
  <2>1. <<Chat!SystemPrompt>> \in Seq(Stored) /\ Len(<<Chat!SystemPrompt>>) = 1
    BY SummaryTyped
  <2>2. all \in Seq(Stored) /\ Len(all) = 1 + L
    BY <1>6, <2>1
  <2>3. all[1] = Chat!SystemPrompt
    BY <1>6, <2>1
  <2>4. ASSUME NEW i \in 1 .. L PROVE all[i + 1] = spoken[i]
    BY <1>6, <1>8, <2>1
  <2> QED
    BY <1>8, <2>2, <2>3, <2>4
<1> HIDE DEF all, L
<1>10. top \in fits /\ top \in 1 .. L + 1 /\ 1 \in fits
  <2>1. fits \in SUBSET (1 .. L + 1) /\ 1 \in fits /\ L + 1 \in Nat
    BY <1>8, <1>9
  <2> HIDE DEF fits
  <2>2. \E i \in fits : \A j \in fits : i >= j
    BY <2>1, GreatestExists
  <2>3. top \in fits
    BY <2>2 DEF Chat!Max
  <2> QED
    BY <2>1, <2>3
<1> HIDE DEF top
<1>11. /\ p \in Seq(Stored) /\ Len(p) = top /\ \A i \in 1 .. top : p[i] = all[i]
  BY <1>8, <1>9, <1>10
<1>12. ASSUME top > 1
       PROVE  /\ First(p) = Len(c) - L + 1 /\ First(p) \in Nat \ {0} /\ First(p) + Len(p) - 2 <= Len(c)
              /\ \A i \in 2 .. Len(p) : p[i] = c[First(p) + i - 2]
              /\ Chat!Total(p) + Reserve <= Window
  <2>1. ASSUME NEW i \in 2 .. top PROVE p[i] = c[Len(c) - L + (i - 1)]
    <3>1. i - 1 \in 1 .. L /\ (i - 1) + 1 = i /\ i \in 1 .. top
      BY <1>8, <1>10
    <3>2. p[i] = all[(i - 1) + 1] /\ all[(i - 1) + 1] = spoken[i - 1]
      BY <1>9, <1>11, <3>1
    <3>3. spoken[i - 1] = c[Len(c) - L + (i - 1)]
      BY <1>8, <3>1
    <3> QED
      BY <3>2, <3>3
  <2>2. p[2] = c[Len(c) - L + 1]
    <3>1. 2 \in 2 .. top /\ 2 - 1 = 1
      BY <1>8, <1>10, <1>12
    <3>2. p[2] = c[Len(c) - L + (2 - 1)]
      BY <2>1, <3>1
    <3> QED
      BY <3>1, <3>2
  <2>3. Len(c) - L + 1 \in 1 .. Len(c)
    BY <1>7, <1>8, <1>10, <1>12
  <2>4. c[Len(c) - L + 1].turn = (Len(c) - L + 1) - 1
    BY <1>1, <2>3
  <2>5. First(p) = Len(c) - L + 1
    <3>1. (Len(c) - L + 1) - 1 + 1 = Len(c) - L + 1
      BY <1>7, <1>8
    <3> QED
      BY <2>2, <2>4, <3>1 DEF First
  <2>6. First(p) \in Nat \ {0} /\ First(p) + Len(p) - 2 <= Len(c)
    BY <1>7, <1>8, <1>10, <1>11, <2>3, <2>5
  <2>7. ASSUME NEW i \in 2 .. Len(p) PROVE p[i] = c[First(p) + i - 2]
    <3>1. i \in 2 .. top
      BY <1>11
    <3>2. Len(c) - L + (i - 1) = First(p) + i - 2
      BY <1>7, <1>8, <2>5, <3>1
    <3> QED
      BY <2>1, <3>1, <3>2
  <2>8. Chat!Total(p) + Reserve <= Window
    BY <1>10, <1>12 DEF fits
  <2> QED
    BY <2>5, <2>6, <2>7, <2>8
<1>13. Len(p) >= 1 /\ p[1] = Chat!SystemPrompt
  BY <1>8, <1>9, <1>10, <1>11
<1> HIDE DEF p
<1>14. Stretch(p, c)
  BY <1>11, <1>12, <1>13 DEF Stretch
<1> QED
  BY <1>5, <1>14

Vias == {"relay", "screen", "flow"}

\* f is a function on D.
IsOn(f, D) == f = [i \in D |-> f[i]]
Fields == {"pc", "surface", "via", "attempt", "prompt", "heard", "shown"}

\* A call of generate has its seven fields and no other.
Talk(pc, surface, via, attempts, prompt, heard, shown) ==
    [pc |-> pc, surface |-> surface, via |-> via, attempt |-> attempts, prompt |-> prompt, heard |-> heard, shown |-> shown]
WholeTalk(t) == t = Talk(t.pc, t.surface, t.via, t.attempt, t.prompt, t.heard, t.shown)

\* What was refused is shown to nobody.
RefusedIsHidden(t) ==
    t.pc = "done" /\ t.heard # Nothing /\ Chat!Errors(t.heard, Chat!Engine(t)) # {} =>
        t.shown = IF t.via = "relay" THEN Chat!DegradedMessages(t.surface) ELSE Nothing

Talking(t) ==
    /\ WholeTalk(t)
    /\ t.pc \in {"idle", "asking", "done"} /\ t.attempt \in 0 .. MaxRetries
    /\ t.pc # "idle" => t.surface \in Surfaces /\ t.via \in Vias
    /\ t.prompt \in Seq(Stored) /\ t.heard \in Says \cup {Nothing}
    /\ RefusedIsHidden(t)

MindInv ==
    /\ talks = [r \in Talks |-> talks[r]] /\ \A r \in Talks : Talking(talks[r])
    /\ store = [s \in Surfaces |-> store[s]] /\ said = [s \in Surfaces |-> said[s]]
    /\ \A s \in Surfaces : Numbered(said[s]) /\ Tailed(store[s], said[s])
    /\ \A r \in Talks : talks[r].pc = "asking" => Stretch(talks[r].prompt, said[talks[r].surface])

\* One step: a call moves on, and x is added to the conversation of its surface.
Heard(r, s, x, t) ==
    /\ talks' = [talks EXCEPT ![r] = t] /\ Talking(t)
    /\ x \in Seq(Uttered) /\ Numbered(said[s] \o x)
    /\ said' = [said EXCEPT ![s] = said[s] \o x]
    /\ store' = [store EXCEPT ![s] = store[s] \o x] \/ store' = [store EXCEPT ![s] = Chat!Pruned(store[s] \o x)]
    /\ t.pc # "idle" /\ t.surface = s
    /\ t.pc = "asking" => t.prompt = Chat!WindowOf(store[s] \o x)

LEMMA Utterance ==
  ASSUME NEW r \in Talks, NEW role \in {"user", "assistant"}, NEW n \in Nat, NEW size \in Nat
  PROVE  [role |-> role, by |-> r, turn |-> n, size |-> size] \in Uttered
BY DEF Uttered, Chat!Message

LEMMA NumberedOne ==
  ASSUME NEW c, Numbered(c), NEW y \in Uttered, y.turn = Len(c)
  PROVE  <<y>> \in Seq(Uttered) /\ Numbered(c \o <<y>>)
<1>1. c \in Seq(Uttered) /\ <<y>> \in Seq(Uttered) /\ Len(<<y>>) = 1
  BY DEF Numbered
<1>2. c \o <<y>> \in Seq(Uttered) /\ Len(c \o <<y>>) = Len(c) + 1
  BY <1>1
<1>3. ASSUME NEW i \in 1 .. Len(c) + 1 PROVE (c \o <<y>>)[i].turn = i - 1
  <2>1. CASE i <= Len(c)
    <3>1. (c \o <<y>>)[i] = c[i] /\ i \in 1 .. Len(c)
      BY <1>1, <2>1
    <3> QED
      BY <3>1 DEF Numbered
  <2>2. CASE i = Len(c) + 1
    <3>1. (c \o <<y>>)[i] = y
      BY <1>1, <2>2
    <3>2. i - 1 = Len(c)
      BY <1>1, <2>2
    <3> QED
      BY <3>1, <3>2
  <2> QED
    BY <1>1, <2>1, <2>2
<1> QED
  BY <1>1, <1>2, <1>3 DEF Numbered

LEMMA NumberedTwo ==
  ASSUME NEW c, Numbered(c), NEW y \in Uttered, y.turn = Len(c), NEW z \in Uttered, z.turn = Len(c) + 1
  PROVE  <<y, z>> \in Seq(Uttered) /\ Numbered(c \o <<y, z>>)
<1>1. <<y>> \in Seq(Uttered) /\ Numbered(c \o <<y>>)
  BY NumberedOne
<1>2. c \in Seq(Uttered) /\ Len(c \o <<y>>) = Len(c) + 1
  BY DEF Numbered
<1>3. Numbered((c \o <<y>>) \o <<z>>)
  BY <1>1, <1>2, NumberedOne
<1>4. (c \o <<y>>) \o <<z>> = c \o <<y, z>>
  BY <1>2
<1>5. <<y, z>> \in Seq(Uttered)
  OBVIOUS
<1> QED
  BY <1>3, <1>4, <1>5

LEMMA SameFunction ==
  ASSUME NEW D, NEW f, NEW g, IsOn(f, D), IsOn(g, D), \A i \in D : f[i] = g[i]
  PROVE  f = g
<1>1. [i \in D |-> f[i]] = [i \in D |-> g[i]]
  OBVIOUS
<1> QED
  BY <1>1, Zenon DEF IsOn

LEMMA Asking ==
  ASSUME NEW t, WholeTalk(t), NEW w
  PROVE  [t EXCEPT !.pc = "asking", !.prompt = w]
           = Talk("asking", t.surface, t.via, t.attempt, w, t.heard, t.shown)
<1>1. PICK a, b, c, d, e, f, g : t = Talk(a, b, c, d, e, f, g)
  BY DEF WholeTalk
<1>2. t.surface = b /\ t.via = c /\ t.attempt = d /\ t.heard = f /\ t.shown = g
  BY <1>1 DEF Talk
<1> DEFINE u == [Talk(a, b, c, d, e, f, g) EXCEPT !.pc = "asking", !.prompt = w]
           v == Talk("asking", b, c, d, w, f, g)
<1>3. IsOn(u, Fields) /\ IsOn(v, Fields)
  BY DEF Talk, Fields, IsOn
<1>4. \A i \in Fields : u[i] = v[i]
  <2>1. u.pc = v.pc /\ u.surface = v.surface /\ u.via = v.via
    BY DEF Talk
  <2>2. u.attempt = v.attempt /\ u.prompt = v.prompt /\ u.heard = v.heard /\ u.shown = v.shown
    BY DEF Talk
  <2> HIDE DEF u, v
  <2> QED
    BY <2>1, <2>2 DEF Fields
<1>5. u = v
  <2> HIDE DEF u, v
  <2> QED
    BY <1>3, <1>4, SameFunction
<1> QED
  BY <1>1, <1>2, <1>5, Zenon

LEMMA Closing ==
  ASSUME NEW t, WholeTalk(t), NEW heard, NEW shown
  PROVE  [[[t EXCEPT !.pc = "done"] EXCEPT !.heard = heard] EXCEPT !.shown = shown]
           = Talk("done", t.surface, t.via, t.attempt, t.prompt, heard, shown)
<1>1. PICK a, b, c, d, e, f, g : t = Talk(a, b, c, d, e, f, g)
  BY DEF WholeTalk
<1>2. t.surface = b /\ t.via = c /\ t.attempt = d /\ t.prompt = e
  BY <1>1 DEF Talk
<1> DEFINE u == [[[Talk(a, b, c, d, e, f, g) EXCEPT !.pc = "done"] EXCEPT !.heard = heard] EXCEPT !.shown = shown]
           v == Talk("done", b, c, d, e, heard, shown)
<1>3. IsOn(u, Fields) /\ IsOn(v, Fields)
  BY DEF Talk, Fields, IsOn
<1>4. \A i \in Fields : u[i] = v[i]
  <2>1. u.pc = v.pc /\ u.surface = v.surface /\ u.via = v.via
    BY DEF Talk
  <2>2. u.attempt = v.attempt /\ u.prompt = v.prompt /\ u.heard = v.heard /\ u.shown = v.shown
    BY DEF Talk
  <2> HIDE DEF u, v
  <2> QED
    BY <2>1, <2>2 DEF Fields
<1>5. u = v
  <2> HIDE DEF u, v
  <2> QED
    BY <1>3, <1>4, SameFunction
<1> QED
  BY <1>1, <1>2, <1>5, Zenon

\* How a call asks.
LEMMA Asks ==
  ASSUME NEW r \in Talks, NEW t, WholeTalk(t), NEW x \in Seq(Uttered), Chat!Send(r, t, x), MindInv,
         t.surface \in Surfaces, t.via \in Vias, t.attempt \in 0 .. MaxRetries, t.heard \in Says \cup {Nothing},
         Numbered(said[t.surface] \o x)
  PROVE  \E u : Heard(r, t.surface, x, u)
<1> DEFINE s == t.surface
           w == Chat!WindowOf(store[s] \o x)
           u == Talk("asking", s, t.via, t.attempt, w, t.heard, t.shown)
<1>1. [t EXCEPT !.pc = "asking", !.prompt = w] = u
  BY Asking
<1>2. talks' = [talks EXCEPT ![r] = u]
  BY <1>1 DEF Chat!Send
<1>3. u.pc = "asking" /\ u.surface = s /\ u.via = t.via /\ u.attempt = t.attempt /\ u.prompt = w /\ u.heard = t.heard /\ WholeTalk(u)
  BY DEF Talk, WholeTalk
<1>4. /\ store' = [store EXCEPT ![s] = Chat!Pruned(store[s] \o x)]
      /\ said' = [said EXCEPT ![s] = said[s] \o x]
  BY DEF Chat!Send, Chat!Converse
<1>5. Numbered(said[s]) /\ Tailed(store[s], said[s]) /\ said[s] \in Seq(Uttered)
  BY DEF MindInv, Numbered
<1>6. Tailed(store[s] \o x, said[s] \o x)
  BY <1>5, TailedLonger
<1>7. Stretch(w, said[s] \o x)
  BY <1>6, WindowIsStretch
<1>8. w \in Seq(Stored)
  BY <1>7 DEF Stretch
<1> HIDE DEF u, w
<1>9. Talking(u)
  BY <1>3, <1>8 DEF Talking, RefusedIsHidden
<1> HIDE DEF s
<1>10. Heard(r, s, x, u)
  BY <1>2, <1>3, <1>4, <1>9 DEF Heard, w, s
<1> QED
  BY <1>10 DEF s

\* How it ends.
LEMMA Closes ==
  ASSUME NEW r \in Talks, NEW heard \in Says \cup {Nothing}, NEW shown, NEW x \in Seq(Uttered), MindInv,
         talks[r].pc = "asking",
         talks' = [talks EXCEPT ![r].pc = "done", ![r].heard = heard, ![r].shown = shown],
         said' = [said EXCEPT ![talks[r].surface] = said[talks[r].surface] \o x],
         store' = [store EXCEPT ![talks[r].surface] = store[talks[r].surface] \o x],
         Numbered(said[talks[r].surface] \o x),
         heard # Nothing /\ Chat!Errors(heard, Chat!Engine(talks[r])) # {} =>
            shown = IF talks[r].via = "relay" THEN Chat!DegradedMessages(talks[r].surface) ELSE Nothing
  PROVE  \E u : Heard(r, talks[r].surface, x, u)
<1> DEFINE t == talks[r]
           u == Talk("done", t.surface, t.via, t.attempt, t.prompt, heard, shown)
<1>1. talks = [q \in Talks |-> talks[q]] /\ Talking(t)
  BY DEF MindInv
<1>2. WholeTalk(t)
  BY <1>1 DEF Talking
<1>3. talks' = [talks EXCEPT ![r] = u]
  <2>1. talks' = [talks EXCEPT ![r] = [[[t EXCEPT !.pc = "done"] EXCEPT !.heard = heard] EXCEPT !.shown = shown]]
    BY <1>1
  <2>2. [[[t EXCEPT !.pc = "done"] EXCEPT !.heard = heard] EXCEPT !.shown = shown] = u
    BY <1>2, Closing
  <2> QED
    BY <2>1, <2>2
<1>4. /\ u.pc = "done" /\ u.surface = t.surface /\ u.via = t.via /\ u.attempt = t.attempt /\ u.prompt = t.prompt
      /\ u.heard = heard /\ u.shown = shown /\ WholeTalk(u)
  BY DEF Talk, WholeTalk
<1> HIDE DEF u
<1>5. Chat!Engine(u) = Chat!Engine(t)
  BY <1>4 DEF Chat!Engine
<1>6. RefusedIsHidden(u)
  BY <1>4, <1>5 DEF RefusedIsHidden
<1>7. Talking(u)
  BY <1>1, <1>4, <1>6 DEF Talking
<1>8. Heard(r, t.surface, x, u)
  BY <1>3, <1>4, <1>7 DEF Heard
<1> QED
  BY <1>8

LEMMA Starting ==
  ASSUME NEW s, NEW via
  PROVE  [Chat!Idle EXCEPT !.surface = s, !.via = via] = Talk("idle", s, via, 0, <<>>, Nothing, Nothing)
<1> DEFINE u == [Chat!Idle EXCEPT !.surface = s, !.via = via]
           v == Talk("idle", s, via, 0, <<>>, Nothing, Nothing)
<1>1. IsOn(u, Fields) /\ IsOn(v, Fields)
  BY DEF Talk, Fields, IsOn, Chat!Idle
<1>2. \A i \in Fields : u[i] = v[i]
  <2>1. u.pc = v.pc /\ u.surface = v.surface /\ u.via = v.via
    BY DEF Talk, Chat!Idle
  <2>2. u.attempt = v.attempt /\ u.prompt = v.prompt /\ u.heard = v.heard /\ u.shown = v.shown
    BY DEF Talk, Chat!Idle
  <2> HIDE DEF u, v
  <2> QED
    BY <2>1, <2>2 DEF Fields
<1>3. u = v
  <2> HIDE DEF u, v
  <2> QED
    BY <1>1, <1>2, SameFunction
<1> QED
  BY <1>3

LEMMA Trying ==
  ASSUME NEW t, WholeTalk(t), NEW n
  PROVE  [t EXCEPT !.attempt = n] = Talk(t.pc, t.surface, t.via, n, t.prompt, t.heard, t.shown)
<1>1. PICK a, b, c, d, e, f, g : t = Talk(a, b, c, d, e, f, g)
  BY DEF WholeTalk
<1>2. t.pc = a /\ t.surface = b /\ t.via = c /\ t.prompt = e /\ t.heard = f /\ t.shown = g
  BY <1>1 DEF Talk
<1> DEFINE u == [Talk(a, b, c, d, e, f, g) EXCEPT !.attempt = n]
           v == Talk(a, b, c, n, e, f, g)
<1>3. IsOn(u, Fields) /\ IsOn(v, Fields)
  BY DEF Talk, Fields, IsOn
<1>4. \A i \in Fields : u[i] = v[i]
  <2>1. u.pc = v.pc /\ u.surface = v.surface /\ u.via = v.via
    BY DEF Talk
  <2>2. u.attempt = v.attempt /\ u.prompt = v.prompt /\ u.heard = v.heard /\ u.shown = v.shown
    BY DEF Talk
  <2> HIDE DEF u, v
  <2> QED
    BY <2>1, <2>2 DEF Fields
<1>5. u = v
  <2> HIDE DEF u, v
  <2> QED
    BY <1>3, <1>4, SameFunction
<1> QED
  BY <1>1, <1>2, <1>5, Zenon

LEMMA GenerateStep ==
  ASSUME MindInv, NEW r \in Talks, NEW s \in Surfaces, NEW via \in Vias, NEW size \in Sizes,
         Chat!Generate(r, s, via, size)
  PROVE  \E x, u : Heard(r, s, x, u)
<1> DEFINE t == [Chat!Idle EXCEPT !.surface = s, !.via = via]
           y == [role |-> "user", by |-> r, turn |-> Len(said[s]), size |-> size]
<1>1. t = Talk("idle", s, via, 0, <<>>, Nothing, Nothing)
  BY Starting
<1>2. /\ WholeTalk(t) /\ t.surface = s /\ t.via = via /\ t.attempt = 0 /\ t.heard = Nothing
  BY <1>1 DEF WholeTalk, Talk
<1>3. Chat!Send(r, t, <<y>>)
  BY DEF Chat!Generate
<1>4. Numbered(said[s]) /\ Len(said[s]) \in Nat
  BY DEF MindInv, Numbered
<1>5. y \in Uttered /\ y.turn = Len(said[s])
  <2>1. size \in Nat
    BY TalksAssumption
  <2> QED
    BY <1>4, <2>1, Utterance
<1> HIDE DEF t, y
<1>6. <<y>> \in Seq(Uttered) /\ Numbered(said[s] \o <<y>>)
  BY <1>4, <1>5, NumberedOne
<1>7. t.attempt \in 0 .. MaxRetries
  BY <1>2, TalksAssumption
<1>8. \E u : Heard(r, t.surface, <<y>>, u)
  BY <1>2, <1>3, <1>6, <1>7, Asks
<1> QED
  BY <1>2, <1>8

LEMMA RetryStep ==
  ASSUME MindInv, NEW r \in Talks, NEW text \in Says, Chat!Retry(r, text)
  PROVE  \E s \in Surfaces : \E x, u : Heard(r, s, x, u)
<1> DEFINE t == [talks[r] EXCEPT !.attempt = @ + 1]
           s == talks[r].surface
           y == Chat!Reply(r)
           z == Chat!Feedback(r)
<1>1. talks[r].pc = "asking" /\ talks[r].attempt < MaxRetries /\ Chat!Send(r, t, <<y, z>>)
  BY DEF Chat!Retry
<1>2. Talking(talks[r]) /\ WholeTalk(talks[r])
  BY DEF MindInv, Talking
<1>3. s \in Surfaces /\ talks[r].via \in Vias /\ talks[r].attempt \in 0 .. MaxRetries /\ talks[r].heard \in Says \cup {Nothing}
  BY <1>1, <1>2 DEF Talking
<1>4. t = Talk("asking", s, talks[r].via, talks[r].attempt + 1, talks[r].prompt, talks[r].heard, talks[r].shown)
  <2>1. [talks[r] EXCEPT !.attempt = talks[r].attempt + 1]
          = Talk(talks[r].pc, s, talks[r].via, talks[r].attempt + 1, talks[r].prompt, talks[r].heard, talks[r].shown)
    BY <1>2, Trying
  <2> QED
    BY <1>1, <2>1
<1>5. WholeTalk(t) /\ t.surface = s /\ t.via = talks[r].via /\ t.attempt = talks[r].attempt + 1 /\ t.heard = talks[r].heard
  BY <1>4 DEF WholeTalk, Talk
<1>6. Numbered(said[s]) /\ Len(said[s]) \in Nat
  BY <1>3 DEF MindInv, Numbered
<1>7. y \in Uttered /\ y.turn = Len(said[s]) /\ z \in Uttered /\ z.turn = Len(said[s]) + 1
  BY <1>6, TalksAssumption, Utterance DEF Chat!Reply, Chat!Feedback
<1> HIDE DEF t, y, z, s
<1>8. <<y, z>> \in Seq(Uttered) /\ Numbered(said[s] \o <<y, z>>)
  BY <1>6, <1>7, NumberedTwo
<1>9. t.attempt \in 0 .. MaxRetries
  BY <1>1, <1>3, <1>5, TalksAssumption
<1>10. \E u : Heard(r, t.surface, <<y, z>>, u)
  BY <1>1, <1>3, <1>5, <1>8, <1>9, Asks
<1> QED
  BY <1>3, <1>5, <1>10

\* What is added to a conversation that nothing is added to.
LEMMA NoModelStep ==
  ASSUME MindInv, NEW r \in Talks, Chat!NoModel(r)
  PROVE  \E s \in Surfaces : \E x, u : Heard(r, s, x, u)
<1> DEFINE s == talks[r].surface
           came == Chat!Degraded(talks[r].attempt, Nothing)
<1>1. talks[r].pc = "asking" /\ store' = store /\ said' = said
  BY DEF Chat!NoModel
<1>2. talks' = [talks EXCEPT ![r].pc = "done", ![r].heard = came.text, ![r].shown = Chat!Shown(talks[r], came)]
  BY DEF Chat!NoModel, Chat!Finish
<1>3. came.text = Nothing
  BY DEF Chat!Degraded
<1>4. s \in Surfaces
  BY <1>1 DEF MindInv, Talking
<1>5. Numbered(said[s]) /\ said[s] \in Seq(Uttered) /\ store[s] \in Seq(Stored)
  BY <1>4 DEF MindInv, Numbered, Tailed
<1> HIDE DEF came
<1>6. said[s] \o <<>> = said[s] /\ store[s] \o <<>> = store[s] /\ <<>> \in Seq(Uttered)
  BY <1>5
<1>7. said' = [said EXCEPT ![s] = said[s] \o <<>>] /\ store' = [store EXCEPT ![s] = store[s] \o <<>>]
  BY <1>1, <1>4, <1>6 DEF MindInv
<1>8. Numbered(said[s] \o <<>>)
  BY <1>5, <1>6
<1>9. \E u : Heard(r, s, <<>>, u)
  BY <1>1, <1>2, <1>3, <1>6, <1>7, <1>8, Closes
<1> QED
  BY <1>4, <1>9

\* A last reply, whether it was accepted or not.
LEMMA LastReply ==
  ASSUME MindInv, NEW r \in Talks, NEW text \in Says, NEW shown,
         talks[r].pc = "asking", Chat!Converse(talks[r].surface, <<Chat!Reply(r)>>, FALSE),
         talks' = [talks EXCEPT ![r].pc = "done", ![r].heard = text, ![r].shown = shown],
         Chat!Errors(text, Chat!Engine(talks[r])) # {} =>
            shown = IF talks[r].via = "relay" THEN Chat!DegradedMessages(talks[r].surface) ELSE Nothing
  PROVE  \E s \in Surfaces : \E x, u : Heard(r, s, x, u)
<1> DEFINE s == talks[r].surface
           y == Chat!Reply(r)
<1>1. s \in Surfaces
  BY DEF MindInv, Talking
<1>2. Numbered(said[s]) /\ Len(said[s]) \in Nat
  BY <1>1 DEF MindInv, Numbered
<1>3. y \in Uttered /\ y.turn = Len(said[s])
  BY <1>2, TalksAssumption, Utterance DEF Chat!Reply
<1>4. store' = [store EXCEPT ![s] = store[s] \o <<y>>] /\ said' = [said EXCEPT ![s] = said[s] \o <<y>>]
  BY DEF Chat!Converse
<1> HIDE DEF y
<1>5. <<y>> \in Seq(Uttered) /\ Numbered(said[s] \o <<y>>)
  BY <1>2, <1>3, NumberedOne
<1>6. \E u : Heard(r, s, <<y>>, u)
  BY <1>4, <1>5, Closes
<1> QED
  BY <1>1, <1>6

LEMMA AcceptStep ==
  ASSUME MindInv, NEW r \in Talks, NEW text \in Says, Chat!Accept(r, text)
  PROVE  \E s \in Surfaces : \E x, u : Heard(r, s, x, u)
<1> DEFINE came == Chat!Generated(talks[r].attempt, text)
           shown == Chat!Shown(talks[r], came)
<1>1. /\ talks[r].pc = "asking" /\ Chat!Converse(talks[r].surface, <<Chat!Reply(r)>>, FALSE)
      /\ Chat!Errors(text, Chat!Engine(talks[r])) = {}
      /\ talks' = [talks EXCEPT ![r].pc = "done", ![r].heard = came.text, ![r].shown = shown]
  BY DEF Chat!Accept, Chat!Finish
<1>2. came.text = text
  BY DEF Chat!Generated
<1> HIDE DEF came, shown
<1> QED
  BY <1>1, <1>2, LastReply

LEMMA GiveUpStep ==
  ASSUME MindInv, NEW r \in Talks, NEW text \in Says, Chat!GiveUp(r, text)
  PROVE  \E s \in Surfaces : \E x, u : Heard(r, s, x, u)
<1> DEFINE came == Chat!Degraded(talks[r].attempt, text)
           shown == Chat!Shown(talks[r], came)
<1>1. /\ talks[r].pc = "asking" /\ Chat!Converse(talks[r].surface, <<Chat!Reply(r)>>, FALSE)
      /\ talks' = [talks EXCEPT ![r].pc = "done", ![r].heard = came.text, ![r].shown = shown]
  BY DEF Chat!GiveUp, Chat!Finish
<1>2. came.text = text /\ came.degraded
  BY DEF Chat!Degraded
<1>3. talks[r].via \in Vias
  BY <1>1 DEF MindInv, Talking
<1> HIDE DEF came
<1>4. shown = IF talks[r].via = "relay" THEN Chat!DegradedMessages(talks[r].surface) ELSE Nothing
  BY <1>2, <1>3 DEF Vias, Chat!Shown, Chat!RelayMessages, Chat!ScreenText, Chat!FlowSteps
<1> HIDE DEF shown
<1> QED
  BY <1>1, <1>2, <1>4, LastReply

\* Every step of the generator is one of a call on its surface.
LEMMA MindStep ==
  ASSUME MindInv, Chat!MindNext
  PROVE  \E r \in Talks : \E s \in Surfaces : \E x, u : Heard(r, s, x, u)
<1>1. PICK r \in Talks :
        \/ \E s \in Surfaces, via \in {"relay", "screen", "flow"}, size \in Sizes : Chat!Generate(r, s, via, size)
        \/ Chat!NoModel(r)
        \/ \E text \in Says : Chat!Accept(r, text) \/ Chat!Retry(r, text) \/ Chat!GiveUp(r, text)
  BY DEF Chat!MindNext
<1>2. CASE \E s \in Surfaces, via \in {"relay", "screen", "flow"}, size \in Sizes : Chat!Generate(r, s, via, size)
  <2>1. PICK s \in Surfaces, via \in Vias, size \in Sizes : Chat!Generate(r, s, via, size)
    BY <1>2 DEF Vias
  <2> QED
    BY <2>1, GenerateStep
<1>3. CASE Chat!NoModel(r)
  BY <1>3, NoModelStep
<1>4. CASE \E text \in Says : Chat!Accept(r, text) \/ Chat!Retry(r, text) \/ Chat!GiveUp(r, text)
  BY <1>4, AcceptStep, RetryStep, GiveUpStep
<1> QED
  BY <1>1, <1>2, <1>3, <1>4

\* A stretch of a conversation is one of the conversation that goes on.
LEMMA StretchStays ==
  ASSUME NEW p, NEW c \in Seq(Uttered), NEW x \in Seq(Uttered), Stretch(p, c)
  PROVE  Stretch(p, c \o x)
<1>1. Len(c \o x) = Len(c) + Len(x) /\ Len(c) \in Nat /\ Len(x) \in Nat
  OBVIOUS
<1>2. ASSUME Len(p) > 1
      PROVE  First(p) + Len(p) - 2 <= Len(c \o x) /\ \A i \in 2 .. Len(p) : p[i] = (c \o x)[First(p) + i - 2]
  <2>1. /\ First(p) \in Nat \ {0} /\ First(p) + Len(p) - 2 <= Len(c)
        /\ \A i \in 2 .. Len(p) : p[i] = c[First(p) + i - 2]
    BY <1>2 DEF Stretch
  <2>2. Len(p) \in Nat
    BY DEF Stretch
  <2>3. ASSUME NEW i \in 2 .. Len(p) PROVE p[i] = (c \o x)[First(p) + i - 2]
    <3>1. First(p) + i - 2 \in 1 .. Len(c)
      <4> DEFINE a == First(p)
                 n == Len(p)
      <4>1. a \in Nat \ {0} /\ n \in Nat /\ a + n - 2 <= Len(c) /\ i \in 2 .. n
        BY <2>1, <2>2
      <4> HIDE DEF a, n
      <4>2. a + i - 2 \in 1 .. Len(c)
        BY <1>1, <4>1
      <4> QED
        BY <4>2 DEF a
    <3>2. (c \o x)[First(p) + i - 2] = c[First(p) + i - 2]
      BY <3>1
    <3> QED
      BY <2>1, <3>2
  <2>4. First(p) + Len(p) - 2 <= Len(c \o x)
    <3> DEFINE b == First(p) + Len(p) - 2
    <3>1. b \in Int /\ b <= Len(c)
      BY <2>1, <2>2
    <3> HIDE DEF b
    <3>2. b <= Len(c \o x)
      BY <1>1, <3>1
    <3> QED
      BY <3>2 DEF b
  <2> QED
    BY <2>3, <2>4
<1> QED
  BY <1>2 DEF Stretch

LEMMA MindKept ==
  ASSUME MindInv, NEW r \in Talks, NEW s \in Surfaces, NEW x, NEW t, Heard(r, s, x, t)
  PROVE  MindInv'
<1>1. Numbered(said[s]) /\ Tailed(store[s], said[s]) /\ said[s] \in Seq(Uttered) /\ x \in Seq(Uttered)
  BY DEF MindInv, Numbered, Heard
<1>2. talks' = [talks EXCEPT ![r] = t] /\ Talking(t) /\ t.surface = s /\ t.pc # "idle"
  BY DEF Heard
<1>3. talks = [q \in Talks |-> talks[q]] /\ store = [q \in Surfaces |-> store[q]] /\ said = [q \in Surfaces |-> said[q]]
  BY DEF MindInv
<1>4. talks' = [q \in Talks |-> talks'[q]] /\ \A q \in Talks : talks'[q] = IF q = r THEN t ELSE talks[q]
  BY <1>2, <1>3
<1>5. said' = [said EXCEPT ![s] = said[s] \o x]
  BY DEF Heard
<1>6. said' = [q \in Surfaces |-> said'[q]] /\ \A q \in Surfaces : said'[q] = IF q = s THEN said[s] \o x ELSE said[q]
  BY <1>3, <1>5
<1>7. PICK y : store' = [store EXCEPT ![s] = y] /\ (y = store[s] \o x \/ y = Chat!Pruned(store[s] \o x))
  BY DEF Heard
<1>8. store' = [q \in Surfaces |-> store'[q]] /\ \A q \in Surfaces : store'[q] = IF q = s THEN y ELSE store[q]
  BY <1>3, <1>7
<1>9. Tailed(store[s] \o x, said[s] \o x) /\ said[s] \o x \in Seq(Uttered) /\ Numbered(said[s] \o x)
  BY <1>1, TailedLonger DEF Heard
<1>10. Tailed(y, said[s] \o x)
  BY <1>7, <1>9, TailedPruned
<1>11. ASSUME NEW q \in Surfaces PROVE Numbered(said'[q]) /\ Tailed(store'[q], said'[q])
  BY <1>6, <1>8, <1>9, <1>10 DEF MindInv
<1>12. ASSUME NEW q \in Talks PROVE Talking(talks'[q])
  BY <1>2, <1>4 DEF MindInv
<1>13. ASSUME NEW q \in Talks, talks'[q].pc = "asking" PROVE Stretch(talks'[q].prompt, said'[talks'[q].surface])
  <2>1. CASE q = r
    <3>1. talks'[q] = t /\ t.prompt = Chat!WindowOf(store[s] \o x)
      BY <1>4, <1>13, <2>1 DEF Heard
    <3>2. Stretch(t.prompt, said[s] \o x)
      BY <1>9, <3>1, WindowIsStretch
    <3> QED
      BY <1>2, <1>6, <3>1, <3>2
  <2>2. CASE q # r
    <3>1. talks'[q] = talks[q] /\ talks[q].pc = "asking"
      BY <1>4, <1>13, <2>2
    <3>2. talks[q].surface \in Surfaces /\ Stretch(talks[q].prompt, said[talks[q].surface])
      BY <3>1 DEF MindInv, Talking
    <3>3. CASE talks[q].surface = s
      <4>1. Stretch(talks[q].prompt, said[s])
        BY <3>2, <3>3
      <4>2. Stretch(talks[q].prompt, said[s] \o x)
        BY <1>1, <4>1, StretchStays
      <4> QED
        BY <1>6, <3>1, <3>3, <4>2
    <3>4. CASE talks[q].surface # s
      BY <1>6, <3>1, <3>2, <3>4
    <3> QED
      BY <3>3, <3>4
  <2> QED
    BY <2>1, <2>2
<1> QED
  BY <1>4, <1>6, <1>8, <1>11, <1>12, <1>13 DEF MindInv

LEMMA MindStarts == Chat!MindInit => MindInv
<1> SUFFICES ASSUME Chat!MindInit PROVE MindInv
  OBVIOUS
<1>1. Chat!Idle = Talk("idle", Nothing, Nothing, 0, <<>>, Nothing, Nothing)
  BY DEF Chat!Idle, Talk
<1>2. Chat!Idle.pc = "idle" /\ Talking(Chat!Idle)
  <2>1. /\ Chat!Idle.pc = "idle" /\ Chat!Idle.surface = Nothing /\ Chat!Idle.via = Nothing /\ Chat!Idle.attempt = 0
        /\ Chat!Idle.prompt = <<>> /\ Chat!Idle.heard = Nothing /\ Chat!Idle.shown = Nothing
    BY DEF Chat!Idle
  <2>2. 0 \in 0 .. MaxRetries
    BY TalksAssumption
  <2>3. WholeTalk(Chat!Idle)
    BY <1>1, <2>1 DEF WholeTalk
  <2>4. <<>> \in Seq(Stored)
    OBVIOUS
  <2> QED
    BY <2>1, <2>2, <2>3, <2>4 DEF Talking, RefusedIsHidden
<1>3. talks = [r \in Talks |-> talks[r]] /\ \A r \in Talks : talks[r] = Chat!Idle
  BY DEF Chat!MindInit
<1>4. /\ store = [s \in Surfaces |-> store[s]] /\ said = [s \in Surfaces |-> said[s]]
      /\ \A s \in Surfaces : store[s] = <<>> /\ said[s] = <<>>
  BY DEF Chat!MindInit
<1>5. Numbered(<<>>) /\ Tailed(<<>>, <<>>)
  <2>1. <<>> \in Seq(Uttered) /\ <<>> \in Seq(Stored) /\ Len(<<>>) = 0
    OBVIOUS
  <2>2. TailedAt(<<>>, <<>>, 0)
    BY <2>1 DEF TailedAt
  <2> QED
    BY <2>1, <2>2 DEF Numbered, Tailed
<1> QED
  BY <1>2, <1>3, <1>4, <1>5 DEF MindInv

LEMMA MindAlways == RuntimeSpec => []MindInv
<1>1. RuntimeInit => MindInv
  BY MindStarts DEF RuntimeInit
<1>2. MindInv /\ [RuntimeNext]_runtimeVars => MindInv'
  <2> SUFFICES ASSUME MindInv, [RuntimeNext]_runtimeVars PROVE MindInv'
    OBVIOUS
  <2>1. Chat!MindNext \/ UNCHANGED mindVars
    BY DEF RuntimeNext, runtimeVars, ExecutorTurn, FlowTurn, MigrationsTurn, MindTurn, DefinitionsTurn
  <2>2. CASE Chat!MindNext
    BY <2>2, MindStep, MindKept
  <2>3. CASE UNCHANGED mindVars
    BY <2>3 DEF mindVars, MindInv
  <2> QED
    BY <2>1, <2>2, <2>3
<1> QED
  BY <1>1, <1>2, PTL DEF RuntimeSpec

LEMMA MindTyped == MindInv => Chat!TypeOK
<1> SUFFICES ASSUME MindInv PROVE Chat!TypeOK
  OBVIOUS
<1>1. store \in [Surfaces -> Seq(Chat!Message({"system", "user", "assistant"}))]
  <2>1. \A s \in Surfaces : store[s] \in Seq(Stored)
    BY DEF MindInv, Tailed
  <2> QED
    BY <2>1 DEF MindInv, Stored, Everyone
<1>2. said \in [Surfaces -> Seq(Chat!Message({"user", "assistant"}))]
  <2>1. \A s \in Surfaces : said[s] \in Seq(Uttered)
    BY DEF MindInv, Numbered
  <2> QED
    BY <2>1 DEF MindInv, Uttered
<1>3. \A r \in Talks : Talking(talks[r])
  BY DEF MindInv
<1> QED
  BY <1>1, <1>2, <1>3 DEF Chat!TypeOK, Talking, Vias, Stored, Everyone

\* Whatever calls interleave on a surface, its conversation keeps its end, and
\* each model was sent the prompt with an unbroken stretch that fits.
THEOREM NeverAHole == RuntimeSpec => []NoHoles
<1>1. MindInv => NoHoles
  <2> SUFFICES ASSUME MindInv PROVE Chat!NoHoles
    BY DEF NoHoles
  <2>1. ASSUME NEW s \in Surfaces PROVE Chat!IsSuffix(Chat!Spoken(store[s]), said[s])
    <3> DEFINE m == store[s]
               c == said[s]
    <3>1. c \in Seq(Uttered) /\ m \in Seq(Stored) /\ \E k : TailedAt(m, c, k)
      BY DEF MindInv, Numbered, Tailed
    <3> HIDE DEF m, c
    <3>2. PICK k : TailedAt(m, c, k)
      BY <3>1
    <3>3. /\ Chat!Spoken(m) \in Seq(Stored) /\ Len(Chat!Spoken(m)) = Len(m) - k
          /\ \A i \in 1 .. Len(m) - k : Chat!Spoken(m)[i] = m[k + i]
      BY <3>1, <3>2, Parts
    <3>4. /\ k \in Nat /\ k <= Len(m) /\ Len(m) \in Nat /\ Len(c) \in Nat /\ Len(m) - k <= Len(c)
          /\ \A i \in k + 1 .. Len(m) : m[i] = c[Len(c) - Len(m) + i]
      BY <3>1, <3>2 DEF TailedAt
    <3>5. ASSUME NEW i \in 1 .. Len(Chat!Spoken(m))
          PROVE  Chat!Spoken(m)[i] = c[Len(c) - Len(Chat!Spoken(m)) + i]
      <4>1. i \in 1 .. Len(m) - k /\ k + i \in k + 1 .. Len(m)
        BY <3>3, <3>4
      <4>2. Chat!Spoken(m)[i] = c[Len(c) - Len(m) + (k + i)]
        BY <3>3, <3>4, <4>1
      <4>3. Len(c) - Len(m) + (k + i) = Len(c) - Len(Chat!Spoken(m)) + i
        BY <3>3, <3>4, <4>1
      <4> QED
        BY <4>2, <4>3
    <3>6. Chat!IsSuffix(Chat!Spoken(m), c)
      BY <3>1, <3>3, <3>4, <3>5, SuffixOf
    <3> QED
      BY <3>6 DEF m, c
  <2>2. ASSUME NEW r \in Talks, talks[r].pc = "asking"
        PROVE  /\ Head(talks[r].prompt) = Chat!SystemPrompt
               /\ Len(talks[r].prompt) > 1 =>
                     /\ Tail(talks[r].prompt) = SubSeq(said[talks[r].surface], First(talks[r].prompt),
                                                       First(talks[r].prompt) + Len(talks[r].prompt) - 2)
                     /\ Chat!Total(talks[r].prompt) + Reserve <= Window
    <3> DEFINE p == talks[r].prompt
               c == said[talks[r].surface]
    <3>1. Stretch(p, c) /\ c \in Seq(Uttered)
      BY <2>2 DEF MindInv, Talking, Numbered
    <3> HIDE DEF p, c
    <3>2. p \in Seq(Stored) /\ Len(p) >= 1 /\ p[1] = Chat!SystemPrompt /\ Head(p) = p[1]
      BY <3>1 DEF Stretch
    <3>3. ASSUME Len(p) > 1
          PROVE  Tail(p) = SubSeq(c, First(p), First(p) + Len(p) - 2) /\ Chat!Total(p) + Reserve <= Window
      <4>1. /\ First(p) \in Nat \ {0} /\ First(p) + Len(p) - 2 <= Len(c)
            /\ \A i \in 2 .. Len(p) : p[i] = c[First(p) + i - 2]
            /\ Chat!Total(p) + Reserve <= Window
        BY <3>1, <3>3 DEF Stretch
      <4> DEFINE t == Tail(p)
                 u == SubSeq(c, First(p), First(p) + Len(p) - 2)
      <4>2. t \in Seq(Stored) /\ Len(t) = Len(p) - 1 /\ \A i \in 1 .. Len(p) - 1 : t[i] = p[i + 1]
        BY <3>2, <3>3
      <4>3. u \in Seq(Uttered) /\ Len(u) = Len(p) - 1 /\ \A i \in 1 .. Len(p) - 1 : u[i] = c[First(p) + i - 1]
        <5> DEFINE a == First(p)
                   b == First(p) + Len(p) - 2
        <5>1. a \in Nat \ {0} /\ b \in Nat /\ b <= Len(c) /\ b - a + 1 = Len(p) - 1 /\ Len(p) - 1 \in Nat /\ a <= b
          BY <3>2, <3>3, <4>1
        <5> HIDE DEF a, b
        <5>2. SubSeq(c, a, b) \in Seq(Uttered) /\ Len(SubSeq(c, a, b)) = b - a + 1
          BY <3>1, <5>1
        <5>3. \A i \in 1 .. b - a + 1 : SubSeq(c, a, b)[i] = c[a + i - 1]
          BY <3>1, <5>1
        <5> QED
          BY <5>1, <5>2, <5>3 DEF a, b
      <4>4. ASSUME NEW i \in 1 .. Len(p) - 1 PROVE t[i] = u[i]
        <5>1. i + 1 \in 2 .. Len(p) /\ First(p) + (i + 1) - 2 = First(p) + i - 1
          BY <3>2, <4>1
        <5> QED
          BY <4>1, <4>2, <4>3, <5>1
      <4> HIDE DEF t, u
      <4>5. t = u
        BY <4>2, <4>3, <4>4
      <4> QED
        BY <4>1, <4>5 DEF t, u
    <3> QED
      BY <3>2, <3>3 DEF p, c
  <2> QED
    BY <2>1, <2>2 DEF Chat!NoHoles, First
<1> QED
  BY <1>1, MindAlways, PTL

\* A text that failed its validation reaches no screen, no flow and no relay.
THEOREM OnlyValidShown == RuntimeSpec => []OnlyValidIsShown
<1>1. MindInv => OnlyValidIsShown
  BY DEF MindInv, Talking, RefusedIsHidden, OnlyValidIsShown, Chat!OnlyValidIsShown
<1> QED
  BY <1>1, MindAlways, PTL

-------------------------------------------------------------------------------
(* The migrations: every schema they make is one. *)

Grants == Database!AllTables \X Database!Privileges
Rules == Database!AllTables \X Database!Policies

LEMMA Tables ==
  /\ Database!AuthTablesOf \subseteq Database!AllTables /\ Database!BusinessTables \subseteq Database!AllTables
  /\ Database!TenantTables \subseteq Database!AllTables /\ {"flow_pending_delays"} \subseteq Database!AllTables
  /\ "users" \in Database!AllTables /\ "audit_logs" \in Database!AllTables /\ "refresh_tokens" \in Database!AllTables
BY DEF Database!AuthTablesOf, Database!BusinessTables, Database!AllTables, Database!TenantTables

LEMMA Granted ==
  /\ \A T \in SUBSET Database!AllTables : T \X Database!DML \subseteq Grants
  /\ {"audit_logs"} \X {"SELECT", "INSERT"} \subseteq Grants
BY Tables DEF Grants, Database!DML, Database!Privileges

LEMMA Ruled ==
  /\ {<<"users", "user_tenant_isolation">>} \subseteq Rules
  /\ Database!TenantTables \X {"tenant_isolation"} \subseteq Rules
BY Tables DEF Rules, Database!Policies

LEMMA InSchemas ==
  ASSUME NEW s \in Database!Schemas
  PROVE  /\ s.tables \subseteq Database!AllTables /\ s.rls \subseteq Database!AllTables /\ s.forced \subseteq Database!AllTables
         /\ s.policies \subseteq Rules /\ s.may \subseteq Grants /\ s.defaults \subseteq {"tables", "sequences"}
         /\ s.role \in BOOLEAN /\ s.columns \subseteq Database!Columns
BY DEF Database!Schemas, Rules, Grants

LEMMA Columned ==
  ASSUME NEW s \in Database!Schemas, NEW column
  PROVE  /\ column \in Database!Columns => Database!Add(s, column) \in Database!Schemas
         /\ Database!Remove(s, column) \in Database!Schemas
<1> DEFINE more == s.columns \cup {column}
           fewer == s.columns \ {column}
<1>1. fewer \subseteq Database!Columns /\ (column \in Database!Columns => more \subseteq Database!Columns)
  BY InSchemas
<1>2. Database!Add(s, column) = [s EXCEPT !.columns = more] /\ Database!Remove(s, column) = [s EXCEPT !.columns = fewer]
  BY DEF Database!Add, Database!Remove
<1> HIDE DEF more, fewer
<1> QED
  BY <1>1, <1>2 DEF Database!Schemas

LEMMA Created ==
  ASSUME NEW s \in Database!Schemas, NEW new, new \subseteq Database!AllTables
  PROVE  Database!Create(s, new) \in Database!Schemas
<1> DEFINE tables == s.tables \cup new
           may == s.may \cup (IF "tables" \in s.defaults THEN (new \ s.tables) \X Database!DML ELSE {})
<1>1. tables \subseteq Database!AllTables
  BY InSchemas
<1>2. may \subseteq Grants
  <2>1. new \ s.tables \in SUBSET Database!AllTables
    OBVIOUS
  <2>2. (new \ s.tables) \X Database!DML \subseteq Grants
    BY <2>1, Granted
  <2> QED
    BY <2>2, InSchemas
<1>3. Database!Create(s, new) = [s EXCEPT !.tables = tables, !.may = may]
  BY DEF Database!Create
<1> HIDE DEF tables, may
<1> QED
  BY <1>1, <1>2, <1>3 DEF Database!Schemas, Grants

LEMMA Dropped ==
  ASSUME NEW s \in Database!Schemas, NEW old
  PROVE  Database!Drop(s, old) \in Database!Schemas
<1> DEFINE policies == {p \in s.policies : p[1] \notin old}
           may == {p \in s.may : p[1] \notin old}
           tables == s.tables \ old
           rls == s.rls \ old
           forced == s.forced \ old
<1>1. policies \subseteq Rules /\ may \subseteq Grants
  BY InSchemas
<1>2. Database!Drop(s, old) = [s EXCEPT !.tables = tables, !.rls = rls, !.forced = forced, !.policies = policies, !.may = may]
  BY DEF Database!Drop
<1>3. tables \subseteq Database!AllTables /\ rls \subseteq Database!AllTables /\ forced \subseteq Database!AllTables
  BY InSchemas
<1> HIDE DEF policies, may, tables, rls, forced
<1>4. [s EXCEPT !.tables = tables, !.rls = rls, !.forced = forced] \in Database!Schemas
  BY <1>3 DEF Database!Schemas
<1>5. [[s EXCEPT !.tables = tables, !.rls = rls, !.forced = forced] EXCEPT !.policies = policies, !.may = may] \in Database!Schemas
  <2> DEFINE t == [s EXCEPT !.tables = tables, !.rls = rls, !.forced = forced]
  <2>1. t \in Database!Schemas
    BY <1>4
  <2> HIDE DEF t
  <2>2. [t EXCEPT !.policies = policies, !.may = may] \in Database!Schemas
    BY <1>1, <2>1 DEF Database!Schemas, Grants, Rules
  <2> QED
    BY <2>2 DEF t
<1> QED
  BY <1>2, <1>5

LEMMA UpTyped ==
  ASSUME NEW n \in 0 .. Database!Last, NEW s \in Database!Schemas
  PROVE  Database!Up(n, s) \in Database!Schemas
<1>1. CASE n = 1
  <2> DEFINE t == Database!Create(s, Database!AuthTablesOf)
             rls == t.rls \cup {"users"}
             policies == t.policies \cup {<<"users", "user_tenant_isolation">>}
  <2>1. t \in Database!Schemas
    BY Created, Tables
  <2>2. Database!Up(n, s) = [t EXCEPT !.rls = rls, !.policies = policies]
    BY <1>1 DEF Database!Up, Database!AuthTables
  <2> HIDE DEF t
  <2>3. rls \subseteq Database!AllTables /\ policies \subseteq Rules
    BY <2>1, InSchemas, Tables, Ruled
  <2> HIDE DEF rls, policies
  <2> DEFINE u == [t EXCEPT !.rls = rls]
  <2>4. u \in Database!Schemas
    BY <2>1, <2>3 DEF Database!Schemas
  <2>5. Database!Up(n, s) = [u EXCEPT !.policies = policies]
    BY <2>2
  <2> HIDE DEF u
  <2> QED
    BY <2>3, <2>4, <2>5 DEF Database!Schemas, Rules
<1>2. CASE n \in {2, 3, 6, 9}
  <2>1. {"tenants.config", "app.current_tenant_id", "config.abac_rules", "tenants.handle"} \subseteq Database!Columns
    BY DEF Database!Columns
  <2>2. \A column \in {"tenants.config", "app.current_tenant_id", "config.abac_rules", "tenants.handle"} :
           Database!Add(s, column) \in Database!Schemas
    BY <2>1, Columned
  <2>3. n = 2 => Database!Up(n, s) = Database!Add(s, "tenants.config")
    BY DEF Database!Up, Database!TenantRoles
  <2>4. n = 3 => Database!Up(n, s) = Database!Add(s, "app.current_tenant_id")
    BY DEF Database!Up, Database!TenantIdDefault
  <2>5. n = 6 => Database!Up(n, s) = Database!Add(s, "config.abac_rules")
    BY DEF Database!Up, Database!TenantAbacRules
  <2>6. n = 9 => Database!Up(n, s) = Database!Add(s, "tenants.handle")
    BY DEF Database!Up, Database!AddTenantHandleNetwork
  <2> QED
    BY <1>2, <2>2, <2>3, <2>4, <2>5, <2>6
<1>8. CASE n = 8
  <2> DEFINE new == {"workflow_states.triggered_by", "workflow_states.entity_id NULL", "workflow_states.history JSONB"}
             columns == s.columns \cup new
  <2>1. columns \subseteq Database!Columns
    BY InSchemas DEF Database!Columns
  <2>2. Database!Up(n, s) = [s EXCEPT !.columns = columns]
    BY <1>8 DEF Database!Up, Database!WorkflowExecutor
  <2> HIDE DEF columns
  <2> QED
    BY <2>1, <2>2 DEF Database!Schemas
<1>3. CASE n = 4
  <2> DEFINE t == Database!Create(s, Database!BusinessTables)
             rls == t.rls \cup Database!TenantTables
             forced == t.forced \cup Database!TenantTables
             policies == (t.policies \ {<<"users", "user_tenant_isolation">>}) \cup (Database!TenantTables \X {"tenant_isolation"})
  <2>1. t \in Database!Schemas
    BY Created, Tables
  <2>2. Database!Up(n, s) = [t EXCEPT !.rls = rls, !.forced = forced, !.policies = policies]
    BY <1>3 DEF Database!Up, Database!RlsPolicies
  <2> HIDE DEF t
  <2>3. rls \subseteq Database!AllTables /\ forced \subseteq Database!AllTables /\ policies \subseteq Rules
    BY <2>1, InSchemas, Tables, Ruled
  <2> HIDE DEF rls, policies, forced
  <2> DEFINE u == [t EXCEPT !.rls = rls, !.forced = forced]
  <2>4. u \in Database!Schemas
    BY <2>1, <2>3 DEF Database!Schemas
  <2>5. Database!Up(n, s) = [u EXCEPT !.policies = policies]
    BY <2>2
  <2> HIDE DEF u
  <2> QED
    BY <2>3, <2>4, <2>5 DEF Database!Schemas, Rules
<1>4. CASE n = 5
  <2> DEFINE may == s.may \cup ((s.tables \ {"audit_logs"}) \X Database!DML) \cup ({"audit_logs"} \X {"SELECT", "INSERT"})
  <2>1. Database!Up(n, s) = [s EXCEPT !.role = TRUE, !.may = may, !.defaults = {"tables", "sequences"}]
    BY <1>4 DEF Database!Up, Database!RlsAppUser
  <2>2. may \subseteq Grants
    <3>1. s.tables \ {"audit_logs"} \in SUBSET Database!AllTables
      BY InSchemas
    <3> QED
      BY <3>1, InSchemas, Granted
  <2> HIDE DEF may
  <2> QED
    BY <2>1, <2>2 DEF Database!Schemas, Grants
<1>5. CASE n = 7
  <2> DEFINE may == (s.may \ ({"audit_logs"} \X {"UPDATE", "DELETE", "TRUNCATE"})) \cup ({"audit_logs"} \X {"SELECT", "INSERT"})
  <2>1. Database!Up(n, s) = [s EXCEPT !.may = may]
    BY <1>5 DEF Database!Up, Database!AuditLogPolicies
  <2>2. may \subseteq Grants
    BY InSchemas, Granted
  <2> HIDE DEF may
  <2> QED
    BY <2>1, <2>2 DEF Database!Schemas, Grants
<1>6. CASE n = 10
  BY <1>6, Created, Tables DEF Database!Up, Database!CreateFlowPendingDelays
<1>7. CASE n = 0
  BY <1>7 DEF Database!Up
<1> QED
  BY <1>1, <1>2, <1>3, <1>4, <1>5, <1>6, <1>7, <1>8 DEF Database!Last

LEMMA DownTyped ==
  ASSUME NEW n \in 0 .. Database!Last, NEW s \in Database!Schemas
  PROVE  Database!Down(n, s) \in Database!Schemas
<1>1. CASE n \in {1, 10}
  BY <1>1, Dropped DEF Database!Down, Database!UndoAuthTables, Database!UndoFlowPendingDelays
<1>2. CASE n \in {2, 3, 6, 9}
  BY <1>2, Columned DEF Database!Down, Database!UndoTenantRoles, Database!UndoTenantIdDefault, Database!UndoTenantAbacRules,
                        Database!UndoTenantHandleNetwork
<1>3. CASE n = 4
  <2> DEFINE t == Database!Drop(s, Database!BusinessTables)
  <2>1. t \in Database!Schemas
    BY Dropped
  <2> DEFINE policies == {<<"users", "user_tenant_isolation">>}
  <2>2. Database!Down(n, s) = [t EXCEPT !.rls = {"users"}, !.policies = policies]
    BY <1>3 DEF Database!Down, Database!UndoRlsPolicies
  <2>3. {"users"} \subseteq Database!AllTables /\ policies \subseteq Rules
    BY Tables, Ruled
  <2> HIDE DEF t, policies
  <2> DEFINE u == [t EXCEPT !.rls = {"users"}]
  <2>4. u \in Database!Schemas
    BY <2>1, <2>3 DEF Database!Schemas
  <2>5. Database!Down(n, s) = [u EXCEPT !.policies = policies]
    BY <2>2
  <2> HIDE DEF u
  <2> QED
    BY <2>3, <2>4, <2>5 DEF Database!Schemas, Rules
<1>4. CASE n = 5
  <2>1. Database!Down(n, s) = [s EXCEPT !.role = FALSE, !.may = {}, !.defaults = {}]
    BY <1>4 DEF Database!Down, Database!UndoRlsAppUser
  <2> QED
    BY <2>1 DEF Database!Schemas
<1>5. CASE n \in {0, 7, 8}
  BY <1>5 DEF Database!Down
<1> QED
  BY <1>1, <1>2, <1>3, <1>4, <1>5 DEF Database!Last

LEMMA DatabaseStarts == Database!Init => Database!TypeOK
BY DEF Database!Init, Database!TypeOK, Database!Empty, Database!Schemas, Database!Last

LEMMA DatabaseTyped ==
  ASSUME Database!TypeOK, Database!Next
  PROVE  Database!TypeOK'
<1>1. applied \in 0 .. Database!Last + 1 /\ schema \in Database!Schemas /\ Database!Last = 10
  BY DEF Database!TypeOK, Database!Last
<1>2. CASE Database!Migrate
  <2>1. applied \in 0 .. Database!Last /\ applied + 1 \in 0 .. Database!Last + 1
    BY <1>1, <1>2 DEF Database!Migrate
  <2>2. Database!Up(applied, schema) \in Database!Schemas
    BY <1>1, <2>1, UpTyped
  <2> QED
    BY <1>1, <1>2, <2>1, <2>2 DEF Database!Migrate, Database!TypeOK
<1>3. CASE Database!Revert
  <2>1. applied - 1 \in 0 .. Database!Last
    BY <1>1, <1>3 DEF Database!Revert
  <2>2. Database!Down(applied - 1, schema) \in Database!Schemas
    BY <1>1, <2>1, DownTyped
  <2> QED
    BY <1>1, <1>3, <2>1, <2>2 DEF Database!Revert, Database!TypeOK
<1> QED
  BY <1>2, <1>3 DEF Database!Next

-------------------------------------------------------------------------------
(* The migrations: the schema of a version, whatever the way to it, is one, *)
(* but for what is forced.                                                   *)

Delays == {"flow_pending_delays"}

TablesAt(n) ==
    (IF n >= 2 THEN Database!AuthTablesOf ELSE {}) \cup (IF n >= 5 THEN Database!BusinessTables ELSE {})
        \cup (IF n >= 11 THEN Delays ELSE {})
SecuredAt(n) == IF n >= 5 THEN Database!TenantTables ELSE IF n >= 2 THEN {"users"} ELSE {}
PoliciesAt(n) ==
    IF n >= 5 THEN Database!TenantTables \X {"tenant_isolation"}
    ELSE IF n >= 2 THEN {<<"users", "user_tenant_isolation">>} ELSE {}

Opened == ((Database!AuthTablesOf \cup Database!BusinessTables) \ {"audit_logs"}) \X Database!DML
MayAt(n) ==
    (IF n >= 6 THEN Opened \cup ({"audit_logs"} \X {"SELECT", "INSERT"}) ELSE {})
        \cup (IF n >= 11 THEN Delays \X Database!DML ELSE {})
DefaultsAt(n) == IF n >= 6 THEN {"tables", "sequences"} ELSE {}

RoleAt(n) == IF n >= 6 THEN TRUE ELSE FALSE

WorkflowColumns == {"workflow_states.triggered_by", "workflow_states.entity_id NULL", "workflow_states.history JSONB"}
ColumnsAt(n) ==
    (IF n >= 3 THEN {"tenants.config"} ELSE {}) \cup (IF n >= 4 THEN {"app.current_tenant_id"} ELSE {})
        \cup (IF n >= 7 THEN {"config.abac_rules"} ELSE {}) \cup (IF n >= 9 THEN WorkflowColumns ELSE {})
        \cup (IF n >= 10 THEN {"tenants.handle"} ELSE {})

\* The schema s is that of version n, but for what is forced.
IsVersion(s, n) ==
    /\ s.tables = TablesAt(n) /\ s.rls = SecuredAt(n) /\ s.policies = PoliciesAt(n)
    /\ s.may = MayAt(n) /\ s.defaults = DefaultsAt(n) /\ s.role = RoleAt(n) /\ s.columns = ColumnsAt(n)

MigrationsInv ==
    /\ Database!TypeOK
    /\ IsVersion(schema, applied)
    /\ applied >= 5 => Database!TenantTables \subseteq schema.forced
    /\ \A n \in 0 .. Database!Last : before[n] = Database!Empty \/ IsVersion(before[n], n)
    /\ \A n \in 0 .. Database!Last : n < applied => IsVersion(before[n], n)

\* Two schemas of one version are the same but for what is forced.
LEMMA OneVersion ==
  ASSUME NEW s \in Database!Schemas, NEW t \in Database!Schemas, NEW n, IsVersion(s, n), IsVersion(t, n)
  PROVE  [s EXCEPT !.forced = {}] = [t EXCEPT !.forced = {}]
<1>1. /\ s.tables = t.tables /\ s.rls = t.rls /\ s.policies = t.policies /\ s.may = t.may
      /\ s.defaults = t.defaults /\ s.role = t.role /\ s.columns = t.columns
  BY DEF IsVersion
<1> QED
  BY <1>1 DEF Database!Schemas

LEMMA CreatedFields ==
  ASSUME NEW s \in Database!Schemas, NEW new
  PROVE  LET t == Database!Create(s, new)
         IN  /\ t.tables = s.tables \cup new /\ t.rls = s.rls /\ t.forced = s.forced /\ t.policies = s.policies
             /\ t.may = s.may \cup (IF "tables" \in s.defaults THEN (new \ s.tables) \X Database!DML ELSE {})
             /\ t.defaults = s.defaults /\ t.role = s.role /\ t.columns = s.columns
BY DEF Database!Create, Database!Schemas

LEMMA DroppedFields ==
  ASSUME NEW s \in Database!Schemas, NEW old
  PROVE  LET t == Database!Drop(s, old)
         IN  /\ t.tables = s.tables \ old /\ t.rls = s.rls \ old /\ t.forced = s.forced \ old
             /\ t.policies = {p \in s.policies : p[1] \notin old} /\ t.may = {p \in s.may : p[1] \notin old}
             /\ t.defaults = s.defaults /\ t.role = s.role /\ t.columns = s.columns
BY DEF Database!Drop, Database!Schemas

LEMMA VersionUp ==
  ASSUME NEW n \in 0 .. Database!Last, NEW s \in Database!Schemas, IsVersion(s, n)
  PROVE  /\ IsVersion(Database!Up(n, s), n + 1)
         /\ n >= 4 /\ (n >= 5 => Database!TenantTables \subseteq s.forced)
              => Database!TenantTables \subseteq Database!Up(n, s).forced
<1>0. n \in 0 .. 10
  BY DEF Database!Last
<1> DEFINE u == Database!Up(n, s)
<1>1. CASE n = 0
  <2>1. /\ TablesAt(1) = TablesAt(0) /\ SecuredAt(1) = SecuredAt(0) /\ PoliciesAt(1) = PoliciesAt(0) /\ ColumnsAt(1) = ColumnsAt(0)
        /\ MayAt(1) = MayAt(0) /\ DefaultsAt(1) = DefaultsAt(0) /\ RoleAt(1) = RoleAt(0)
    BY DEF TablesAt, SecuredAt, PoliciesAt, ColumnsAt, MayAt, DefaultsAt, RoleAt
  <2>2. u = s
    BY <1>1 DEF Database!Up
  <2> HIDE DEF u
  <2>3. IsVersion(u, 1)
    BY <1>1, <2>1, <2>2 DEF IsVersion
  <2> QED
    BY <1>1, <2>3 DEF u
<1>2. CASE n = 1
  <2>1. /\ s.tables = {} /\ s.rls = {} /\ s.policies = {} /\ s.may = {} /\ s.defaults = {} /\ s.role = FALSE /\ s.columns = {}
    BY <1>2 DEF IsVersion, TablesAt, SecuredAt, PoliciesAt, MayAt, DefaultsAt, RoleAt, ColumnsAt
  <2>2. "tables" \notin s.defaults
    BY <2>1
  <2>3. /\ u.tables = Database!AuthTablesOf /\ u.rls = {"users"} /\ u.policies = {<<"users", "user_tenant_isolation">>}
        /\ u.may = {} /\ u.defaults = {} /\ u.role = FALSE /\ u.columns = {}
    <3> DEFINE t == Database!Create(s, Database!AuthTablesOf)
    <3>1. t \in Database!Schemas
      BY Created, Tables
    <3>2. t.tables = s.tables \cup Database!AuthTablesOf /\ t.rls = s.rls /\ t.policies = s.policies /\ t.may = s.may \cup {}
          /\ t.defaults = s.defaults /\ t.role = s.role /\ t.columns = s.columns
      BY <2>2, CreatedFields
    <3>3. u = [t EXCEPT !.rls = @ \cup {"users"}, !.policies = @ \cup {<<"users", "user_tenant_isolation">>}]
      BY <1>2 DEF Database!Up, Database!AuthTables
    <3> HIDE DEF t, u
    <3>4. /\ u.tables = t.tables /\ u.rls = t.rls \cup {"users"} /\ u.policies = t.policies \cup {<<"users", "user_tenant_isolation">>}
          /\ u.may = t.may /\ u.defaults = t.defaults /\ u.role = t.role /\ u.columns = t.columns
      BY <3>1, <3>3 DEF Database!Schemas
    <3> QED
      BY <2>1, <3>2, <3>4
  <2> QED
    <3>1. /\ TablesAt(2) = Database!AuthTablesOf /\ SecuredAt(2) = {"users"} /\ MayAt(2) = {} /\ ColumnsAt(2) = {}
          /\ PoliciesAt(2) = {<<"users", "user_tenant_isolation">>} /\ DefaultsAt(2) = {} /\ RoleAt(2) = FALSE
      BY DEF TablesAt, SecuredAt, PoliciesAt, MayAt, DefaultsAt, RoleAt, ColumnsAt
    <3> HIDE DEF u
    <3>2. IsVersion(u, 2)
      BY <2>3, <3>1 DEF IsVersion
    <3> QED
      BY <1>2, <3>2 DEF u
<1>3. CASE n \in {2, 3, 6, 9}
  <2> DEFINE column == IF n = 2 THEN "tenants.config" ELSE IF n = 3 THEN "app.current_tenant_id"
                       ELSE IF n = 6 THEN "config.abac_rules" ELSE "tenants.handle"
  <2>1. u = Database!Add(s, column)
    BY <1>3 DEF Database!Up, Database!TenantRoles, Database!TenantIdDefault, Database!TenantAbacRules, Database!AddTenantHandleNetwork
  <2>2. ColumnsAt(n + 1) = ColumnsAt(n) \cup {column}
    BY <1>3 DEF ColumnsAt
  <2>3. /\ TablesAt(n + 1) = TablesAt(n) /\ SecuredAt(n + 1) = SecuredAt(n) /\ PoliciesAt(n + 1) = PoliciesAt(n)
        /\ MayAt(n + 1) = MayAt(n) /\ DefaultsAt(n + 1) = DefaultsAt(n) /\ RoleAt(n + 1) = RoleAt(n)
    BY <1>3 DEF TablesAt, SecuredAt, PoliciesAt, MayAt, DefaultsAt, RoleAt
  <2> HIDE DEF u, column
  <2>5. /\ u.columns = s.columns \cup {column} /\ u.forced = s.forced
        /\ u.tables = s.tables /\ u.rls = s.rls /\ u.policies = s.policies /\ u.may = s.may
        /\ u.defaults = s.defaults /\ u.role = s.role
    BY <2>1 DEF Database!Add, Database!Schemas
  <2>6. IsVersion(u, n + 1) /\ u.forced = s.forced
    BY <2>2, <2>3, <2>5 DEF IsVersion
  <2> QED
    BY <1>3, <2>6 DEF u
<1>4. CASE n = 4
  <2>1. /\ s.tables = Database!AuthTablesOf /\ s.rls = {"users"} /\ s.policies = {<<"users", "user_tenant_isolation">>}
        /\ s.may = {} /\ s.defaults = {} /\ s.role = FALSE /\ s.columns = {"tenants.config", "app.current_tenant_id"}
    BY <1>4 DEF IsVersion, TablesAt, SecuredAt, PoliciesAt, MayAt, DefaultsAt, RoleAt, ColumnsAt
  <2>2. "tables" \notin s.defaults
    BY <2>1
  <2>3. /\ u.tables = s.tables \cup Database!BusinessTables /\ u.rls = s.rls \cup Database!TenantTables
        /\ u.policies = (s.policies \ {<<"users", "user_tenant_isolation">>}) \cup (Database!TenantTables \X {"tenant_isolation"})
        /\ u.may = s.may \cup {} /\ u.defaults = s.defaults /\ u.role = s.role /\ u.columns = s.columns
        /\ u.forced = s.forced \cup Database!TenantTables
    <3> DEFINE t == Database!Create(s, Database!BusinessTables)
    <3>1. t \in Database!Schemas
      BY Created, Tables
    <3>2. /\ t.tables = s.tables \cup Database!BusinessTables /\ t.rls = s.rls /\ t.policies = s.policies /\ t.may = s.may \cup {}
          /\ t.defaults = s.defaults /\ t.role = s.role /\ t.columns = s.columns /\ t.forced = s.forced
      BY <2>2, CreatedFields
    <3>3. u = [t EXCEPT !.rls = @ \cup Database!TenantTables, !.forced = @ \cup Database!TenantTables,
                        !.policies = (@ \ {<<"users", "user_tenant_isolation">>}) \cup (Database!TenantTables \X {"tenant_isolation"})]
      BY <1>4 DEF Database!Up, Database!RlsPolicies
    <3> HIDE DEF t, u
    <3>4. /\ u.tables = t.tables /\ u.rls = t.rls \cup Database!TenantTables /\ u.forced = t.forced \cup Database!TenantTables
          /\ u.policies = (t.policies \ {<<"users", "user_tenant_isolation">>}) \cup (Database!TenantTables \X {"tenant_isolation"})
          /\ u.may = t.may /\ u.defaults = t.defaults /\ u.role = t.role /\ u.columns = t.columns
      BY <3>1, <3>3 DEF Database!Schemas
    <3> QED
      BY <3>2, <3>4
  <2>4. "users" \in Database!TenantTables
    BY DEF Database!TenantTables
  <2> HIDE DEF u
  <2>5. IsVersion(u, 5)
    BY <2>1, <2>3, <2>4 DEF IsVersion, TablesAt, SecuredAt, PoliciesAt, MayAt, DefaultsAt, RoleAt, ColumnsAt
  <2> QED
    BY <1>4, <2>3, <2>5 DEF u
<1>5. CASE n = 5
  <2>1. /\ s.tables = Database!AuthTablesOf \cup Database!BusinessTables /\ s.may = {} /\ s.defaults = {}
    BY <1>5 DEF IsVersion, TablesAt, MayAt, DefaultsAt, RoleAt
  <2>2. /\ u.tables = s.tables /\ u.rls = s.rls /\ u.policies = s.policies /\ u.columns = s.columns /\ u.forced = s.forced
        /\ u.may = s.may \cup ((s.tables \ {"audit_logs"}) \X Database!DML) \cup ({"audit_logs"} \X {"SELECT", "INSERT"})
        /\ u.role = TRUE /\ u.defaults = {"tables", "sequences"}
    <3> DEFINE may == s.may \cup ((s.tables \ {"audit_logs"}) \X Database!DML) \cup ({"audit_logs"} \X {"SELECT", "INSERT"})
    <3>1. u = [s EXCEPT !.role = TRUE, !.may = may, !.defaults = {"tables", "sequences"}]
      BY <1>5 DEF Database!Up, Database!RlsAppUser
    <3> HIDE DEF u, may
    <3>2. /\ u.tables = s.tables /\ u.rls = s.rls /\ u.policies = s.policies /\ u.columns = s.columns /\ u.forced = s.forced
          /\ u.may = may /\ u.role = TRUE /\ u.defaults = {"tables", "sequences"}
      BY <3>1 DEF Database!Schemas
    <3> QED
      BY <3>2 DEF may
  <2> HIDE DEF u
  <2>3. u.may = Opened \cup ({"audit_logs"} \X {"SELECT", "INSERT"})
    BY <2>1, <2>2 DEF Opened
  <2>4. MayAt(6) = Opened \cup ({"audit_logs"} \X {"SELECT", "INSERT"}) /\ DefaultsAt(6) = {"tables", "sequences"} /\ RoleAt(6) = TRUE
    BY DEF MayAt, DefaultsAt, RoleAt
  <2>5. TablesAt(6) = TablesAt(5) /\ SecuredAt(6) = SecuredAt(5) /\ PoliciesAt(6) = PoliciesAt(5) /\ ColumnsAt(6) = ColumnsAt(5)
    BY DEF TablesAt, SecuredAt, PoliciesAt, ColumnsAt
  <2>6. IsVersion(u, 6)
    BY <1>5, <2>2, <2>3, <2>4, <2>5 DEF IsVersion
  <2> QED
    BY <1>5, <2>2, <2>6 DEF u
<1>6. CASE n = 7
  <2>1. s.may = Opened \cup ({"audit_logs"} \X {"SELECT", "INSERT"})
    BY <1>6 DEF IsVersion, MayAt
  <2>2. /\ u.tables = s.tables /\ u.rls = s.rls /\ u.policies = s.policies /\ u.columns = s.columns /\ u.forced = s.forced
        /\ u.may = (s.may \ ({"audit_logs"} \X {"UPDATE", "DELETE", "TRUNCATE"})) \cup ({"audit_logs"} \X {"SELECT", "INSERT"})
        /\ u.role = s.role /\ u.defaults = s.defaults
    BY <1>6 DEF Database!Up, Database!AuditLogPolicies, Database!Schemas
  <2> HIDE DEF u
  <2>3. u.may = s.may
    BY <2>1, <2>2 DEF Opened
  <2>4. /\ TablesAt(8) = TablesAt(7) /\ SecuredAt(8) = SecuredAt(7) /\ PoliciesAt(8) = PoliciesAt(7) /\ ColumnsAt(8) = ColumnsAt(7)
        /\ MayAt(8) = MayAt(7) /\ DefaultsAt(8) = DefaultsAt(7) /\ RoleAt(8) = RoleAt(7)
    BY DEF TablesAt, SecuredAt, PoliciesAt, ColumnsAt, MayAt, DefaultsAt, RoleAt
  <2>5. IsVersion(u, 8)
    BY <1>6, <2>2, <2>3, <2>4 DEF IsVersion
  <2> QED
    BY <1>6, <2>2, <2>5 DEF u
<1>7. CASE n = 8
  <2>1. /\ u.tables = s.tables /\ u.rls = s.rls /\ u.policies = s.policies /\ u.may = s.may /\ u.forced = s.forced
        /\ u.columns = s.columns \cup WorkflowColumns /\ u.role = s.role /\ u.defaults = s.defaults
    <3>1. u = [s EXCEPT !.columns = @ \cup WorkflowColumns]
      BY <1>7 DEF Database!Up, Database!WorkflowExecutor, WorkflowColumns
    <3> HIDE DEF u
    <3> QED
      BY <3>1 DEF Database!Schemas
  <2> HIDE DEF u
  <2>2. /\ TablesAt(9) = TablesAt(8) /\ SecuredAt(9) = SecuredAt(8) /\ PoliciesAt(9) = PoliciesAt(8)
        /\ MayAt(9) = MayAt(8) /\ DefaultsAt(9) = DefaultsAt(8) /\ RoleAt(9) = RoleAt(8) /\ ColumnsAt(9) = ColumnsAt(8) \cup WorkflowColumns
    BY DEF TablesAt, SecuredAt, PoliciesAt, ColumnsAt, MayAt, DefaultsAt, RoleAt
  <2>3. IsVersion(u, 9)
    BY <1>7, <2>1, <2>2 DEF IsVersion
  <2> QED
    BY <1>7, <2>1, <2>3 DEF u
<1>8. CASE n = 10
  <2>1. "tables" \in s.defaults /\ s.tables = TablesAt(10) /\ s.may = MayAt(10)
    BY <1>8 DEF IsVersion, DefaultsAt
  <2>2. /\ u.tables = s.tables \cup Delays /\ u.may = s.may \cup ((Delays \ s.tables) \X Database!DML)
        /\ u.rls = s.rls /\ u.policies = s.policies /\ u.columns = s.columns /\ u.forced = s.forced
        /\ u.role = s.role /\ u.defaults = s.defaults
    BY <1>8, <2>1, CreatedFields DEF Database!Up, Database!CreateFlowPendingDelays, Delays
  <2> HIDE DEF u
  <2>3. Delays \ s.tables = Delays
    BY <2>1 DEF TablesAt, Delays, Database!AuthTablesOf, Database!BusinessTables
  <2>4. TablesAt(11) = TablesAt(10) \cup Delays /\ MayAt(11) = MayAt(10) \cup (Delays \X Database!DML)
    BY DEF TablesAt, MayAt
  <2>5. SecuredAt(11) = SecuredAt(10) /\ PoliciesAt(11) = PoliciesAt(10) /\ DefaultsAt(11) = DefaultsAt(10) /\ RoleAt(11) = RoleAt(10) /\ ColumnsAt(11) = ColumnsAt(10)
    BY DEF SecuredAt, PoliciesAt, DefaultsAt, RoleAt, ColumnsAt
  <2>6. IsVersion(u, 11)
    BY <1>8, <2>1, <2>2, <2>3, <2>4, <2>5 DEF IsVersion
  <2> QED
    BY <1>8, <2>2, <2>6 DEF u
<1> QED
  BY <1>0, <1>1, <1>2, <1>3, <1>4, <1>5, <1>6, <1>7, <1>8

LEMMA VersionDown ==
  ASSUME NEW n \in 0 .. Database!Last, n # 8, NEW s \in Database!Schemas, IsVersion(s, n + 1)
  PROVE  /\ IsVersion(Database!Down(n, s), n)
         /\ n >= 5 /\ Database!TenantTables \subseteq s.forced => Database!TenantTables \subseteq Database!Down(n, s).forced
<1>0. n \in 0 .. 10
  BY DEF Database!Last
<1> DEFINE u == Database!Down(n, s)
<1>1. CASE n = 0
  <2>1. /\ TablesAt(1) = TablesAt(0) /\ SecuredAt(1) = SecuredAt(0) /\ PoliciesAt(1) = PoliciesAt(0) /\ ColumnsAt(1) = ColumnsAt(0)
        /\ MayAt(1) = MayAt(0) /\ DefaultsAt(1) = DefaultsAt(0) /\ RoleAt(1) = RoleAt(0)
    BY DEF TablesAt, SecuredAt, PoliciesAt, ColumnsAt, MayAt, DefaultsAt, RoleAt
  <2>2. u = s /\ IsVersion(s, 1)
    BY <1>1 DEF Database!Down
  <2> HIDE DEF u
  <2>3. IsVersion(u, 0)
    BY <2>1, <2>2 DEF IsVersion
  <2> QED
    BY <1>1, <2>3 DEF u
<1>2. CASE n = 1
  <2>1. /\ s.tables = Database!AuthTablesOf /\ s.rls = {"users"} /\ s.policies = {<<"users", "user_tenant_isolation">>}
        /\ s.may = {} /\ s.defaults = {} /\ s.role = FALSE /\ s.columns = {}
    BY <1>2 DEF IsVersion, TablesAt, SecuredAt, PoliciesAt, MayAt, DefaultsAt, RoleAt, ColumnsAt
  <2>2. /\ u.tables = s.tables \ Database!AuthTablesOf /\ u.rls = s.rls \ Database!AuthTablesOf
        /\ u.policies = {p \in s.policies : p[1] \notin Database!AuthTablesOf}
        /\ u.may = {p \in s.may : p[1] \notin Database!AuthTablesOf}
        /\ u.defaults = s.defaults /\ u.role = s.role /\ u.columns = s.columns
    BY <1>2, DroppedFields DEF Database!Down, Database!UndoAuthTables
  <2> HIDE DEF u
  <2>3. "users" \in Database!AuthTablesOf
    BY DEF Database!AuthTablesOf
  <2>4. u.tables = {} /\ u.rls = {} /\ u.policies = {} /\ u.may = {}
    BY <2>1, <2>2, <2>3
  <2>5. IsVersion(u, 1)
    BY <2>1, <2>2, <2>4 DEF IsVersion, TablesAt, SecuredAt, PoliciesAt, MayAt, DefaultsAt, RoleAt, ColumnsAt
  <2> QED
    BY <1>2, <2>5 DEF u
<1>3. CASE n \in {2, 3, 6, 9}
  <2> DEFINE column == IF n = 2 THEN "tenants.config" ELSE IF n = 3 THEN "app.current_tenant_id"
                       ELSE IF n = 6 THEN "config.abac_rules" ELSE "tenants.handle"
  <2>1. u = Database!Remove(s, column)
    BY <1>3 DEF Database!Down, Database!UndoTenantRoles, Database!UndoTenantIdDefault, Database!UndoTenantAbacRules,
                Database!UndoTenantHandleNetwork
  <2>2. ColumnsAt(n) = ColumnsAt(n + 1) \ {column}
    <3>1. ColumnsAt(3) = {"tenants.config"} /\ ColumnsAt(2) = {}
      BY DEF ColumnsAt
    <3>2. ColumnsAt(4) = ColumnsAt(3) \cup {"app.current_tenant_id"}
      BY DEF ColumnsAt
    <3>3. ColumnsAt(7) = ColumnsAt(6) \cup {"config.abac_rules"} /\ ColumnsAt(6) = ColumnsAt(4)
      BY DEF ColumnsAt
    <3>4. ColumnsAt(10) = ColumnsAt(9) \cup {"tenants.handle"} /\ ColumnsAt(9) = ColumnsAt(7) \cup WorkflowColumns
      BY DEF ColumnsAt
    <3>5. "tenants.handle" \notin ColumnsAt(9)
      BY DEF ColumnsAt, WorkflowColumns
    <3>6. "config.abac_rules" \notin ColumnsAt(6) /\ "app.current_tenant_id" \notin ColumnsAt(3)
      BY DEF ColumnsAt
    <3> QED
      BY <1>3, <3>1, <3>2, <3>3, <3>4, <3>5, <3>6
  <2>3. /\ TablesAt(n + 1) = TablesAt(n) /\ SecuredAt(n + 1) = SecuredAt(n) /\ PoliciesAt(n + 1) = PoliciesAt(n)
        /\ MayAt(n + 1) = MayAt(n) /\ DefaultsAt(n + 1) = DefaultsAt(n) /\ RoleAt(n + 1) = RoleAt(n)
    BY <1>3 DEF TablesAt, SecuredAt, PoliciesAt, MayAt, DefaultsAt, RoleAt
  <2> HIDE DEF u, column
  <2>5. /\ u.columns = s.columns \ {column} /\ u.forced = s.forced
        /\ u.tables = s.tables /\ u.rls = s.rls /\ u.policies = s.policies /\ u.may = s.may
        /\ u.defaults = s.defaults /\ u.role = s.role
    BY <2>1 DEF Database!Remove, Database!Schemas
  <2>6. IsVersion(u, n) /\ u.forced = s.forced
    BY <2>2, <2>3, <2>5 DEF IsVersion
  <2> QED
    BY <1>3, <2>6 DEF u
<1>4. CASE n = 4
  <2>1. /\ s.tables = Database!AuthTablesOf \cup Database!BusinessTables
        /\ s.may = {} /\ s.defaults = {} /\ s.role = FALSE /\ s.columns = {"tenants.config", "app.current_tenant_id"}
    BY <1>4 DEF IsVersion, TablesAt, MayAt, DefaultsAt, RoleAt, ColumnsAt
  <2>2. /\ u.tables = s.tables \ Database!BusinessTables /\ u.rls = {"users"}
        /\ u.policies = {<<"users", "user_tenant_isolation">>}
        /\ u.may = {p \in s.may : p[1] \notin Database!BusinessTables}
        /\ u.defaults = s.defaults /\ u.role = s.role /\ u.columns = s.columns
    <3> DEFINE t == Database!Drop(s, Database!BusinessTables)
    <3>1. t \in Database!Schemas
      BY Dropped
    <3>2. /\ t.tables = s.tables \ Database!BusinessTables /\ t.may = {p \in s.may : p[1] \notin Database!BusinessTables}
          /\ t.defaults = s.defaults /\ t.role = s.role /\ t.columns = s.columns
      BY DroppedFields
    <3>3. u = [t EXCEPT !.rls = {"users"}, !.policies = {<<"users", "user_tenant_isolation">>}]
      BY <1>4 DEF Database!Down, Database!UndoRlsPolicies
    <3> HIDE DEF t, u
    <3>4. /\ u.tables = t.tables /\ u.rls = {"users"} /\ u.policies = {<<"users", "user_tenant_isolation">>}
          /\ u.may = t.may /\ u.defaults = t.defaults /\ u.role = t.role /\ u.columns = t.columns
      BY <3>1, <3>3 DEF Database!Schemas
    <3> QED
      BY <3>2, <3>4
  <2> HIDE DEF u
  <2>3. u.tables = Database!AuthTablesOf /\ u.may = {}
    BY <2>1, <2>2 DEF Database!AuthTablesOf, Database!BusinessTables
  <2>4. IsVersion(u, 4)
    BY <2>1, <2>2, <2>3 DEF IsVersion, TablesAt, SecuredAt, PoliciesAt, MayAt, DefaultsAt, RoleAt, ColumnsAt
  <2> QED
    BY <1>4, <2>4 DEF u
<1>5. CASE n = 5
  <2>1. /\ u.tables = s.tables /\ u.rls = s.rls /\ u.policies = s.policies /\ u.columns = s.columns /\ u.forced = s.forced
        /\ u.may = {} /\ u.role = FALSE /\ u.defaults = {}
    <3>1. u = [s EXCEPT !.role = FALSE, !.may = {}, !.defaults = {}]
      BY <1>5 DEF Database!Down, Database!UndoRlsAppUser
    <3> HIDE DEF u
    <3> QED
      BY <3>1 DEF Database!Schemas
  <2> HIDE DEF u
  <2>2. TablesAt(6) = TablesAt(5) /\ SecuredAt(6) = SecuredAt(5) /\ PoliciesAt(6) = PoliciesAt(5) /\ ColumnsAt(6) = ColumnsAt(5)
    BY DEF TablesAt, SecuredAt, PoliciesAt, ColumnsAt
  <2>3. MayAt(5) = {} /\ DefaultsAt(5) = {} /\ RoleAt(5) = FALSE
    BY DEF MayAt, DefaultsAt, RoleAt
  <2>4. IsVersion(u, 5)
    <3>1. IsVersion(s, 6)
      BY <1>5
    <3> QED
      BY <2>1, <2>2, <2>3, <3>1 DEF IsVersion
  <2> QED
    BY <1>5, <2>1, <2>4 DEF u
<1>6. CASE n = 7
  <2>1. u = s
    BY <1>6 DEF Database!Down
  <2>2. /\ TablesAt(8) = TablesAt(7) /\ SecuredAt(8) = SecuredAt(7) /\ PoliciesAt(8) = PoliciesAt(7) /\ ColumnsAt(8) = ColumnsAt(7)
        /\ MayAt(8) = MayAt(7) /\ DefaultsAt(8) = DefaultsAt(7) /\ RoleAt(8) = RoleAt(7)
    BY DEF TablesAt, SecuredAt, PoliciesAt, ColumnsAt, MayAt, DefaultsAt, RoleAt
  <2> HIDE DEF u
  <2>3. IsVersion(u, 7)
    BY <1>6, <2>1, <2>2 DEF IsVersion
  <2> QED
    BY <1>6, <2>1, <2>3 DEF u
<1>7. CASE n = 10
  <2>1. /\ u.tables = s.tables \ Delays /\ u.rls = s.rls \ Delays /\ u.forced = s.forced \ Delays
        /\ u.policies = {p \in s.policies : p[1] \notin Delays}
        /\ u.may = {p \in s.may : p[1] \notin Delays}
        /\ u.defaults = s.defaults /\ u.role = s.role /\ u.columns = s.columns
    BY <1>7, DroppedFields DEF Database!Down, Database!UndoFlowPendingDelays, Delays
  <2> HIDE DEF u
  <2>2. /\ s.tables = TablesAt(10) \cup Delays /\ s.may = MayAt(10) \cup (Delays \X Database!DML)
        /\ s.rls = Database!TenantTables /\ s.policies = Database!TenantTables \X {"tenant_isolation"}
    BY <1>7 DEF IsVersion, TablesAt, MayAt, SecuredAt, PoliciesAt
  <2>3. /\ \A t \in Delays : t \notin TablesAt(10) /\ t \notin Database!TenantTables
        /\ \A p \in MayAt(10) : p[1] \notin Delays
    <3>1. \A p \in MayAt(10) : p[1] \in Database!AuthTablesOf \cup Database!BusinessTables
      BY DEF MayAt, Opened, Database!BusinessTables
    <3> QED
      BY <3>1 DEF TablesAt, Database!TenantTables, Delays, Database!AuthTablesOf, Database!BusinessTables
  <2>4. u.tables = TablesAt(10) /\ u.rls = Database!TenantTables
    BY <2>1, <2>2, <2>3
  <2>5. u.policies = Database!TenantTables \X {"tenant_isolation"} /\ u.may = MayAt(10)
    BY <2>1, <2>2, <2>3
  <2>6. SecuredAt(10) = Database!TenantTables /\ PoliciesAt(10) = Database!TenantTables \X {"tenant_isolation"}
        /\ DefaultsAt(11) = DefaultsAt(10) /\ RoleAt(11) = RoleAt(10) /\ ColumnsAt(11) = ColumnsAt(10)
    BY DEF SecuredAt, PoliciesAt, DefaultsAt, RoleAt, ColumnsAt
  <2>7. IsVersion(u, 10)
    BY <1>7, <2>1, <2>4, <2>5, <2>6 DEF IsVersion
  <2> QED
    BY <1>7, <2>1, <2>3, <2>7 DEF u
<1> QED
  BY <1>0, <1>1, <1>2, <1>3, <1>4, <1>5, <1>6, <1>7

LEMMA MigrationsStart == Database!Init => MigrationsInv
<1> SUFFICES ASSUME Database!Init PROVE MigrationsInv
  OBVIOUS
<1>1. applied = 0 /\ schema = Database!Empty /\ before = [n \in 0 .. Database!Last |-> Database!Empty]
  BY DEF Database!Init
<1>2. /\ TablesAt(0) = {} /\ SecuredAt(0) = {} /\ MayAt(0) = {} /\ ColumnsAt(0) = {}
      /\ PoliciesAt(0) = {} /\ DefaultsAt(0) = {} /\ RoleAt(0) = FALSE
  BY DEF TablesAt, SecuredAt, PoliciesAt, MayAt, DefaultsAt, RoleAt, ColumnsAt
<1>3. IsVersion(schema, applied)
  BY <1>1, <1>2 DEF IsVersion, Database!Empty
<1> QED
  BY <1>1, <1>3, DatabaseStarts DEF MigrationsInv

LEMMA MigrationsKept ==
  ASSUME MigrationsInv, Database!Next
  PROVE  MigrationsInv'
<1>1. applied \in 0 .. Database!Last + 1 /\ schema \in Database!Schemas /\ Database!Last = 10 /\ IsVersion(schema, applied)
  BY DEF MigrationsInv, Database!TypeOK, Database!Last
<1>2. before \in [0 .. Database!Last -> Database!Schemas \cup {Database!Empty}]
  BY DEF MigrationsInv, Database!TypeOK
<1>t. Database!TypeOK'
  BY DatabaseTyped DEF MigrationsInv
<1>3. CASE Database!Migrate
  <2>1. /\ applied \in 0 .. Database!Last /\ applied' = applied + 1 /\ schema' = Database!Up(applied, schema)
        /\ before' = IF before[applied] = Database!Empty THEN [before EXCEPT ![applied] = schema] ELSE before
    BY <1>1, <1>3 DEF Database!Migrate
  <2>2. IsVersion(schema', applied') /\ (applied' >= 5 => Database!TenantTables \subseteq schema'.forced)
    BY <1>1, <2>1, VersionUp DEF MigrationsInv
  <2>3. ASSUME NEW n \in 0 .. Database!Last
        PROVE  /\ before'[n] = Database!Empty \/ IsVersion(before'[n], n)
               /\ n < applied' => IsVersion(before'[n], n)
    <3>1. before'[n] = IF n = applied /\ before[applied] = Database!Empty THEN schema ELSE before[n]
      BY <1>2, <2>1
    <3>2. CASE n = applied /\ before[applied] = Database!Empty
      BY <1>1, <3>1, <3>2
    <3>3. CASE ~ (n = applied /\ before[applied] = Database!Empty)
      <4>1. before'[n] = before[n] /\ (before[n] = Database!Empty \/ IsVersion(before[n], n)) /\ (n < applied => IsVersion(before[n], n))
        BY <3>1, <3>3 DEF MigrationsInv
      <4>2. CASE n = applied
        BY <3>3, <4>1, <4>2
      <4>3. CASE n # applied
        <5>1. n < applied' => n < applied
          BY <1>1, <2>1, <4>3
        <5> QED
          BY <4>1, <5>1
      <4> QED
        BY <4>2, <4>3
    <3> QED
      BY <3>2, <3>3
  <2> QED
    BY <1>t, <2>2, <2>3 DEF MigrationsInv
<1>4. CASE Database!Revert
  <2> DEFINE n == applied - 1
  <2>1. n \in 0 .. Database!Last /\ n # 8 /\ applied' = n /\ schema' = Database!Down(n, schema) /\ before' = before /\ applied = n + 1
    BY <1>1, <1>4 DEF Database!Revert, Database!Succeeds
  <2> HIDE DEF n
  <2>2. IsVersion(schema', applied') /\ (applied' >= 5 => Database!TenantTables \subseteq schema'.forced)
    BY <1>1, <2>1, VersionDown DEF MigrationsInv
  <2>3. \A m \in 0 .. Database!Last : m < applied' => m < applied
    BY <2>1
  <2> QED
    BY <1>t, <2>1, <2>2, <2>3 DEF MigrationsInv
<1> QED
  BY <1>3, <1>4 DEF Database!Next

LEMMA MigrationsAlways == RuntimeSpec => []MigrationsInv
<1>1. RuntimeInit => MigrationsInv
  BY MigrationsStart DEF RuntimeInit
<1>2. MigrationsInv /\ [RuntimeNext]_runtimeVars => MigrationsInv'
  <2> SUFFICES ASSUME MigrationsInv, [RuntimeNext]_runtimeVars PROVE MigrationsInv'
    OBVIOUS
  <2>1. Database!Next \/ UNCHANGED migrationVars
    BY DEF RuntimeNext, runtimeVars, ExecutorTurn, FlowTurn, MigrationsTurn, MindTurn, DefinitionsTurn
  <2>2. CASE UNCHANGED migrationVars
    BY <2>2 DEF migrationVars, MigrationsInv, Database!TypeOK
  <2> QED
    BY <2>1, <2>2, MigrationsKept
<1> QED
  BY <1>1, <1>2, PTL DEF RuntimeSpec

\* On every way to a version, with reverts in between, the role of the
\* application reaches no table of a tenant without its policy, and only adds to
\* the audit log.
THEOREM RoleIsConfined == RuntimeSpec => []ConfinedRole
<1>1. MigrationsInv => ConfinedRole
  <2> SUFFICES ASSUME MigrationsInv PROVE Database!ConfinedRole
    BY DEF ConfinedRole
  <2>1. schema.may = MayAt(applied) /\ schema.rls = SecuredAt(applied) /\ schema.policies = PoliciesAt(applied) /\ applied \in Int
    BY DEF MigrationsInv, IsVersion, Database!TypeOK, Database!Last
  <2>2. CASE applied < 6
    <3>1. schema.may = {}
      BY <2>1, <2>2 DEF MayAt
    <3> QED
      BY <3>1 DEF Database!ConfinedRole
  <2>3. CASE applied >= 6
    <3>1. /\ schema.rls = Database!TenantTables /\ schema.policies = Database!TenantTables \X {"tenant_isolation"}
          /\ Database!TenantTables \subseteq schema.forced
      BY <2>1, <2>3 DEF SecuredAt, PoliciesAt, MigrationsInv
    <3>2. \A table \in Database!TenantTables : Database!Isolated(schema, table)
      BY <3>1 DEF Database!Isolated
    <3>3. \A p \in schema.may : p \in Opened \/ p \in {"audit_logs"} \X {"SELECT", "INSERT"} \/ p \in Delays \X Database!DML
      BY <2>1 DEF MayAt
    <3>4. \A table \in Database!AuthTablesOf \cup Database!BusinessTables : table = "tenants" \/ table \in Database!TenantTables
      BY DEF Database!AuthTablesOf, Database!TenantTables
    <3>5. "audit_logs" \in Database!BusinessTables
      BY DEF Database!BusinessTables
    <3>6. \A p \in schema.may : p[1] \in {"tenants", "flow_pending_delays"} \/ Database!Isolated(schema, p[1])
      <4> SUFFICES ASSUME NEW p \in schema.may PROVE p[1] \in {"tenants", "flow_pending_delays"} \/ Database!Isolated(schema, p[1])
        OBVIOUS
      <4>1. CASE p \in Opened
        BY <3>2, <3>4, <4>1 DEF Opened
      <4>2. CASE p \in {"audit_logs"} \X {"SELECT", "INSERT"}
        BY <3>2, <3>4, <3>5, <4>2
      <4>3. CASE p \in Delays \X Database!DML
        BY <4>3 DEF Delays
      <4> QED
        BY <3>3, <4>1, <4>2, <4>3
    <3>7. \A privilege \in {"UPDATE", "DELETE", "TRUNCATE"} : <<"audit_logs", privilege>> \notin schema.may
      BY <3>3 DEF Opened, Delays
    <3> QED
      BY <3>6, <3>7 DEF Database!ConfinedRole
  <2> QED
    BY <2>1, <2>2, <2>3
<1> QED
  BY <1>1, MigrationsAlways, PTL

\* Every revert gives back the schema that its migration met, but for what is
\* forced, however often migrations have gone up and down before.
THEOREM RevertsRestore == RuntimeSpec => RevertRestores
<1> DEFINE Restores == applied' < applied => [schema' EXCEPT !.forced = {}] = [before[applied'] EXCEPT !.forced = {}]
<1>1. MigrationsInv /\ [RuntimeNext]_runtimeVars => [Restores]_(Database!vars)
  <2> SUFFICES ASSUME MigrationsInv, [RuntimeNext]_runtimeVars, ~ UNCHANGED Database!vars, applied' < applied
               PROVE  [schema' EXCEPT !.forced = {}] = [before[applied'] EXCEPT !.forced = {}]
    OBVIOUS
  <2>1. Database!Next
    BY DEF RuntimeNext, runtimeVars, ExecutorTurn, FlowTurn, MigrationsTurn, MindTurn, DefinitionsTurn, migrationVars, Database!vars
  <2>2. MigrationsInv'
    BY <2>1, MigrationsKept
  <2>3. applied \in 0 .. 11 /\ applied' \in 0 .. 11 /\ schema' \in Database!Schemas /\ Database!Last = 10
    BY <2>2 DEF MigrationsInv, Database!TypeOK, Database!Last
  <2>4. applied' \in 0 .. Database!Last
    BY <2>3
  <2>5. IsVersion(schema', applied') /\ IsVersion(before[applied'], applied')
    BY <2>2, <2>4 DEF MigrationsInv
  <2>6. before[applied'] \in Database!Schemas
    <3>1. Database!Empty \in Database!Schemas
      BY DEF Database!Empty, Database!Schemas
    <3>2. before \in [0 .. Database!Last -> Database!Schemas \cup {Database!Empty}]
      BY DEF MigrationsInv, Database!TypeOK
    <3> QED
      BY <2>4, <3>1, <3>2
  <2> QED
    BY <2>3, <2>5, <2>6, OneVersion
<1> QED
  BY <1>1, MigrationsAlways, PTL DEF RuntimeSpec, RevertRestores, Database!RevertRestores

-------------------------------------------------------------------------------
(* Types *)

LEMMA ExecutorTyped == RuntimeSpec => [](part = "executor" => TypeOK)
<1>1. RuntimeInit => (part = "executor" => TypeOK)
  BY InitTyped DEF RuntimeInit
<1>2. (part = "executor" => TypeOK) /\ [RuntimeNext]_runtimeVars => (part = "executor" => TypeOK)'
  <2> SUFFICES ASSUME part = "executor" => TypeOK, [RuntimeNext]_runtimeVars, part' = "executor" PROVE TypeOK'
    OBVIOUS
  <2>1. part = "executor" /\ [Next]_vars
    BY DEF RuntimeNext, runtimeVars, ExecutorTurn, FlowTurn, MigrationsTurn, MindTurn, DefinitionsTurn
  <2> QED
    BY <2>1, TypesKept
<1> QED
  BY <1>1, <1>2, PTL DEF RuntimeSpec

LEMMA MigrationsTyped == RuntimeSpec => []Database!TypeOK
<1>1. RuntimeInit => Database!TypeOK
  BY DatabaseStarts DEF RuntimeInit
<1>2. Database!TypeOK /\ [RuntimeNext]_runtimeVars => Database!TypeOK'
  <2> SUFFICES ASSUME Database!TypeOK, [RuntimeNext]_runtimeVars PROVE Database!TypeOK'
    OBVIOUS
  <2>1. Database!Next \/ UNCHANGED migrationVars
    BY DEF RuntimeNext, runtimeVars, ExecutorTurn, FlowTurn, MigrationsTurn, MindTurn, DefinitionsTurn
  <2>2. CASE UNCHANGED migrationVars
    BY <2>2 DEF migrationVars, Database!TypeOK
  <2> QED
    BY <2>1, <2>2, DatabaseTyped
<1> QED
  BY <1>1, <1>2, PTL DEF RuntimeSpec

\* Executor, flow engine, migrations and generator keep their variables in their
\* types, for any workflows, flows and answers of a model.
THEOREM RuntimeTypesOK == RuntimeSpec => []TypesOK
<1>1. /\ part = "executor" => TypeOK
      /\ part = "flow" => FlowInv
      /\ Database!TypeOK
      /\ MindInv
      => TypesOK
  BY FlowExplained, MindTyped DEF TypesOK
<1> QED
  BY <1>1, ExecutorTyped, FlowAlways, MigrationsTyped, MindAlways, PTL

-------------------------------------------------------------------------------
(* Induction and recursion over 0 .. N. *)

LEMMA Induction ==
  ASSUME NEW N \in Nat, NEW P, 0 \in P, \A k \in 0 .. N - 1 : k \in P => k + 1 \in P
  PROVE  \A k \in 0 .. N : k \in P
<1> DEFINE out == {k \in 0 .. N : k \notin P}
<1> SUFFICES ASSUME out # {} PROVE FALSE
  OBVIOUS
<1>1. out \subseteq Nat
  OBVIOUS
<1>2. PICK x \in out : \A y \in out : ~ (<<y, x>> \in OpToRel(<, Nat))
  BY <1>1, NatLessThanWellFounded, WFMin
<1>3. \A y \in out : ~ (y < x)
  BY <1>1, <1>2 DEF OpToRel
<1>4. x # 0 /\ x \in 0 .. N
  OBVIOUS
<1>5. x - 1 \in 0 .. N - 1 /\ x - 1 < x /\ (x - 1) + 1 = x /\ x - 1 \in 0 .. N
  BY <1>4
<1>6. x - 1 \in P
  BY <1>3, <1>5
<1> QED
  BY <1>5, <1>6

\* f begins with base, and each of its values follows from the one before.
Follows(f, S, base, next, n) == f \in [0 .. n -> S] /\ f[0] = base /\ \A k \in 1 .. n : f[k] = next[f[k - 1]]

\* What a function says of 0 and of each number by the one before, there is.
LEMMA Recursion ==
  ASSUME NEW N \in Nat, NEW S, NEW base \in S, NEW next \in [S -> S]
  PROVE  \E f : Follows(f, S, base, next, N)
<1> DEFINE Runs(f, n) == f \in [0 .. n -> S] /\ f[0] = base /\ \A k \in 1 .. n : f[k] = next[f[k - 1]]
           P == {n \in 0 .. N : \E f : Runs(f, n)}
<1>1. 0 \in P
  <2> DEFINE f == [k \in 0 .. 0 |-> base]
  <2>1. Runs(f, 0)
    OBVIOUS
  <2> HIDE DEF f
  <2>2. \E g : Runs(g, 0)
    BY <2>1
  <2> QED
    BY <2>2
<1>2. ASSUME NEW n \in 0 .. N - 1, n \in P PROVE n + 1 \in P
  <2>1. PICK f : Runs(f, n)
    BY <1>2
  <2> DEFINE g == [k \in 0 .. n + 1 |-> IF k = n + 1 THEN next[f[n]] ELSE f[k]]
  <2>2. n \in 0 .. n /\ f[n] \in S /\ next[f[n]] \in S
    BY <2>1
  <2>3. \A k \in 0 .. n + 1 : k = n + 1 \/ k \in 0 .. n
    OBVIOUS
  <2>4. g \in [0 .. n + 1 -> S]
    BY <2>1, <2>2, <2>3
  <2>5. \A k \in 0 .. n : g[k] = f[k]
    OBVIOUS
  <2>6. g[n + 1] = next[f[n]]
    OBVIOUS
  <2>7. g[0] = base
    BY <2>1, <2>5
  <2>8. ASSUME NEW k \in 1 .. n + 1 PROVE g[k] = next[g[k - 1]]
    <3>1. CASE k = n + 1
      BY <2>2, <2>5, <2>6, <3>1
    <3>2. CASE k # n + 1
      <4>1. k \in 1 .. n /\ k \in 0 .. n /\ k - 1 \in 0 .. n
        BY <3>2
      <4> QED
        BY <2>1, <2>5, <4>1
    <3> QED
      BY <3>1, <3>2
  <2> HIDE DEF g
  <2>9. Runs(g, n + 1) /\ n + 1 \in 0 .. N
    BY <2>4, <2>7, <2>8
  <2> QED
    BY <2>9
<1>3. N \in P
  <2> HIDE DEF P
  <2>1. \A k \in 0 .. N : k \in P
    BY <1>1, <1>2, Induction
  <2> QED
    BY <2>1
<1>4. PICK f : Runs(f, N)
  BY <1>3
<1> QED
  BY <1>4 DEF Follows

LEMMA FiniteUnion ==
  ASSUME NEW I, IsFiniteSet(I), NEW F, \A i \in I : IsFiniteSet(F[i])
  PROVE  IsFiniteSet(UNION {F[i] : i \in I})
<1> DEFINE T == {F[i] : i \in I}
           f == [i \in I |-> F[i]]
<1>1. f \in Surjection(I, T)
  BY DEF Surjection
<1>2. IsFiniteSet(T)
  BY <1>1, FS_Surjection
<1> QED
  BY <1>2, FS_UNION

-------------------------------------------------------------------------------
(* The graph of a workflow. *)

LEMMA Copies ==
  /\ \A seq, S : Checked!Among(seq, S) = Among(seq, S)
  /\ \A s : Checked!Range(s) = Range(s)
  /\ \A S : Checked!Cardinality(S) = Cardinality(S)
BY DEF Among, Checked!Among, Nth, Checked!Nth, Cardinality, Checked!Cardinality, Range, Checked!Range

IsGraph(steps) == IsSequence(steps) /\ \A i \in DOMAIN steps : IsSequence(steps[i].dependsOn)

\* Names of their own, and dependencies that there are.
WellNamed(steps) ==
    /\ \A i, j \in 1 .. Len(steps) : steps[i].id = steps[j].id => i = j
    /\ \A i \in 1 .. Len(steps) : \A j \in DOMAIN steps[i].dependsOn : steps[i].dependsOn[j] \in Checked!IdSet(steps)

LEMMA GraphFacts ==
  ASSUME NEW steps, IsGraph(steps)
  PROVE  /\ Len(steps) \in Nat /\ DOMAIN steps = 1 .. Len(steps)
         /\ Checked!IdSet(steps) = {steps[i].id : i \in 1 .. Len(steps)}
         /\ Checked!Ids(steps) \in Seq(Checked!IdSet(steps)) /\ Len(Checked!Ids(steps)) = Len(steps)
         /\ \A i \in 1 .. Len(steps) : Checked!Ids(steps)[i] = steps[i].id
         /\ Range(Checked!Ids(steps)) = Checked!IdSet(steps)
         /\ IsFiniteSet(Checked!IdSet(steps))
         /\ IsFiniteSet(Checked!Edges(steps))
         /\ \A e \in Checked!Edges(steps) : Checked!Target(steps, e) \in Checked!IdSet(steps)
         /\ WellNamed(steps) => \A e \in Checked!Edges(steps) : Checked!Source(steps, e) \in Checked!IdSet(steps)
<1> DEFINE ids == Checked!Ids(steps)
           names == Checked!IdSet(steps)
           F == [i \in 1 .. Len(steps) |-> {i} \X DOMAIN steps[i].dependsOn]
<1>1. Len(steps) \in Nat /\ DOMAIN steps = 1 .. Len(steps)
  BY DEF IsGraph, IsSequence
<1>2. ids = [i \in 1 .. Len(steps) |-> steps[i].id]
  BY <1>1 DEF Checked!Ids
<1>3. names = {steps[i].id : i \in 1 .. Len(steps)}
  <2>1. names = {ids[i] : i \in DOMAIN ids}
    BY Copies DEF Checked!IdSet, Checked!Range
  <2> QED
    BY <1>2, <2>1
<1> HIDE DEF ids, names
<1>4. ids \in [1 .. Len(steps) -> names]
  BY <1>2, <1>3
<1>5. ids \in Seq(names) /\ Len(ids) = Len(steps)
  BY <1>1, <1>4
<1>6. Range(ids) = names
  BY <1>2, <1>3 DEF Range
<1>7. IsFiniteSet(1 .. Len(steps))
  BY <1>1, FS_Interval
<1>8. IsFiniteSet(names)
  <2>1. ids \in Surjection(1 .. Len(steps), names)
    BY <1>2, <1>3, <1>4 DEF Surjection
  <2> QED
    BY <1>7, <2>1, FS_Surjection
<1>9. IsFiniteSet(Checked!Edges(steps))
  <2>1. ASSUME NEW i \in 1 .. Len(steps) PROVE IsFiniteSet(F[i])
    <3>1. Len(steps[i].dependsOn) \in Nat /\ DOMAIN steps[i].dependsOn = 1 .. Len(steps[i].dependsOn)
      BY <1>1 DEF IsGraph, IsSequence
    <3>2. IsFiniteSet(DOMAIN steps[i].dependsOn)
      <4> DEFINE size == Len(steps[i].dependsOn)
      <4>1. size \in Int /\ DOMAIN steps[i].dependsOn = 1 .. size
        BY <3>1
      <4> HIDE DEF size
      <4>2. IsFiniteSet(1 .. size)
        BY <4>1, FS_Interval
      <4> QED
        BY <4>1, <4>2
    <3>3. IsFiniteSet({i})
      BY FS_Singleton
    <3> QED
      BY <3>2, <3>3, FS_Product
  <2>2. Checked!Edges(steps) = UNION {F[i] : i \in 1 .. Len(steps)}
    BY <1>1 DEF Checked!Edges
  <2> HIDE DEF F
  <2>3. \A i \in 1 .. Len(steps) : IsFiniteSet(F[i])
    BY <2>1
  <2>4. IsFiniteSet(UNION {F[i] : i \in 1 .. Len(steps)})
    BY <1>7, <2>3, FiniteUnion
  <2> QED
    BY <2>2, <2>4
<1>10. ASSUME NEW e \in Checked!Edges(steps)
       PROVE  /\ Checked!Target(steps, e) \in names
              /\ WellNamed(steps) => Checked!Source(steps, e) \in names
  <2>1. PICK i \in 1 .. Len(steps) : e \in {i} \X DOMAIN steps[i].dependsOn
    BY <1>1 DEF Checked!Edges
  <2>2. e[1] = i /\ e[2] \in DOMAIN steps[i].dependsOn
    BY <2>1
  <2> QED
    BY <1>3, <2>2 DEF Checked!Target, Checked!Source, WellNamed, names
<1> QED
  BY <1>1, <1>2, <1>3, <1>5, <1>6, <1>8, <1>9, <1>10 DEF ids, names

Distinct(s) == \A i, j \in 1 .. Len(s) : s[i] = s[j] => i = j

LEMMA TailOf ==
  ASSUME NEW T, NEW s \in Seq(T), s # <<>>, Distinct(s)
  PROVE  /\ Head(s) \in T /\ Head(s) \in Range(s) /\ Tail(s) \in Seq(T) /\ Distinct(Tail(s))
         /\ Range(Tail(s)) = Range(s) \ {Head(s)}
<1>1. /\ Len(s) \in Nat /\ Len(s) >= 1 /\ Head(s) = s[1] /\ Tail(s) \in Seq(T) /\ Len(Tail(s)) = Len(s) - 1
      /\ \A i \in 1 .. Len(s) - 1 : Tail(s)[i] = s[i + 1]
      /\ DOMAIN s = 1 .. Len(s) /\ DOMAIN Tail(s) = 1 .. Len(s) - 1 /\ \A i \in 1 .. Len(s) : s[i] \in T
  OBVIOUS
<1> DEFINE t == Tail(s)
<1> HIDE DEF t
<1>2. Distinct(t)
  <2> SUFFICES ASSUME NEW i \in 1 .. Len(t), NEW j \in 1 .. Len(t), t[i] = t[j] PROVE i = j
    BY DEF Distinct
  <2>1. i + 1 \in 1 .. Len(s) /\ j + 1 \in 1 .. Len(s) /\ i \in Int /\ j \in Int /\ s[i + 1] = s[j + 1]
    BY <1>1 DEF t
  <2>2. i + 1 = j + 1
    BY <2>1 DEF Distinct
  <2> QED
    BY <2>1, <2>2
<1>3. ASSUME NEW x \in Range(t) PROVE x \in Range(s) \ {s[1]}
  <2>1. PICK i \in 1 .. Len(s) - 1 : x = t[i]
    BY <1>1, <1>3 DEF Range, t
  <2>2. x = s[i + 1] /\ i + 1 \in 1 .. Len(s) /\ 1 \in 1 .. Len(s) /\ i + 1 # 1
    BY <1>1, <2>1 DEF t
  <2> QED
    BY <1>1, <2>2 DEF Range, Distinct
<1>4. ASSUME NEW x \in Range(s), x # s[1] PROVE x \in Range(t)
  <2>1. PICK i \in 1 .. Len(s) : x = s[i]
    BY <1>1, <1>4 DEF Range
  <2>2. i - 1 \in 1 .. Len(s) - 1 /\ (i - 1) + 1 = i
    BY <1>1, <1>4, <2>1
  <2>3. x = t[i - 1]
    BY <1>1, <2>1, <2>2 DEF t
  <2> QED
    BY <1>1, <2>2, <2>3 DEF Range, t
<1>5. s[1] \in Range(s) /\ s[1] \in T
  BY <1>1 DEF Range
<1> QED
  BY <1>1, <1>2, <1>3, <1>4, <1>5 DEF t

LEMMA AppendOf ==
  ASSUME NEW T, NEW s \in Seq(T), NEW x \in T
  PROVE  /\ Append(s, x) \in Seq(T) /\ Len(Append(s, x)) = Len(s) + 1 /\ Range(Append(s, x)) = Range(s) \cup {x}
         /\ \A i \in 1 .. Len(s) : Append(s, x)[i] = s[i]
         /\ Append(s, x)[Len(s) + 1] = x
         /\ Distinct(s) /\ x \notin Range(s) => Distinct(Append(s, x))
<1> DEFINE t == Append(s, x)
<1>1. /\ t \in Seq(T) /\ Len(s) \in Nat /\ Len(t) = Len(s) + 1 /\ DOMAIN s = 1 .. Len(s) /\ DOMAIN t = 1 .. Len(s) + 1
      /\ \A i \in 1 .. Len(s) : t[i] = s[i]
      /\ t[Len(s) + 1] = x
  OBVIOUS
<1> HIDE DEF t
<1>2. \A i \in 1 .. Len(s) + 1 : i \in 1 .. Len(s) \/ i = Len(s) + 1
  BY <1>1
<1>3. \A i \in 1 .. Len(s) : i \in 1 .. Len(s) + 1 /\ s[i] \in Range(s)
  BY <1>1 DEF Range
<1>4. Len(s) + 1 \in 1 .. Len(s) + 1
  BY <1>1
<1>5. Range(t) = Range(s) \cup {x}
  <2>1. ASSUME NEW y \in Range(t) PROVE y \in Range(s) \cup {x}
    BY <1>1, <1>2, <1>3, <2>1 DEF Range
  <2>2. ASSUME NEW y \in Range(s) PROVE y \in Range(t)
    BY <1>1, <1>3, <2>2 DEF Range
  <2>3. x \in Range(t)
    BY <1>1, <1>4 DEF Range
  <2> QED
    BY <2>1, <2>2, <2>3
<1>6. ASSUME Distinct(s), x \notin Range(s), NEW i \in 1 .. Len(t), NEW j \in 1 .. Len(t), t[i] = t[j]
      PROVE  i = j
  <2>1. CASE i \in 1 .. Len(s) /\ j \in 1 .. Len(s)
    BY <1>1, <1>6, <2>1 DEF Distinct
  <2>2. CASE i = Len(s) + 1 \/ j = Len(s) + 1
    BY <1>1, <1>2, <1>3, <1>6, <2>2
  <2> QED
    BY <1>1, <1>2, <2>1, <2>2
<1>7. Distinct(s) /\ x \notin Range(s) => Distinct(t)
  BY <1>6 DEF Distinct
<1> QED
  BY <1>1, <1>5, <1>7 DEF t

LEMMA JoinedDistinct ==
  ASSUME NEW T, NEW s \in Seq(T), NEW t \in Seq(T), Distinct(s), Distinct(t), Range(s) \cap Range(t) = {}
  PROVE  s \o t \in Seq(T) /\ Distinct(s \o t)
<1>1. /\ DOMAIN s = 1 .. Len(s) /\ DOMAIN t = 1 .. Len(t) /\ Len(s \o t) = Len(s) + Len(t)
      /\ Len(s) \in Nat /\ Len(t) \in Nat /\ s \o t \in Seq(T)
      /\ \A i \in 1 .. Len(s) + Len(t) : (s \o t)[i] = IF i <= Len(s) THEN s[i] ELSE t[i - Len(s)]
  OBVIOUS
<1> DEFINE u == s \o t
<1> HIDE DEF u
<1>2. ASSUME NEW i \in 1 .. Len(u), NEW j \in 1 .. Len(u), u[i] = u[j]
      PROVE  i = j
  <2>0. i \in 1 .. Len(s) + Len(t) /\ j \in 1 .. Len(s) + Len(t)
    BY <1>1 DEF u
  <2>1. \A k \in 1 .. Len(s) + Len(t) : k <= Len(s) => k \in 1 .. Len(s) /\ u[k] = s[k] /\ s[k] \in Range(s)
    BY <1>1 DEF u, Range
  <2>2. ASSUME NEW k \in 1 .. Len(s) + Len(t), ~ (k <= Len(s))
        PROVE  k - Len(s) \in 1 .. Len(t) /\ u[k] = t[k - Len(s)] /\ t[k - Len(s)] \in Range(t)
    <3>1. k - Len(s) \in 1 .. Len(t)
      BY <1>1, <2>2
    <3>2. u[k] = t[k - Len(s)]
      BY <1>1, <2>2 DEF u
    <3> QED
      BY <1>1, <3>1, <3>2 DEF Range
  <2>3. (i <= Len(s)) <=> (j <= Len(s))
    BY <1>2, <2>0, <2>1, <2>2
  <2>4. CASE i <= Len(s)
    BY <1>2, <2>0, <2>1, <2>3, <2>4 DEF Distinct
  <2>5. CASE ~ (i <= Len(s))
    <3>1. i - Len(s) = j - Len(s)
      BY <1>2, <2>0, <2>2, <2>3, <2>5 DEF Distinct
    <3> QED
      BY <1>1, <2>0, <3>1
  <2> QED
    BY <2>4, <2>5
<1>3. Distinct(u)
  BY <1>2 DEF Distinct
<1> QED
  BY <1>1, <1>3 DEF u

-------------------------------------------------------------------------------
(* Kahn's sort *)

\* The edges to m whose source is still to be sorted.
Unmet(steps, m, done) ==
    {e \in Checked!Edges(steps) : Checked!Target(steps, e) = m /\ Checked!Source(steps, e) \notin done}

Sorters(steps) ==
    [queue : Seq(Checked!IdSet(steps)), degree : [Checked!IdSet(steps) -> Int], sorted : Seq(Checked!IdSet(steps))]

\* What is sorted comes behind what it depends on, and what waits for nothing
\* else is in the queue.
InvOfSort(steps, s) ==
    /\ s \in Sorters(steps)
    /\ Distinct(s.queue) /\ Distinct(s.sorted) /\ Range(s.queue) \cap Range(s.sorted) = {}
    /\ \A m \in Checked!IdSet(steps) :
           /\ s.degree[m] = Cardinality(Unmet(steps, m, Range(s.sorted)))
           /\ s.degree[m] = 0 <=> m \in Range(s.queue) \cup Range(s.sorted)
    /\ \A p \in 1 .. Len(s.sorted), e \in Checked!Edges(steps) :
           Checked!Target(steps, e) = s.sorted[p] => \E q \in 1 .. p - 1 : s.sorted[q] = Checked!Source(steps, e)

LEMMA UnmetCounted ==
  ASSUME NEW steps, IsGraph(steps), NEW n, NEW m, NEW done
  PROVE  /\ IsFiniteSet(Unmet(steps, m, done)) /\ Cardinality(Unmet(steps, m, done)) \in Nat
         /\ Cardinality(Unmet(steps, m, done)) = 0 <=> Unmet(steps, m, done) = {}
         /\ Checked!Cardinality(Checked!Between(steps, n, m)) \in Nat
         /\ n \notin done =>
               Cardinality(Unmet(steps, m, done \cup {n}))
                 = Cardinality(Unmet(steps, m, done)) - Checked!Cardinality(Checked!Between(steps, n, m))
<1> DEFINE P == Unmet(steps, m, done)
           Q == Unmet(steps, m, done \cup {n})
           B == Checked!Between(steps, n, m)
           E == Checked!Edges(steps)
<1>1. IsFiniteSet(E)
  BY GraphFacts
<1>2. P \in SUBSET E /\ B \in SUBSET E
  BY DEF Unmet, Checked!Between
<1>3. n \notin done => Q = P \ B /\ P \cap B = B
  BY DEF Unmet, Checked!Between
<1>4. Checked!Cardinality(B) = Cardinality(B)
  BY Copies
<1> HIDE DEF P, Q, B, E
<1>5. IsFiniteSet(P) /\ IsFiniteSet(B)
  BY <1>1, <1>2, FS_Subset
<1>6. Cardinality(P) \in Nat /\ Cardinality(B) \in Nat /\ (Cardinality(P) = 0 <=> P = {})
  BY <1>5, FS_CardinalityType, FS_EmptySet
<1>7. Cardinality(P \ B) = Cardinality(P) - Cardinality(P \cap B)
  BY <1>5, FS_Difference
<1>8. n \notin done => Cardinality(Q) = Cardinality(P) - Cardinality(B)
  BY <1>3, <1>7
<1> QED
  BY <1>4, <1>5, <1>6, <1>8 DEF P, Q, B

\* Some of the names, in the order of the steps.
LEMMA SomeNames ==
  ASSUME NEW steps, IsGraph(steps), NEW S \in SUBSET Checked!IdSet(steps)
  PROVE  LET a == Checked!Among(Checked!Ids(steps), S)
         IN  a \in Seq(Checked!IdSet(steps)) /\ Range(a) = S /\ (WellNamed(steps) => Distinct(a))
<1> DEFINE ids == Checked!Ids(steps)
           names == Checked!IdSet(steps)
           a == Among(ids, S)
<1>1. /\ ids \in Seq(names) /\ Range(ids) = names /\ Len(ids) = Len(steps)
      /\ \A i \in 1 .. Len(steps) : ids[i] = steps[i].id
  BY GraphFacts
<1>2. Checked!Among(ids, S) = a
  BY Copies
<1>3. S \subseteq names
  OBVIOUS
<1>4. WellNamed(steps) => \A i, j \in 1 .. Len(ids) : ids[i] = ids[j] /\ ids[i] \in S => i = j
  BY <1>1 DEF WellNamed
<1> HIDE DEF ids, names
<1>5. a \in Seq(names) /\ Range(a) = Range(ids) \cap S
  BY <1>1, AmongThem
<1>6. (\A i, j \in 1 .. Len(ids) : ids[i] = ids[j] /\ ids[i] \in S => i = j)
         => \A i, j \in 1 .. Len(a) : a[i] = a[j] => i = j
  BY <1>1, AmongThem
<1>7. WellNamed(steps) => Distinct(a)
  BY <1>4, <1>6 DEF Distinct
<1>8. Range(a) = S
  BY <1>1, <1>3, <1>5
<1> HIDE DEF a
<1> QED
  BY <1>2, <1>5, <1>7, <1>8 DEF ids, names

LEMMA StartTyped ==
  ASSUME NEW steps, IsGraph(steps)
  PROVE  Checked!Start(steps) \in Sorters(steps)
<1> DEFINE names == Checked!IdSet(steps)
           degree == Checked!InDegree(steps)
           first == {m \in names : degree[m] = 0}
           a == Checked!Among(Checked!Ids(steps), first)
<1>1. degree \in [names -> Int]
  <2>1. \A m \in names : degree[m] = Cardinality(Unmet(steps, m, {}))
    BY Copies DEF Checked!InDegree, Unmet
  <2>2. ASSUME NEW m \in names PROVE degree[m] \in Nat
    <3>1. Cardinality(Unmet(steps, m, {})) \in Nat
      BY UnmetCounted
    <3> QED
      BY <2>1, <3>1
  <2>3. degree = [m \in names |-> degree[m]]
    BY DEF Checked!InDegree
  <2> HIDE DEF degree, names
  <2> QED
    BY <2>2, <2>3
<1>2. first \in SUBSET names
  OBVIOUS
<1>3. Checked!Start(steps) = [queue |-> a, degree |-> degree, sorted |-> <<>>]
  BY DEF Checked!Start
<1> HIDE DEF first, degree
<1>4. a \in Seq(names)
  BY <1>2, SomeNames
<1> HIDE DEF a, names
<1>5. Checked!Start(steps) \in [queue : Seq(names), degree : [names -> Int], sorted : Seq(names)]
  BY <1>1, <1>3, <1>4
<1> QED
  BY <1>5 DEF Sorters, names

LEMMA StartSorts ==
  ASSUME NEW steps, IsGraph(steps), WellNamed(steps)
  PROVE  InvOfSort(steps, Checked!Start(steps))
<1> DEFINE names == Checked!IdSet(steps)
           degree == Checked!InDegree(steps)
           first == {m \in names : degree[m] = 0}
           a == Checked!Among(Checked!Ids(steps), first)
           s == Checked!Start(steps)
<1>1. \A m \in names : degree[m] = Cardinality(Unmet(steps, m, {}))
  BY Copies DEF Checked!InDegree, Unmet
<1>2. \A m \in names : m \in first <=> degree[m] = 0
  OBVIOUS
<1>3. s.queue = a /\ s.degree = degree /\ s.sorted = <<>>
  BY DEF Checked!Start
<1>4. first \in SUBSET names
  OBVIOUS
<1> HIDE DEF first, degree, s
<1>5. Range(a) = first /\ Distinct(a)
  BY <1>4, SomeNames
<1> HIDE DEF a
<1>6. Range(s.sorted) = {} /\ Distinct(s.sorted) /\ Len(s.sorted) = 0
  BY <1>3 DEF Range, Distinct
<1>7. s \in Sorters(steps)
  BY StartTyped DEF s
<1>8. Distinct(s.queue) /\ Distinct(s.sorted) /\ Range(s.queue) \cap Range(s.sorted) = {}
  BY <1>3, <1>5, <1>6
<1>9. \A m \in names :
         /\ s.degree[m] = Cardinality(Unmet(steps, m, Range(s.sorted)))
         /\ s.degree[m] = 0 <=> m \in Range(s.queue) \cup Range(s.sorted)
  BY <1>1, <1>2, <1>3, <1>5, <1>6
<1>10. \A p \in 1 .. Len(s.sorted) : FALSE
  BY <1>6
<1> HIDE DEF names
<1>11. InvOfSort(steps, s)
  BY <1>7, <1>8, <1>9, <1>10 DEF InvOfSort, names
<1> QED
  BY <1>11 DEF s

\* What a turn of the loop makes of its state.
LEMMA Turned ==
  ASSUME NEW steps, IsGraph(steps), NEW s \in Sorters(steps), s.queue # <<>>
  PROVE  LET n == Head(s.queue)
             t == Checked!Turn(s, steps)
             joining == {m \in Checked!IdSet(steps) : s.degree[m] > 0 /\ t.degree[m] = 0}
         IN  /\ t \in Sorters(steps)
             /\ n \in Checked!IdSet(steps)
             /\ t.sorted = Append(s.sorted, n)
             /\ t.degree = [m \in Checked!IdSet(steps) |-> s.degree[m] - Checked!Cardinality(Checked!Between(steps, n, m))]
             /\ t.queue = Tail(s.queue) \o Checked!Among(Checked!Ids(steps), joining)
<1> DEFINE names == Checked!IdSet(steps)
           n == Head(s.queue)
           t == Checked!Turn(s, steps)
           degree == [m \in names |-> s.degree[m] - Checked!Cardinality(Checked!Between(steps, n, m))]
           joining == {m \in names : s.degree[m] > 0 /\ degree[m] = 0}
           a == Checked!Among(Checked!Ids(steps), joining)
<1>1. s.queue \in Seq(names) /\ s.degree \in [names -> Int] /\ s.sorted \in Seq(names)
  BY DEF Sorters
<1>2. t = [queue |-> Tail(s.queue) \o a, degree |-> degree, sorted |-> Append(s.sorted, n)]
  BY DEF Checked!Turn, Checked!TakeNode, Checked!Leave
<1>3. degree \in [names -> Int]
  <2>1. \A m \in names : Checked!Cardinality(Checked!Between(steps, n, m)) \in Nat
    BY UnmetCounted
  <2> QED
    BY <1>1, <2>1
<1>4. joining \in SUBSET names
  OBVIOUS
<1> HIDE DEF joining
<1>5. a \in Seq(names)
  BY <1>4, SomeNames
<1>6. n \in names /\ Tail(s.queue) \in Seq(names)
  BY <1>1
<1> HIDE DEF a, degree, n, names
<1>7. t \in [queue : Seq(names), degree : [names -> Int], sorted : Seq(names)]
  BY <1>1, <1>2, <1>3, <1>5, <1>6
<1>8. t.queue = Tail(s.queue) \o a /\ t.degree = degree /\ t.sorted = Append(s.sorted, n)
  BY <1>2
<1> QED
  BY <1>6, <1>7, <1>8 DEF a, degree, n, names, joining, Sorters

LEMMA TurnTyped ==
  ASSUME NEW steps, IsGraph(steps), NEW s \in Sorters(steps)
  PROVE  Checked!Turn(s, steps) \in Sorters(steps)
<1>1. CASE s.queue = <<>>
  BY <1>1 DEF Checked!Turn
<1>2. CASE s.queue # <<>>
  BY <1>2, Turned
<1> QED
  BY <1>1, <1>2

LEMMA TurnSorts ==
  ASSUME NEW steps, IsGraph(steps), WellNamed(steps), NEW s, InvOfSort(steps, s)
  PROVE  /\ InvOfSort(steps, Checked!Turn(s, steps))
         /\ s.queue = <<>> => Checked!Turn(s, steps) = s
         /\ s.queue # <<>> => Len(Checked!Turn(s, steps).sorted) = Len(s.sorted) + 1
<1>1. CASE s.queue = <<>>
  BY <1>1 DEF Checked!Turn
<1>2. CASE s.queue # <<>>
  <2> DEFINE names == Checked!IdSet(steps)
             n == Head(s.queue)
             t == Checked!Turn(s, steps)
             joining == {m \in names : s.degree[m] > 0 /\ t.degree[m] = 0}
             a == Checked!Among(Checked!Ids(steps), joining)
             done == Range(s.sorted)
  <2>1. /\ s \in Sorters(steps) /\ Distinct(s.queue) /\ Distinct(s.sorted) /\ Range(s.queue) \cap done = {}
        /\ \A m \in names : /\ s.degree[m] = Cardinality(Unmet(steps, m, done))
                            /\ s.degree[m] = 0 <=> m \in Range(s.queue) \cup done
    BY DEF InvOfSort
  <2>2. s.queue \in Seq(names) /\ s.degree \in [names -> Int] /\ s.sorted \in Seq(names)
    BY <2>1 DEF Sorters
  <2>3. /\ t \in Sorters(steps) /\ n \in names /\ t.sorted = Append(s.sorted, n)
        /\ t.degree = [m \in names |-> s.degree[m] - Checked!Cardinality(Checked!Between(steps, n, m))]
        /\ t.queue = Tail(s.queue) \o a
    <3>1. s \in Sorters(steps)
      BY <2>1
    <3> QED
      BY <1>2, <3>1, Turned
  <2>4. joining \in SUBSET names /\ \A m \in names : m \in joining <=> s.degree[m] > 0 /\ t.degree[m] = 0
    OBVIOUS
  <2> HIDE DEF joining, t
  <2>5. a \in Seq(names) /\ Range(a) = joining /\ Distinct(a)
    BY <2>4, SomeNames
  <2> HIDE DEF a, names
  <2>6. /\ n \in Range(s.queue) /\ Tail(s.queue) \in Seq(names) /\ Distinct(Tail(s.queue))
        /\ Range(Tail(s.queue)) = Range(s.queue) \ {n}
    BY <1>2, <2>1, <2>2, TailOf
  <2> HIDE DEF n
  <2>7. n \notin done /\ s.degree[n] = 0
    BY <2>1, <2>3, <2>6
  <2>8. /\ Range(t.sorted) = done \cup {n} /\ Distinct(t.sorted) /\ Len(t.sorted) = Len(s.sorted) + 1
        /\ \A i \in 1 .. Len(s.sorted) : t.sorted[i] = s.sorted[i]
        /\ t.sorted[Len(s.sorted) + 1] = n
    BY <2>1, <2>2, <2>3, <2>7, AppendOf
  <2>9. \A m \in names : /\ t.degree[m] = Cardinality(Unmet(steps, m, done \cup {n}))
                         /\ t.degree[m] \in Nat /\ s.degree[m] \in Nat /\ t.degree[m] <= s.degree[m]
    <3> SUFFICES ASSUME NEW m \in names
                 PROVE  /\ t.degree[m] = Cardinality(Unmet(steps, m, done \cup {n}))
                        /\ t.degree[m] \in Nat /\ s.degree[m] \in Nat /\ t.degree[m] <= s.degree[m]
      OBVIOUS
    <3> DEFINE between == Checked!Cardinality(Checked!Between(steps, n, m))
               P == Unmet(steps, m, done)
               Q == Unmet(steps, m, done \cup {n})
    <3>1. between \in Nat /\ Cardinality(P) \in Nat /\ Cardinality(Q) \in Nat
      BY UnmetCounted
    <3>2. Cardinality(Q) = Cardinality(P) - between
      BY <2>7, UnmetCounted
    <3>3. t.degree[m] = s.degree[m] - between /\ s.degree[m] = Cardinality(P)
      BY <2>1, <2>3
    <3> HIDE DEF between, P, Q
    <3>4. t.degree[m] = Cardinality(Q) /\ t.degree[m] \in Nat /\ s.degree[m] \in Nat /\ t.degree[m] <= s.degree[m]
      BY <3>1, <3>2, <3>3
    <3> QED
      BY <3>4 DEF Q
  <2>10. \A m \in joining : m \in names /\ s.degree[m] # 0 /\ t.degree[m] = 0
    BY <2>4, <2>9
  <2>11. Range(Tail(s.queue)) \cap joining = {}
    BY <2>1, <2>6, <2>10
  <2>12. Distinct(t.queue) /\ Range(t.queue) = (Range(s.queue) \ {n}) \cup joining
    <3>1. Distinct(t.queue)
      <4> DEFINE rest == Tail(s.queue)
      <4>1. rest \in Seq(names) /\ a \in Seq(names) /\ Distinct(rest) /\ Distinct(a) /\ Range(rest) \cap Range(a) = {}
        BY <2>5, <2>6, <2>11
      <4>2. t.queue = rest \o a
        BY <2>3
      <4> HIDE DEF rest
      <4> QED
        BY <4>1, <4>2, JoinedDistinct
    <3>2. Range(t.queue) = Range(Tail(s.queue)) \cup Range(a)
      <4> DEFINE rest == Tail(s.queue)
      <4>1. rest \in Seq(names) /\ t.queue = rest \o a
        BY <2>3, <2>6
      <4> HIDE DEF rest
      <4>2. Range(rest \o a) = Range(rest) \cup Range(a)
        BY <2>5, <4>1, Joined
      <4> QED
        BY <4>1, <4>2 DEF rest
    <3> QED
      BY <2>5, <2>6, <3>1, <3>2
  <2>13. Range(t.queue) \cap Range(t.sorted) = {}
    BY <2>1, <2>7, <2>8, <2>10, <2>12
  <2>14. ASSUME NEW m \in names PROVE t.degree[m] = 0 <=> m \in Range(t.queue) \cup Range(t.sorted)
    <3>1. CASE s.degree[m] = 0
      <4>1. t.degree[m] = 0
        BY <2>9, <3>1
      <4>2. m \in Range(s.queue) \cup done
        BY <2>1, <3>1
      <4> QED
        BY <2>8, <2>12, <4>1, <4>2
    <3>2. CASE s.degree[m] # 0
      <4>1. m \notin Range(s.queue) \cup done /\ m # n
        BY <2>1, <2>7, <3>2
      <4>2. m \in joining <=> t.degree[m] = 0
        BY <2>4, <2>9, <3>2
      <4> QED
        BY <2>8, <2>12, <4>1, <4>2
    <3> QED
      BY <3>1, <3>2
  <2>15. ASSUME NEW p \in 1 .. Len(t.sorted), NEW e \in Checked!Edges(steps), Checked!Target(steps, e) = t.sorted[p]
         PROVE  \E q \in 1 .. p - 1 : t.sorted[q] = Checked!Source(steps, e)
    <3>0. Len(s.sorted) \in Nat /\ DOMAIN s.sorted = 1 .. Len(s.sorted)
      BY <2>2
    <3>1. CASE p \in 1 .. Len(s.sorted)
      <4>1. PICK q \in 1 .. p - 1 : s.sorted[q] = Checked!Source(steps, e)
        BY <2>8, <2>15, <3>1 DEF InvOfSort
      <4>2. q \in 1 .. Len(s.sorted)
        BY <3>0, <3>1
      <4> QED
        BY <2>8, <4>1, <4>2
    <3>2. CASE p = Len(s.sorted) + 1
      <4>1. Checked!Target(steps, e) = n
        BY <2>8, <2>15, <3>2
      <4>2. Unmet(steps, n, done) = {}
        BY <2>1, <2>3, <2>7, UnmetCounted
      <4>3. Checked!Source(steps, e) \in done
        BY <4>1, <4>2 DEF Unmet
      <4>4. PICK q \in 1 .. Len(s.sorted) : s.sorted[q] = Checked!Source(steps, e)
        BY <3>0, <4>3 DEF Range
      <4>5. q \in 1 .. p - 1
        BY <3>0, <3>2
      <4> QED
        BY <2>8, <4>4, <4>5
    <3> QED
      BY <2>8, <3>0, <3>1, <3>2
  <2>16. InvOfSort(steps, t)
    BY <2>3, <2>8, <2>9, <2>12, <2>13, <2>14, <2>15 DEF InvOfSort, names
  <2> QED
    BY <1>2, <2>8, <2>16 DEF t
<1> QED
  BY <1>1, <1>2

LEMMA SortingRuns ==
  ASSUME NEW steps, IsGraph(steps)
  PROVE  /\ Checked!Sorting(steps)[0] = Checked!Start(steps)
         /\ \A k \in 1 .. Len(steps) : Checked!Sorting(steps)[k] = Checked!Turn(Checked!Sorting(steps)[k - 1], steps)
<1> DEFINE S == Sorters(steps)
           N == Len(steps)
           base == Checked!Start(steps)
           next == [s \in S |-> Checked!Turn(s, steps)]
           run == Checked!Sorting(steps)
<1>1. N \in Nat
  BY GraphFacts
<1>2. base \in S
  BY StartTyped
<1>3. next \in [S -> S] /\ \A s \in S : next[s] = Checked!Turn(s, steps)
  BY TurnTyped
<1> HIDE DEF S, next, N, base
<1>4. PICK f : f \in [0 .. N -> S] /\ f[0] = base /\ \A k \in 1 .. N : f[k] = next[f[k - 1]]
  <2>1. PICK f : Follows(f, S, base, next, N)
    BY <1>1, <1>2, <1>3, Recursion
  <2> QED
    BY <2>1 DEF Follows
<1>5. f = [k \in 0 .. N |-> IF k = 0 THEN base ELSE Checked!Turn(f[k - 1], steps)]
  <2>1. ASSUME NEW k \in 0 .. N PROVE f[k] = IF k = 0 THEN base ELSE Checked!Turn(f[k - 1], steps)
    <3>1. CASE k = 0
      BY <1>4, <3>1
    <3>2. CASE k # 0
      <4>1. k - 1 \in 0 .. N /\ k \in 1 .. N
        BY <1>1, <3>2
      <4>2. f[k - 1] \in S
        BY <1>4, <4>1
      <4>3. f[k] = next[f[k - 1]]
        BY <1>4, <4>1
      <4> QED
        BY <1>3, <3>2, <4>2, <4>3
    <3> QED
      BY <3>1, <3>2
  <2>2. f = [k \in 0 .. N |-> f[k]]
    BY <1>4
  <2> QED
    BY <2>1, <2>2
<1>6. run = CHOOSE g : g = [k \in 0 .. N |-> IF k = 0 THEN base ELSE Checked!Turn(g[k - 1], steps)]
  BY DEF Checked!Sorting, N, base, run
<1> HIDE DEF run, base, N
<1>7. run = [k \in 0 .. N |-> IF k = 0 THEN base ELSE Checked!Turn(run[k - 1], steps)]
  BY <1>5, <1>6
<1>8. 0 \in 0 .. N /\ \A k \in 1 .. N : k \in 0 .. N /\ k # 0
  BY <1>1
<1>9. run[0] = base /\ \A k \in 1 .. N : run[k] = Checked!Turn(run[k - 1], steps)
  BY <1>7, <1>8
<1> QED
  BY <1>9 DEF run, base, N

LEMMA DistinctSize ==
  ASSUME NEW T, IsFiniteSet(T), NEW s \in Seq(T), Distinct(s)
  PROVE  /\ Len(s) \in Nat /\ Cardinality(T) \in Nat /\ Len(s) <= Cardinality(T)
         /\ Len(s) = Cardinality(T) <=> Range(s) = T
<1> DEFINE L == Len(s)
<1>1. L \in Nat /\ DOMAIN s = 1 .. L /\ s \in [1 .. L -> T]
  OBVIOUS
<1>2. \A i, j \in 1 .. L : s[i] = s[j] => i = j
  BY DEF Distinct
<1> HIDE DEF L
<1>3. s \in Injection(1 .. L, T)
  BY <1>1, <1>2 DEF Injection, IsInjective
<1>4. IsFiniteSet(1 .. L) /\ Cardinality(1 .. L) = L
  BY <1>1, FS_Interval
<1>5. L <= Cardinality(T) /\ (L = Cardinality(T) <=> s \in Surjection(1 .. L, T))
  BY <1>3, <1>4, FS_Injection
<1>6. Cardinality(T) \in Nat
  BY FS_CardinalityType
<1>7. s \in Surjection(1 .. L, T) <=> Range(s) = T
  BY <1>1 DEF Surjection, Range
<1> QED
  BY <1>1, <1>5, <1>6, <1>7 DEF L

LEMMA NamesCounted ==
  ASSUME NEW steps, IsGraph(steps), WellNamed(steps)
  PROVE  Cardinality(Checked!IdSet(steps)) = Len(steps)
<1> DEFINE ids == Checked!Ids(steps)
           names == Checked!IdSet(steps)
<1>1. /\ ids \in Seq(names) /\ Range(ids) = names /\ Len(ids) = Len(steps) /\ IsFiniteSet(names)
      /\ \A i \in 1 .. Len(steps) : ids[i] = steps[i].id
  BY GraphFacts
<1>2. Distinct(ids)
  BY <1>1 DEF WellNamed, Distinct
<1> HIDE DEF ids, names
<1>3. Len(ids) = Cardinality(names)
  BY <1>1, <1>2, DistinctSize
<1> QED
  BY <1>1, <1>3 DEF names

\* At its end the sort has an empty queue.
LEMMA SortEnds ==
  ASSUME NEW steps, IsGraph(steps), WellNamed(steps)
  PROVE  InvOfSort(steps, Checked!Sorting(steps)[Len(steps)]) /\ Checked!Sorting(steps)[Len(steps)].queue = <<>>
<1> DEFINE N == Len(steps)
           run == Checked!Sorting(steps)
           names == Checked!IdSet(steps)
           P == {k \in 0 .. N : InvOfSort(steps, run[k]) /\ (run[k].queue = <<>> \/ Len(run[k].sorted) = k)}
<1>1. N \in Nat /\ IsFiniteSet(names)
  BY GraphFacts
<1>2. run[0] = Checked!Start(steps) /\ \A k \in 1 .. N : run[k] = Checked!Turn(run[k - 1], steps)
  BY SortingRuns
<1> HIDE DEF run
<1>3. 0 \in P
  <2>1. InvOfSort(steps, run[0])
    BY <1>2, StartSorts
  <2>2. Len(run[0].sorted) = 0
    BY <1>2 DEF Checked!Start
  <2> QED
    BY <1>1, <2>1, <2>2
<1>4. ASSUME NEW k \in 0 .. N - 1, k \in P PROVE k + 1 \in P
  <2>1. k + 1 \in 1 .. N /\ k + 1 \in 0 .. N /\ (k + 1) - 1 = k
    BY <1>1
  <2>2. run[k + 1] = Checked!Turn(run[k], steps)
    BY <1>2, <2>1
  <2> DEFINE s == run[k]
             t == Checked!Turn(s, steps)
  <2>3. InvOfSort(steps, s) /\ (s.queue = <<>> \/ Len(s.sorted) = k)
    BY <1>4
  <2> HIDE DEF s
  <2>4. InvOfSort(steps, t) /\ (s.queue = <<>> => t = s) /\ (s.queue # <<>> => Len(t.sorted) = Len(s.sorted) + 1)
    BY <2>3, TurnSorts
  <2> HIDE DEF t
  <2>5. t.queue = <<>> \/ Len(t.sorted) = k + 1
    BY <2>3, <2>4
  <2> QED
    BY <2>1, <2>2, <2>4, <2>5 DEF s, t
<1>5. N \in P
  <2> HIDE DEF P
  <2>1. \A k \in 0 .. N : k \in P
    BY <1>1, <1>3, <1>4, Induction
  <2> QED
    BY <1>1, <2>1
<1> DEFINE end == run[N]
<1>6. InvOfSort(steps, end) /\ (end.queue = <<>> \/ Len(end.sorted) = N)
  BY <1>5
<1> HIDE DEF end, N
<1>7. ASSUME Len(end.sorted) = N PROVE end.queue = <<>>
  <2>1. end.queue \in Seq(names) /\ end.sorted \in Seq(names) /\ Distinct(end.sorted) /\ Range(end.queue) \cap Range(end.sorted) = {}
    BY <1>6 DEF InvOfSort, Sorters
  <2>2. Cardinality(names) = N
    BY NamesCounted DEF N
  <2> HIDE DEF names
  <2>3. Range(end.sorted) = names
    BY <1>1, <1>7, <2>1, <2>2, DistinctSize
  <2>4. ASSUME end.queue # <<>> PROVE FALSE
    <3>1. 1 \in DOMAIN end.queue /\ end.queue[1] \in names
      BY <2>1, <2>4
    <3> QED
      BY <2>1, <2>3, <3>1 DEF Range
  <2> QED
    BY <2>4
<1> QED
  BY <1>6, <1>7 DEF end, run, N

LEMMA EdgesAre ==
  ASSUME NEW steps, IsGraph(steps)
  PROVE  /\ \A e \in Checked!Edges(steps) : \E i \in 1 .. Len(steps) : \E j \in DOMAIN steps[i].dependsOn :
                Checked!Target(steps, e) = steps[i].id /\ Checked!Source(steps, e) = steps[i].dependsOn[j]
         /\ \A i \in 1 .. Len(steps) : \A j \in DOMAIN steps[i].dependsOn : \E e \in Checked!Edges(steps) :
                Checked!Target(steps, e) = steps[i].id /\ Checked!Source(steps, e) = steps[i].dependsOn[j]
<1>0. DOMAIN steps = 1 .. Len(steps)
  BY GraphFacts
<1>1. ASSUME NEW e \in Checked!Edges(steps)
      PROVE  \E i \in 1 .. Len(steps) : \E j \in DOMAIN steps[i].dependsOn :
                Checked!Target(steps, e) = steps[i].id /\ Checked!Source(steps, e) = steps[i].dependsOn[j]
  <2>1. PICK i \in 1 .. Len(steps) : e \in {i} \X DOMAIN steps[i].dependsOn
    BY <1>0 DEF Checked!Edges
  <2>2. e[1] = i /\ e[2] \in DOMAIN steps[i].dependsOn
    BY <2>1
  <2> QED
    BY <2>2 DEF Checked!Target, Checked!Source
<1>2. ASSUME NEW i \in 1 .. Len(steps), NEW j \in DOMAIN steps[i].dependsOn
      PROVE  \E e \in Checked!Edges(steps) :
                Checked!Target(steps, e) = steps[i].id /\ Checked!Source(steps, e) = steps[i].dependsOn[j]
  <2> DEFINE e == <<i, j>>
  <2>1. e \in {i} \X DOMAIN steps[i].dependsOn
    OBVIOUS
  <2>2. e \in Checked!Edges(steps)
    BY <1>0, <2>1 DEF Checked!Edges
  <2>3. e[1] = i /\ e[2] = j
    OBVIOUS
  <2> HIDE DEF e
  <2> QED
    BY <2>2, <2>3 DEF Checked!Target, Checked!Source
<1> QED
  BY <1>1, <1>2

Stuck(steps) == UNION {ids \in SUBSET Checked!IdSet(steps) : Checked!Waiting(steps, ids)}

\* Of steps that wait for each other none is ever sorted.
LEMMA WaitingIsNotSorted ==
  ASSUME NEW steps, IsGraph(steps), NEW s, InvOfSort(steps, s), NEW ids, Checked!Waiting(steps, ids)
  PROVE  ids \cap Range(s.sorted) = {}
<1> DEFINE L == Len(s.sorted)
           P == {k \in 0 .. L : \A p \in 1 .. k : s.sorted[p] \notin ids}
<1>1. L \in Nat /\ DOMAIN s.sorted = 1 .. L
  BY DEF InvOfSort, Sorters
<1> HIDE DEF L
<1>2. 0 \in P
  BY <1>1
<1>3. ASSUME NEW k \in 0 .. L - 1, k \in P PROVE k + 1 \in P
  <2>1. k + 1 \in 1 .. L /\ k + 1 \in 0 .. L /\ \A p \in 1 .. k + 1 : p \in 1 .. k \/ p = k + 1
    BY <1>1
  <2>2. ASSUME s.sorted[k + 1] \in ids PROVE FALSE
    <3>1. PICK i \in DOMAIN steps : steps[i].id = s.sorted[k + 1] /\ Checked!Range(steps[i].dependsOn) \cap ids # {}
      BY <2>2 DEF Checked!Waiting
    <3>2. PICK j \in DOMAIN steps[i].dependsOn : steps[i].dependsOn[j] \in ids
      BY <3>1 DEF Checked!Range
    <3>3. i \in 1 .. Len(steps)
      BY GraphFacts
    <3>4. PICK e \in Checked!Edges(steps) :
             Checked!Target(steps, e) = steps[i].id /\ Checked!Source(steps, e) = steps[i].dependsOn[j]
      BY <3>3, EdgesAre
    <3>5. PICK q \in 1 .. (k + 1) - 1 : s.sorted[q] = Checked!Source(steps, e)
      BY <2>1, <3>1, <3>4 DEF InvOfSort, L
    <3>6. q \in 1 .. k
      BY <1>1
    <3> QED
      BY <1>3, <3>2, <3>4, <3>5, <3>6
  <2> QED
    BY <1>3, <2>1, <2>2
<1>4. L \in P
  <2> HIDE DEF P
  <2>1. \A k \in 0 .. L : k \in P
    BY <1>1, <1>2, <1>3, Induction
  <2> QED
    BY <1>1, <2>1
<1> QED
  BY <1>1, <1>4 DEF Range

\* Kahn's sort finds all that can never begin, and, if there is nothing of the
\* kind, an order in which everything comes behind what it depends on.
LEMMA KahnIsRight ==
  ASSUME NEW steps, IsGraph(steps), WellNamed(steps)
  PROVE  /\ Checked!Kahn(steps).remaining = Stuck(steps)
         /\ Checked!Kahn(steps).ok <=> Stuck(steps) = {}
         /\ Checked!Kahn(steps).ok =>
                LET sorted == Checked!Kahn(steps).sorted
                IN  /\ sorted \in Seq(Checked!IdSet(steps)) /\ Range(sorted) = Checked!IdSet(steps)
                    /\ Len(sorted) = Len(steps) /\ Distinct(sorted)
                    /\ \A p \in 1 .. Len(sorted), e \in Checked!Edges(steps) :
                          Checked!Target(steps, e) = sorted[p] => \E q \in 1 .. p - 1 : sorted[q] = Checked!Source(steps, e)
<1> DEFINE end == Checked!Sorting(steps)[Len(steps)]
           names == Checked!IdSet(steps)
           done == Range(end.sorted)
           kahn == Checked!Kahn(steps)
           left == names \ done
<1>1. InvOfSort(steps, end) /\ end.queue = <<>>
  BY SortEnds
<1>2. /\ kahn.ok <=> Len(end.sorted) = Len(steps)
      /\ kahn.ok => kahn.sorted = end.sorted
      /\ kahn.remaining = {n \in names : end.degree[n] > 0}
  BY DEF Checked!Kahn
<1> HIDE DEF end, kahn
<1>3. /\ end.sorted \in Seq(names) /\ end.degree \in [names -> Int] /\ Distinct(end.sorted)
      /\ \A m \in names : /\ end.degree[m] = Cardinality(Unmet(steps, m, done))
                          /\ end.degree[m] = 0 <=> m \in done
      /\ \A p \in 1 .. Len(end.sorted), e \in Checked!Edges(steps) :
             Checked!Target(steps, e) = end.sorted[p] => \E q \in 1 .. p - 1 : end.sorted[q] = Checked!Source(steps, e)
  <2>1. Range(end.queue) = {}
    BY <1>1 DEF Range
  <2> QED
    BY <1>1, <2>1 DEF InvOfSort, Sorters
<1>4. ASSUME NEW m \in names
      PROVE  /\ end.degree[m] \in Nat
             /\ m \notin done => Unmet(steps, m, done) # {}
  <2> DEFINE P == Unmet(steps, m, done)
  <2>1. Cardinality(P) \in Nat /\ (Cardinality(P) = 0 <=> P = {})
    BY UnmetCounted
  <2>2. end.degree[m] = Cardinality(P) /\ (end.degree[m] = 0 <=> m \in done)
    BY <1>3
  <2> HIDE DEF P
  <2>3. end.degree[m] \in Nat /\ (m \notin done => P # {})
    BY <2>1, <2>2
  <2> QED
    BY <2>3 DEF P
<1>5. kahn.remaining = left
  BY <1>2, <1>3, <1>4
<1>6. Checked!Waiting(steps, left)
  <2> SUFFICES ASSUME NEW id \in left
               PROVE  \E i \in DOMAIN steps : steps[i].id = id /\ Checked!Range(steps[i].dependsOn) \cap left # {}
    BY DEF Checked!Waiting
  <2>1. PICK e \in Checked!Edges(steps) : Checked!Target(steps, e) = id /\ Checked!Source(steps, e) \notin done
    BY <1>4 DEF Unmet
  <2>2. Checked!Source(steps, e) \in left
    BY <2>1, GraphFacts
  <2>3. PICK i \in 1 .. Len(steps) : \E j \in DOMAIN steps[i].dependsOn :
           Checked!Target(steps, e) = steps[i].id /\ Checked!Source(steps, e) = steps[i].dependsOn[j]
    BY EdgesAre
  <2>4. i \in DOMAIN steps
    BY GraphFacts
  <2>5. Checked!Source(steps, e) \in Checked!Range(steps[i].dependsOn)
    BY <2>3 DEF Checked!Range
  <2> QED
    BY <2>1, <2>2, <2>3, <2>4, <2>5
<1>7. Stuck(steps) = left
  <2>1. \A ids : Checked!Waiting(steps, ids) => ids \cap done = {}
    BY <1>1, WaitingIsNotSorted
  <2>2. left \in SUBSET names
    OBVIOUS
  <2> HIDE DEF done
  <2> QED
    BY <1>6, <2>1, <2>2 DEF Stuck
<1>8. Len(end.sorted) = Len(steps) <=> done = names
  <2>1. Cardinality(names) = Len(steps) /\ IsFiniteSet(names)
    BY NamesCounted, GraphFacts
  <2> HIDE DEF names
  <2>2. Len(end.sorted) = Cardinality(names) <=> Range(end.sorted) = names
    BY <1>3, <2>1, DistinctSize
  <2> QED
    BY <2>1, <2>2
<1>9. done \subseteq names
  BY <1>3 DEF Range
<1>10. kahn.ok <=> left = {}
  BY <1>2, <1>8, <1>9
<1> QED
  BY <1>2, <1>3, <1>5, <1>7, <1>8, <1>10 DEF kahn

\* What the validator of workflows answers, whatever the steps.
LEMMA WorkflowsAreJudged ==
  ASSUME NEW steps, IsGraph(steps)
  PROVE  LET verdict == Checked!ValidateDAG(steps)
             names == Checked!IdSet(steps)
             named == /\ Checked!Cardinality(names) = Len(steps)
                      /\ \A s \in Checked!Range(steps) : Checked!Range(s.dependsOn) \subseteq names
         IN  /\ verdict.valid <=> steps # <<>> /\ named /\ Stuck(steps) = {}
             /\ verdict.valid =>
                    /\ Checked!Range(verdict.sorted) = names /\ Len(verdict.sorted) = Len(steps)
                    /\ \A i, j \in DOMAIN verdict.sorted, s \in Checked!Range(steps) :
                           verdict.sorted[i] = s.id /\ verdict.sorted[j] \in Checked!Range(s.dependsOn) => j < i
             /\ ~ verdict.valid => \A e \in verdict.errors : e.code = "WF_CYCLE" => e.steps = Stuck(steps)
<1> DEFINE verdict == Checked!ValidateDAG(steps)
           kahn == Checked!Kahn(steps)
           names == Checked!IdSet(steps)
           unique == \A i, j \in 1 .. Len(steps) : steps[i].id = steps[j].id => i = j
           known == \A i \in 1 .. Len(steps) : \A j \in DOMAIN steps[i].dependsOn : steps[i].dependsOn[j] \in names
           stuck == Stuck(steps)
<1>1. /\ Len(steps) \in Nat /\ DOMAIN steps = 1 .. Len(steps) /\ IsFiniteSet(names)
      /\ names = {steps[i].id : i \in 1 .. Len(steps)}
  BY GraphFacts
<1>2. \A x : x \in Checked!Range(steps) <=> \E i \in 1 .. Len(steps) : x = steps[i]
  BY <1>1 DEF Checked!Range
<1>3. \A i \in 1 .. Len(steps) : \A x : x \in Checked!Range(steps[i].dependsOn) <=> \E j \in DOMAIN steps[i].dependsOn : x = steps[i].dependsOn[j]
  BY DEF Checked!Range
<1>4. Checked!Cardinality(names) = Len(steps) <=> unique
  <2> DEFINE ids == Checked!Ids(steps)
  <2>1. /\ ids \in Seq(names) /\ Len(ids) = Len(steps) /\ Range(ids) = names
        /\ \A i \in 1 .. Len(steps) : ids[i] = steps[i].id
    BY GraphFacts
  <2> HIDE DEF ids, names
  <2>2. ids \in [1 .. Len(steps) -> names] /\ DOMAIN ids = 1 .. Len(steps)
    BY <1>1, <2>1
  <2>3. ids \in Surjection(1 .. Len(steps), names)
    BY <2>1, <2>2 DEF Surjection, Range
  <2>4. IsFiniteSet(1 .. Len(steps)) /\ Cardinality(1 .. Len(steps)) = Len(steps)
    <3> DEFINE N == Len(steps)
    <3>1. N \in Nat
      BY <1>1
    <3> HIDE DEF N
    <3>2. IsFiniteSet(1 .. N) /\ Cardinality(1 .. N) = IF 1 > N THEN 0 ELSE N - 1 + 1
      BY <3>1, FS_Interval
    <3>3. (IF 1 > N THEN 0 ELSE N - 1 + 1) = N
      BY <3>1
    <3> QED
      BY <3>2, <3>3 DEF N
  <2>5. Cardinality(names) = Cardinality(1 .. Len(steps)) <=> ids \in Injection(1 .. Len(steps), names)
    BY <2>3, <2>4, FS_Surjection
  <2>6. ids \in Injection(1 .. Len(steps), names) <=> unique
    BY <2>1, <2>2 DEF Injection, IsInjective
  <2>7. Checked!Cardinality(names) = Cardinality(names)
    BY Copies
  <2> QED
    BY <2>4, <2>5, <2>6, <2>7
<1>5. (\A s \in Checked!Range(steps) : Checked!Range(s.dependsOn) \subseteq names) <=> known
  <2>1. ASSUME \A s \in Checked!Range(steps) : Checked!Range(s.dependsOn) \subseteq names,
               NEW i \in 1 .. Len(steps), NEW j \in DOMAIN steps[i].dependsOn
        PROVE  steps[i].dependsOn[j] \in names
    <3>1. steps[i] \in Checked!Range(steps)
      BY <1>2
    <3>2. steps[i].dependsOn[j] \in Checked!Range(steps[i].dependsOn)
      BY <1>3
    <3> QED
      BY <2>1, <3>1, <3>2
  <2>2. ASSUME known, NEW s \in Checked!Range(steps), NEW x \in Checked!Range(s.dependsOn) PROVE x \in names
    <3>1. PICK i \in 1 .. Len(steps) : s = steps[i]
      BY <1>2
    <3>2. PICK j \in DOMAIN steps[i].dependsOn : x = steps[i].dependsOn[j]
      BY <1>3, <2>2, <3>1
    <3> QED
      BY <2>2, <3>2
  <2> QED
    BY <2>1, <2>2
<1>6. Checked!Repeated(steps) = {} <=> unique
  <2>1. Checked!Repeated(steps) = {} <=> ~ \E i \in 1 .. Len(steps) : \E k \in 1 .. i - 1 : steps[k].id = steps[i].id
    BY <1>1 DEF Checked!Repeated
  <2>2. ASSUME \A i \in 1 .. Len(steps) : \A k \in 1 .. i - 1 : steps[k].id # steps[i].id PROVE unique
    <3> SUFFICES ASSUME NEW i \in 1 .. Len(steps), NEW j \in 1 .. Len(steps), steps[i].id = steps[j].id, i # j PROVE FALSE
      OBVIOUS
    <3>1. i < j => i \in 1 .. j - 1
      BY <1>1
    <3>2. j < i => j \in 1 .. i - 1
      BY <1>1
    <3>3. i < j \/ j < i
      BY <1>1
    <3> QED
      BY <2>2, <3>1, <3>2, <3>3
  <2>3. ASSUME unique, NEW i \in 1 .. Len(steps), NEW k \in 1 .. i - 1 PROVE steps[k].id # steps[i].id
    <3>1. k \in 1 .. Len(steps) /\ k # i
      BY <1>1
    <3> QED
      BY <2>3, <3>1
  <2> QED
    BY <2>1, <2>2, <2>3
<1>7. Checked!DependencyErrors(steps) = {} <=>
         \A i \in 1 .. Len(steps) : \A x \in Checked!Range(steps[i].dependsOn) : x # steps[i].id /\ x \in names
  <2> DEFINE Bad(t) == {d \in Checked!Range(t.dependsOn) : d = t.id \/ d \notin names}
             Error(t, d) == [code |-> IF d = t.id THEN "WF_SELF_LOOP" ELSE "WF_UNKNOWN_DEPENDENCY", step |-> t.id]
             Errors(t) == {Error(t, d) : d \in Bad(t)}
  <2>1. Checked!DependencyErrors(steps) = UNION {Errors(t) : t \in Checked!Range(steps)}
    BY DEF Checked!DependencyErrors
  <2>2. ASSUME NEW t PROVE Errors(t) = {} <=> Bad(t) = {}
    <3> HIDE DEF Error, Bad
    <3> QED
      OBVIOUS
  <2> HIDE DEF Errors
  <2>3. Checked!DependencyErrors(steps) = {} <=> \A t \in Checked!Range(steps) : Errors(t) = {}
    BY <2>1
  <2>4. ASSUME \A t \in Checked!Range(steps) : Bad(t) = {},
               NEW i \in 1 .. Len(steps), NEW x \in Checked!Range(steps[i].dependsOn)
        PROVE  x # steps[i].id /\ x \in names
    <3>1. steps[i] \in Checked!Range(steps)
      BY <1>2
    <3>2. Bad(steps[i]) = {}
      BY <2>4, <3>1
    <3> QED
      BY <3>2
  <2>5. ASSUME \A i \in 1 .. Len(steps) : \A x \in Checked!Range(steps[i].dependsOn) : x # steps[i].id /\ x \in names,
               NEW t \in Checked!Range(steps)
        PROVE  Bad(t) = {}
    <3>1. PICK i \in 1 .. Len(steps) : t = steps[i]
      BY <1>2
    <3> QED
      BY <2>5, <3>1
  <2> QED
    BY <2>2, <2>3, <2>4, <2>5
<1>8. ASSUME NEW i \in 1 .. Len(steps), steps[i].id \in Checked!Range(steps[i].dependsOn) PROVE stuck # {}
  <2> DEFINE ids == {steps[i].id}
  <2>1. ids \in SUBSET names
    BY <1>1
  <2>2. Checked!Waiting(steps, ids)
    BY <1>1, <1>8 DEF Checked!Waiting
  <2> QED
    BY <2>1, <2>2 DEF Stuck
<1> HIDE DEF stuck, names
<1>9. unique /\ known <=> WellNamed(steps)
  BY DEF WellNamed, names
<1>10. ASSUME WellNamed(steps)
       PROVE  /\ kahn.remaining = stuck /\ (kahn.ok <=> stuck = {})
              /\ kahn.ok => /\ Checked!Range(kahn.sorted) = names /\ Len(kahn.sorted) = Len(steps)
                            /\ \A i, j \in DOMAIN kahn.sorted, s \in Checked!Range(steps) :
                                   kahn.sorted[i] = s.id /\ kahn.sorted[j] \in Checked!Range(s.dependsOn) => j < i
  <2>1. kahn.remaining = stuck /\ (kahn.ok <=> stuck = {})
    BY <1>10, KahnIsRight DEF stuck
  <2>2. ASSUME kahn.ok
        PROVE  /\ Checked!Range(kahn.sorted) = names /\ Len(kahn.sorted) = Len(steps)
               /\ \A i, j \in DOMAIN kahn.sorted, s \in Checked!Range(steps) :
                      kahn.sorted[i] = s.id /\ kahn.sorted[j] \in Checked!Range(s.dependsOn) => j < i
    <3> DEFINE sorted == kahn.sorted
    <3>1. /\ sorted \in Seq(names) /\ Range(sorted) = names /\ Len(sorted) = Len(steps) /\ Distinct(sorted)
          /\ \A p \in 1 .. Len(sorted), e \in Checked!Edges(steps) :
                Checked!Target(steps, e) = sorted[p] => \E q \in 1 .. p - 1 : sorted[q] = Checked!Source(steps, e)
      BY <1>10, <2>2, KahnIsRight DEF names
    <3> HIDE DEF sorted
    <3>2. Checked!Range(sorted) = names
      BY <3>1, Copies
    <3>3. DOMAIN sorted = 1 .. Len(sorted) /\ Len(sorted) \in Nat
      BY <3>1
    <3>4. ASSUME NEW p \in DOMAIN sorted, NEW r \in DOMAIN sorted, NEW s \in Checked!Range(steps),
                 sorted[p] = s.id, sorted[r] \in Checked!Range(s.dependsOn)
          PROVE  r < p
      <4>1. PICK i \in 1 .. Len(steps) : s = steps[i]
        BY <1>2
      <4>2. PICK j \in DOMAIN steps[i].dependsOn : sorted[r] = steps[i].dependsOn[j]
        BY <1>3, <3>4, <4>1
      <4>3. PICK e \in Checked!Edges(steps) :
               Checked!Target(steps, e) = steps[i].id /\ Checked!Source(steps, e) = steps[i].dependsOn[j]
        BY EdgesAre
      <4>4. PICK q \in 1 .. p - 1 : sorted[q] = Checked!Source(steps, e)
        BY <3>1, <3>3, <3>4, <4>1, <4>3
      <4>5. q \in 1 .. Len(sorted) /\ q < p
        BY <3>3
      <4>6. q = r
        BY <3>1, <3>3, <4>2, <4>3, <4>4, <4>5 DEF Distinct
      <4> QED
        BY <4>5, <4>6
    <3> QED
      BY <3>1, <3>2, <3>4 DEF sorted
  <2> QED
    BY <2>1, <2>2
<1>11. \A i \in 1 .. Len(steps) : \A x \in Checked!Range(steps[i].dependsOn) : known => x \in names
  BY <1>3
<1>12. ASSUME Checked!DependencyErrors(steps) = {} PROVE known
  <2>1. ASSUME NEW i \in 1 .. Len(steps), NEW j \in DOMAIN steps[i].dependsOn PROVE steps[i].dependsOn[j] \in names
    <3>1. steps[i].dependsOn[j] \in Checked!Range(steps[i].dependsOn)
      BY <1>3
    <3> QED
      BY <1>7, <1>12, <3>1
  <2> QED
    BY <2>1
<1>13. ASSUME stuck = {} PROVE known <=> Checked!DependencyErrors(steps) = {}
  <2>1. ASSUME known, NEW i \in 1 .. Len(steps), NEW x \in Checked!Range(steps[i].dependsOn)
        PROVE  x # steps[i].id /\ x \in names
    BY <1>8, <1>11, <1>13, <2>1
  <2>2. ASSUME known PROVE Checked!DependencyErrors(steps) = {}
    BY <1>7, <2>1, <2>2
  <2> QED
    BY <1>12, <2>2
<1> HIDE DEF kahn, unique, known
<1> QED
  <2>1. CASE steps = <<>>
    <3>1. verdict = [valid |-> FALSE, errors |-> {[code |-> "WF_NO_ENTRY_POINT"]}]
      BY <2>1 DEF Checked!ValidateDAG, Checked!Refused
    <3> HIDE DEF verdict
    <3>2. ~ verdict.valid /\ \A e \in verdict.errors : e.code # "WF_CYCLE"
      BY <3>1
    <3> QED
      BY <2>1, <3>2 DEF verdict
  <2>2. CASE steps # <<>> /\ Checked!Repeated(steps) # {}
    <3>1. verdict = [valid |-> FALSE, errors |-> {[code |-> "WF_DUPLICATE_ID", step |-> id] : id \in Checked!Repeated(steps)}]
      BY <2>2 DEF Checked!ValidateDAG, Checked!Refused
    <3> HIDE DEF verdict
    <3>2. ~ verdict.valid /\ \A e \in verdict.errors : e.code # "WF_CYCLE"
      BY <3>1
    <3>3. ~ (Checked!Cardinality(names) = Len(steps))
      BY <1>4, <1>6, <2>2
    <3> QED
      BY <3>2, <3>3 DEF verdict, names
  <2>3. CASE steps # <<>> /\ Checked!Repeated(steps) = {} /\ Checked!DependencyErrors(steps) # {}
    <3>1. verdict = [valid |-> FALSE, errors |-> Checked!DependencyErrors(steps)]
      BY <2>3 DEF Checked!ValidateDAG, Checked!Refused
    <3> HIDE DEF verdict
    <3>2. \A e \in Checked!DependencyErrors(steps) : e.code # "WF_CYCLE"
      BY DEF Checked!DependencyErrors
    <3>3. ~ verdict.valid /\ \A e \in verdict.errors : e.code # "WF_CYCLE"
      BY <3>1, <3>2
    <3>4. ~ (known /\ stuck = {})
      BY <1>13, <2>3
    <3> QED
      BY <1>5, <3>3, <3>4 DEF verdict, names, stuck
  <2>4. CASE steps # <<>> /\ Checked!Repeated(steps) = {} /\ Checked!DependencyErrors(steps) = {}
    <3>1. WellNamed(steps) /\ unique /\ known
      BY <1>6, <1>9, <1>12, <2>4
    <3>2. /\ Checked!Cardinality(names) = Len(steps)
          /\ \A s \in Checked!Range(steps) : Checked!Range(s.dependsOn) \subseteq names
      BY <1>4, <1>5, <3>1
    <3>3. verdict = IF kahn.ok THEN [valid |-> TRUE, sorted |-> kahn.sorted]
                    ELSE [valid |-> FALSE, errors |-> {[code |-> "WF_CYCLE", steps |-> kahn.remaining]}]
      BY <2>4 DEF Checked!ValidateDAG, Checked!Refused, kahn
    <3> HIDE DEF verdict
    <3>4. CASE kahn.ok
      <4>1. verdict.valid /\ verdict.sorted = kahn.sorted /\ stuck = {}
        BY <1>10, <3>1, <3>3, <3>4
      <4> QED
        BY <1>10, <2>4, <3>1, <3>2, <3>4, <4>1 DEF verdict, names, stuck
    <3>5. CASE ~ kahn.ok
      <4>1. ~ verdict.valid /\ (\A e \in verdict.errors : e.steps = stuck) /\ stuck # {}
        BY <1>10, <3>1, <3>3, <3>5
      <4> QED
        BY <4>1 DEF verdict, names, stuck
    <3> QED
      BY <3>4, <3>5
  <2> QED
    BY <2>1, <2>2, <2>3, <2>4

-------------------------------------------------------------------------------
(* The search of a state machine. *)

\* Where the states of a set lead, and no farther.
Targets(fsm, states) == {t.target : t \in UNION {fsm.states[s].on : s \in states}}

LEMMA SearchingRuns ==
  ASSUME NEW fsm, IsFiniteSet(DOMAIN fsm.states)
  PROVE  /\ Cardinality(DOMAIN fsm.states) \in Nat
         /\ Checked!Cardinality(DOMAIN fsm.states) = Cardinality(DOMAIN fsm.states)
         /\ Checked!Searching(fsm)[0] = {fsm.initial}
         /\ \A k \in 1 .. Cardinality(DOMAIN fsm.states) :
                Checked!Searching(fsm)[k] = Checked!Onward(fsm, Checked!Searching(fsm)[k - 1])
<1> DEFINE names == DOMAIN fsm.states
           S == SUBSET ({fsm.initial} \cup Targets(fsm, names))
           N == Cardinality(names)
           base == {fsm.initial}
           next == [s \in S |-> Checked!Onward(fsm, s)]
           run == Checked!Searching(fsm)
<1>1. N \in Nat /\ Checked!Cardinality(names) = N
  BY Copies, FS_CardinalityType
<1>2. base \in S
  OBVIOUS
<1>3. next \in [S -> S] /\ \A s \in S : next[s] = Checked!Onward(fsm, s)
  <2>1. ASSUME NEW s \in S PROVE Checked!Onward(fsm, s) \in S
    BY DEF Checked!Onward, Targets
  <2> HIDE DEF S
  <2> QED
    BY <2>1
<1> HIDE DEF S, next, N, base
<1>4. PICK f : f \in [0 .. N -> S] /\ f[0] = base /\ \A k \in 1 .. N : f[k] = next[f[k - 1]]
  <2>1. PICK f : Follows(f, S, base, next, N)
    BY <1>1, <1>2, <1>3, Recursion
  <2> QED
    BY <2>1 DEF Follows
<1>5. f = [k \in 0 .. N |-> IF k = 0 THEN base ELSE Checked!Onward(fsm, f[k - 1])]
  <2>1. ASSUME NEW k \in 0 .. N PROVE f[k] = IF k = 0 THEN base ELSE Checked!Onward(fsm, f[k - 1])
    <3>1. CASE k = 0
      BY <1>4, <3>1
    <3>2. CASE k # 0
      <4>1. k - 1 \in 0 .. N /\ k \in 1 .. N
        BY <1>1, <3>2
      <4>2. f[k - 1] \in S
        BY <1>4, <4>1
      <4>3. f[k] = next[f[k - 1]]
        BY <1>4, <4>1
      <4> QED
        BY <1>3, <3>2, <4>2, <4>3
    <3> QED
      BY <3>1, <3>2
  <2>2. f = [k \in 0 .. N |-> f[k]]
    BY <1>4
  <2> QED
    BY <2>1, <2>2
<1>6. run = CHOOSE g : g = [k \in 0 .. N |-> IF k = 0 THEN base ELSE Checked!Onward(fsm, g[k - 1])]
  BY <1>1 DEF Checked!Searching, base
<1> HIDE DEF run
<1>7. run = [k \in 0 .. N |-> IF k = 0 THEN base ELSE Checked!Onward(fsm, run[k - 1])]
  BY <1>5, <1>6
<1>8. 0 \in 0 .. N /\ \A k \in 1 .. N : k \in 0 .. N /\ k # 0
  BY <1>1
<1>9. run[0] = base /\ \A k \in 1 .. N : run[k] = Checked!Onward(fsm, run[k - 1])
  BY <1>7, <1>8
<1> QED
  BY <1>1, <1>9 DEF run, base, N

\* A set of states without the initial one that no other state leads to is
\* never met.
LEMMA SearchAvoids ==
  ASSUME NEW fsm, IsFiniteSet(DOMAIN fsm.states), NEW set, fsm.initial \notin set,
         \A s \in (DOMAIN fsm.states) \ set : \A t \in fsm.states[s].on : t.target \notin set
  PROVE  Checked!Reachable(fsm) \cap set = {}
<1> DEFINE names == DOMAIN fsm.states
           N == Cardinality(names)
           run == Checked!Searching(fsm)
           P == {k \in 0 .. N : run[k] \cap set = {}}
<1>1. /\ N \in Nat /\ run[0] = {fsm.initial}
      /\ \A k \in 1 .. N : run[k] = Checked!Onward(fsm, run[k - 1])
  BY SearchingRuns
<1>2. Checked!Reachable(fsm) = run[N]
  BY SearchingRuns DEF Checked!Reachable
<1> HIDE DEF run, N
<1>3. 0 \in P
  BY <1>1
<1>4. ASSUME NEW k \in 0 .. N - 1, k \in P PROVE k + 1 \in P
  <2>1. k + 1 \in 1 .. N /\ k + 1 \in 0 .. N /\ (k + 1) - 1 = k
    BY <1>1
  <2>2. run[k + 1] = Checked!Onward(fsm, run[k])
    BY <1>1, <2>1
  <2>3. \A s \in run[k] \cap names : s \in names \ set
    BY <1>4
  <2>4. ASSUME NEW x \in run[k + 1] PROVE x \notin set
    <3>1. CASE x \in run[k]
      BY <1>4, <3>1
    <3>2. CASE x \notin run[k]
      <4>1. PICK s \in run[k] \cap names : \E t \in fsm.states[s].on : x = t.target
        BY <2>2, <2>4, <3>2 DEF Checked!Onward
      <4> QED
        BY <2>3, <4>1
    <3> QED
      BY <3>1, <3>2
  <2> QED
    BY <2>1, <2>4
<1>5. N \in P
  <2> HIDE DEF P
  <2>1. \A k \in 0 .. N : k \in P
    BY <1>1, <1>3, <1>4, Induction
  <2> QED
    BY <1>1, <2>1
<1> QED
  BY <1>2, <1>5

\* As many turns as there are states are enough: after them nothing new is met.
LEMMA SearchEnds ==
  ASSUME NEW fsm, IsFiniteSet(DOMAIN fsm.states), fsm.initial \in DOMAIN fsm.states
  PROVE  LET names == DOMAIN fsm.states
             found == Checked!Reachable(fsm) \cap names
         IN  fsm.initial \in found /\ Targets(fsm, found) \cap names \subseteq found
<1> DEFINE names == DOMAIN fsm.states
           N == Cardinality(names)
           run == Checked!Searching(fsm)
           Met(k) == run[k] \cap names
           Saturated(k) == Targets(fsm, Met(k)) \cap names \subseteq Met(k)
           P == {k \in 0 .. N : fsm.initial \in run[k] /\ (Saturated(k) \/ Cardinality(Met(k)) > k)}
<1>1. /\ N \in Nat /\ run[0] = {fsm.initial}
      /\ \A k \in 1 .. N : run[k] = Checked!Onward(fsm, run[k - 1])
  BY SearchingRuns
<1>2. Checked!Reachable(fsm) = run[N]
  BY SearchingRuns DEF Checked!Reachable
<1>3. \A k : IsFiniteSet(Met(k)) /\ Cardinality(Met(k)) \in Nat /\ Cardinality(Met(k)) <= N
  <2> SUFFICES ASSUME NEW k PROVE IsFiniteSet(Met(k)) /\ Cardinality(Met(k)) \in Nat /\ Cardinality(Met(k)) <= N
    OBVIOUS
  <2>1. Met(k) \in SUBSET names
    OBVIOUS
  <2> HIDE DEF Met, names
  <2>2. IsFiniteSet(Met(k)) /\ Cardinality(Met(k)) <= N
    BY <2>1, FS_Subset DEF names
  <2> QED
    BY <2>2, FS_CardinalityType
<1> HIDE DEF run, N
<1>4. 0 \in P
  <2>1. Met(0) = {fsm.initial}
    BY <1>1
  <2>2. Cardinality({fsm.initial}) = 1
    BY FS_Singleton
  <2>3. fsm.initial \in run[0] /\ 0 \in 0 .. N
    BY <1>1
  <2> QED
    BY <2>1, <2>2, <2>3
<1>5. ASSUME NEW k \in 0 .. N - 1, k \in P PROVE k + 1 \in P
  <2>1. k + 1 \in 1 .. N /\ k + 1 \in 0 .. N /\ (k + 1) - 1 = k /\ k \in Nat
    BY <1>1
  <2>2. run[k + 1] = Checked!Onward(fsm, run[k])
    BY <1>1, <2>1
  <2>3. run[k + 1] = run[k] \cup Targets(fsm, Met(k))
    BY <2>2 DEF Checked!Onward, Targets
  <2>4. fsm.initial \in run[k + 1] /\ Met(k) \subseteq Met(k + 1) /\ Met(k + 1) = Met(k) \cup (Targets(fsm, Met(k)) \cap names)
    BY <1>5, <2>3
  <2>5. CASE Saturated(k)
    <3>1. Met(k + 1) = Met(k)
      BY <2>4, <2>5
    <3> HIDE DEF Met
    <3>2. Saturated(k + 1)
      BY <2>5, <3>1
    <3> QED
      BY <2>1, <2>4, <3>2
  <2>6. CASE ~ Saturated(k)
    <3>1. Met(k + 1) # Met(k)
      BY <2>4, <2>6
    <3>2. Cardinality(Met(k)) > k
      BY <1>5, <2>6
    <3> HIDE DEF Met
    <3>3. Cardinality(Met(k)) <= Cardinality(Met(k + 1)) /\ Cardinality(Met(k)) # Cardinality(Met(k + 1))
      <4>1. Met(k) \in SUBSET Met(k + 1) /\ IsFiniteSet(Met(k + 1))
        BY <1>3, <2>4
      <4> QED
        BY <3>1, <4>1, FS_Subset
    <3>4. Cardinality(Met(k)) \in Nat /\ Cardinality(Met(k + 1)) \in Nat
      BY <1>3
    <3>5. Cardinality(Met(k + 1)) > k + 1
      BY <2>1, <3>2, <3>3, <3>4
    <3> QED
      BY <2>1, <2>4, <3>5
  <2> QED
    BY <2>5, <2>6
<1>6. N \in P
  <2> HIDE DEF P
  <2>1. \A k \in 0 .. N : k \in P
    BY <1>1, <1>4, <1>5, Induction
  <2> QED
    BY <1>1, <2>1
<1>7. Saturated(N) /\ fsm.initial \in Met(N)
  <2>1. fsm.initial \in Met(N) /\ (Saturated(N) \/ Cardinality(Met(N)) > N)
    BY <1>6
  <2>2. Cardinality(Met(N)) \in Nat /\ Cardinality(Met(N)) <= N
    BY <1>3
  <2> HIDE DEF Met
  <2> QED
    BY <1>1, <2>1, <2>2
<1> QED
  BY <1>2, <1>7

\* A machine that begins in a state it has, never leaves its states, asks for no
\* condition and enters every set of states it does not begin in.
SoundMachine(fsm) ==
    LET names == DOMAIN fsm.states
        Enters(set) == \E s \in names \ set : \E t \in fsm.states[s].on : t.target \in set
    IN  /\ fsm.initial \in names \ {""}
        /\ \A s \in names : \A t \in fsm.states[s].on : t.target \in names /\ ~ t.cond
        /\ \A set \in SUBSET (names \ {fsm.initial}) : set # {} => Enters(set)

\* What the validator of machines answers, whatever the machine.
LEMMA MachinesAreJudged ==
  ASSUME NEW fsm, IsFiniteSet(DOMAIN fsm.states)
  PROVE  Checked!ValidateFsm(fsm).valid <=> SoundMachine(fsm)
<1> DEFINE names == DOMAIN fsm.states
           Enters(set) == \E s \in names \ set : \E t \in fsm.states[s].on : t.target \in set
           entered == \A set \in SUBSET (names \ {fsm.initial}) : set # {} => Enters(set)
           sound == \A s \in names : \A t \in fsm.states[s].on : t.target \in names /\ ~ t.cond
           reach == Checked!Reachable(fsm)
<1>1. Checked!FsmErrors(fsm) = {} <=> fsm.initial \in names /\ sound /\ names \subseteq reach
  <2> DEFINE errors == Checked!FsmErrors(fsm)
  <2>1. errors = {} <=> /\ {fsm.initial} \ names = {}
                        /\ {x \in names : ~ (Checked!Leads(fsm, x) \subseteq names)} = {}
                        /\ {x \in names : \E t \in fsm.states[x].on : t.cond} = {}
                        /\ names \ reach = {}
    BY DEF Checked!FsmErrors
  <2>2. ({x \in names : ~ (Checked!Leads(fsm, x) \subseteq names)} = {} /\ {x \in names : \E t \in fsm.states[x].on : t.cond} = {})
        <=> sound
    BY DEF Checked!Leads
  <2> QED
    BY <2>1, <2>2
<1>2. Checked!ValidateFsm(fsm).valid <=> fsm.initial # "" /\ Checked!FsmErrors(fsm) = {}
  <2>1. CASE fsm.initial = ""
    BY <2>1 DEF Checked!ValidateFsm
  <2>2. CASE fsm.initial # ""
    BY <2>2 DEF Checked!ValidateFsm
  <2> QED
    BY <2>1, <2>2
<1>3. ASSUME names \subseteq reach PROVE entered
  <2> SUFFICES ASSUME NEW set \in SUBSET (names \ {fsm.initial}), set # {}, ~ Enters(set) PROVE FALSE
    OBVIOUS
  <2>1. fsm.initial \notin set /\ \A s \in (DOMAIN fsm.states) \ set : \A t \in fsm.states[s].on : t.target \notin set
    OBVIOUS
  <2>2. reach \cap set = {}
    BY <2>1, SearchAvoids
  <2> QED
    BY <1>3, <2>2
<1>4. ASSUME fsm.initial \in names, entered PROVE names \subseteq reach
  <2> DEFINE set == names \ reach
  <2>1. fsm.initial \in reach /\ Targets(fsm, reach \cap names) \cap names \subseteq reach
    BY <1>4, SearchEnds
  <2>2. \A s \in names \ set : \A t \in fsm.states[s].on : t.target \in Targets(fsm, reach \cap names)
    BY DEF Targets
  <2>3. ~ Enters(set)
    BY <2>1, <2>2
  <2>4. set \in SUBSET (names \ {fsm.initial})
    BY <2>1
  <2> QED
    BY <1>4, <2>3, <2>4
<1>5. SoundMachine(fsm) <=> fsm.initial # "" /\ fsm.initial \in names /\ sound /\ entered
  BY DEF SoundMachine
<1> QED
  BY <1>1, <1>2, <1>3, <1>4, <1>5

-------------------------------------------------------------------------------
(* The scripts of the continuous integration. *)

LEMMA Nobody ==
  ASSUME NEW S, IsFiniteSet(S)
  PROVE  Checked!Cardinality(S) \in Nat /\ (Checked!Cardinality(S) > 0 <=> S # {})
<1>1. Checked!Cardinality(S) = Cardinality(S)
  BY Copies
<1>2. Cardinality(S) \in Nat /\ (Cardinality(S) = 0 <=> S = {})
  BY FS_CardinalityType, FS_EmptySet
<1> QED
  BY <1>1, <1>2

\* What the script of the schemas counts as failed, and when it is green.
LEMMA SuitesAreJudged ==
  ASSUME NEW suite, IsFiniteSet(DOMAIN suite), \A name \in DOMAIN suite : IsFiniteSet(suite[name].examples)
  PROVE  Checked!RunSchemaScript(suite).exit = 0 <=>
            \A name \in DOMAIN suite :
                /\ Checked!SchemaOk(suite[name])
                /\ name # "component-config" => suite[name].const = suite[name].version
                /\ \A e \in suite[name].examples : e.accepted = e.expected
<1> DEFINE names == DOMAIN suite
           unsound == names \ {name \in names : Checked!SchemaOk(suite[name])}
           versioned == Checked!Versioned(suite)
           misnamed == versioned \ {name \in versioned : suite[name].const = Checked!Expected(suite[name])}
           examples == Checked!Examples(suite)
           wrong == examples \ {p \in examples : Checked!ExampleOk(suite[p[1]], p[2])}
           throws == \E name \in versioned : ~ suite[name].id
           failed == Checked!Cardinality(unsound) + ((Checked!Cardinality(misnamed) + 0) + Checked!Cardinality(wrong))
<1>1. IsFiniteSet(unsound) /\ IsFiniteSet(misnamed)
  <2>1. unsound \in SUBSET names /\ misnamed \in SUBSET names
    BY DEF Checked!Versioned
  <2> HIDE DEF unsound, misnamed
  <2> QED
    BY <2>1, FS_Subset
<1>2. IsFiniteSet(wrong)
  <2> DEFINE F == [name \in names |-> {name} \X suite[name].examples]
  <2>1. ASSUME NEW name \in names PROVE IsFiniteSet(F[name])
    <3>1. IsFiniteSet({name}) /\ IsFiniteSet(suite[name].examples)
      BY FS_Singleton
    <3> QED
      BY <3>1, FS_Product
  <2>2. examples = UNION {F[name] : name \in names}
    BY DEF Checked!Examples
  <2> HIDE DEF F
  <2>3. IsFiniteSet(UNION {F[name] : name \in names})
    BY <2>1, FiniteUnion
  <2>4. wrong \in SUBSET examples /\ IsFiniteSet(examples)
    BY <2>2, <2>3
  <2> HIDE DEF wrong, examples
  <2> QED
    BY <2>4, FS_Subset
<1>3. \A p : p \in examples <=> \E name \in names : \E e \in suite[name].examples : p = <<name, e>>
  BY DEF Checked!Examples
<1>4. Checked!RunSchemaScript(suite).exit = IF throws \/ failed > 0 THEN 1 ELSE 0
  BY DEF Checked!RunSchemaScript, Checked!CountSchemas, Checked!CountVersions, Checked!CountExamples,
         Checked!Plus, Checked!Tally
<1>5. failed > 0 <=> unsound # {} \/ misnamed # {} \/ wrong # {}
  <2>1. /\ Checked!Cardinality(unsound) \in Nat /\ (Checked!Cardinality(unsound) > 0 <=> unsound # {})
        /\ Checked!Cardinality(misnamed) \in Nat /\ (Checked!Cardinality(misnamed) > 0 <=> misnamed # {})
        /\ Checked!Cardinality(wrong) \in Nat /\ (Checked!Cardinality(wrong) > 0 <=> wrong # {})
    <3> HIDE DEF unsound, misnamed, wrong
    <3> QED
      BY <1>1, <1>2, Nobody
  <2> HIDE DEF unsound, misnamed, wrong
  <2> QED
    BY <2>1
<1>6. unsound = {} <=> \A name \in names : Checked!SchemaOk(suite[name])
  OBVIOUS
<1>7. ASSUME \A name \in names : Checked!SchemaOk(suite[name])
      PROVE  /\ ~ throws
             /\ misnamed = {} <=> \A name \in names : name # "component-config" => suite[name].const = suite[name].version
             /\ wrong = {} <=> \A name \in names : \A e \in suite[name].examples : e.accepted = e.expected
  <2>1. \A name \in versioned : name \in names /\ suite[name].id /\ Checked!Expected(suite[name]) = suite[name].version
    BY <1>7 DEF Checked!Versioned, Checked!SchemaOk, Checked!Expected
  <2>2. \A name : name \in versioned <=> name \in names /\ name # "component-config"
    BY DEF Checked!Versioned
  <2>3. misnamed = {} <=> \A name \in versioned : suite[name].const = suite[name].version
    BY <2>1
  <2>4. wrong = {} <=> \A p \in examples : Checked!ExampleOk(suite[p[1]], p[2])
    OBVIOUS
  <2>5. ASSUME \A p \in examples : Checked!ExampleOk(suite[p[1]], p[2]),
               NEW name \in names, NEW e \in suite[name].examples
        PROVE  e.accepted = e.expected
    <3>1. <<name, e>> \in examples /\ <<name, e>>[1] = name /\ <<name, e>>[2] = e
      BY <1>3
    <3>2. Checked!ExampleOk(suite[name], e)
      BY <2>5, <3>1
    <3> QED
      BY <3>2 DEF Checked!ExampleOk
  <2>6. ASSUME \A name \in names : \A e \in suite[name].examples : e.accepted = e.expected, NEW p \in examples
        PROVE  Checked!ExampleOk(suite[p[1]], p[2])
    <3>1. PICK name \in names : \E e \in suite[name].examples : p = <<name, e>>
      BY <1>3
    <3>2. PICK e \in suite[name].examples : p = <<name, e>>
      BY <3>1
    <3>3. p[1] = name /\ p[2] = e
      BY <3>2
    <3>4. Checked!SchemaOk(suite[name]) /\ e.accepted = e.expected
      BY <1>7, <2>6
    <3> QED
      BY <3>3, <3>4 DEF Checked!ExampleOk
  <2> QED
    BY <2>1, <2>2, <2>3, <2>4, <2>5, <2>6
<1> HIDE DEF unsound, misnamed, wrong, throws, failed
<1>8. Checked!RunSchemaScript(suite).exit = 0 <=> ~ throws /\ ~ (failed > 0)
  BY <1>4
<1> QED
  BY <1>5, <1>6, <1>7, <1>8

\* In the directories that both look at, the script and the start see the same.
LEMMA CataloguesAgree ==
  ASSUME NEW files, \A file \in files : file.top \in {"modules", "fusions"} /\ file.path = {file.top}
  PROVE  Checked!Starts(files) <=> Checked!ScriptPasses(files)
<1>1. ASSUME NEW file \in files, file.top = "modules"
      PROVE  Checked!InferType(file) = "module"
  BY <1>1 DEF Checked!InferType
<1>2. ASSUME NEW file \in files, file.top = "fusions"
      PROVE  Checked!InferType(file) = "fusion"
  BY <1>2 DEF Checked!InferType
<1>3. Checked!Directories["modules"] = "module" /\ Checked!Directories["fusions"] = "fusion"
      /\ DOMAIN Checked!Directories = {"domains", "modules", "fusions"}
  BY DEF Checked!Directories
<1>4. ASSUME NEW file \in files
      PROVE  /\ file.path \cap Checked!Skipped = {}
             /\ Checked!InferType(file) \in {"module", "fusion"}
             /\ file.top \in DOMAIN Checked!Directories /\ Checked!Directories[file.top] = Checked!InferType(file)
  <2>1. file.top \in {"modules", "fusions"} /\ file.path = {file.top}
    OBVIOUS
  <2> QED
    BY <1>1, <1>2, <1>3, <2>1 DEF Checked!Skipped
<1>5. ASSUME NEW file \in files
      PROVE  Checked!ValidateFile(file, Checked!InferType(file)) <=> Checked!ScriptValidateFile(file, Checked!InferType(file))
  BY <1>4 DEF Checked!ValidateFile, Checked!ScriptValidateFile
<1>6. Checked!Starts(files) <=> \A file \in files : Checked!ValidateFile(file, Checked!InferType(file))
  BY <1>4 DEF Checked!Starts
<1>7. Checked!ScriptPasses(files) <=> \A file \in files : Checked!ScriptValidateFile(file, Checked!InferType(file))
  BY <1>4 DEF Checked!ScriptPasses
<1> QED
  BY <1>5, <1>6, <1>7

-------------------------------------------------------------------------------
(* The validation of definitions: what is answered is the answer of the     *)
(* validator of its kind.                                                   *)

AnswersRightly ==
    \/ subject.kind = "workflow" /\ outcome = [done |-> TRUE, verdict |-> Checked!ValidateDAG(subject.steps)]
    \/ subject.kind = "fsm" /\ outcome = [done |-> TRUE, verdict |-> Checked!ValidateFsm(subject)]
    \/ /\ subject.kind = "catalogue"
       /\ outcome = [done |-> TRUE, verdict |-> [starts |-> Checked!Starts(subject.files), passes |-> Checked!ScriptPasses(subject.files)]]
    \/ subject.kind = "schemas" /\ outcome = [done |-> TRUE, verdict |-> Checked!RunSchemaScript(subject.suite)]

DefinitionsInv == part = "definitions" => subject \in Subjects /\ (outcome = Checked!Pending \/ AnswersRightly)

LEMMA DefinitionsAlways == RuntimeSpec => []DefinitionsInv
<1>1. RuntimeInit => DefinitionsInv
  BY DEF RuntimeInit, DefinitionsInv, Checked!Init
<1>2. DefinitionsInv /\ [RuntimeNext]_runtimeVars => DefinitionsInv'
  <2> SUFFICES ASSUME DefinitionsInv, [RuntimeNext]_runtimeVars, part' = "definitions"
               PROVE  (subject \in Subjects)' /\ (outcome = Checked!Pending \/ AnswersRightly)'
    BY DEF DefinitionsInv
  <2>1. part' = part
    BY DEF RuntimeNext, runtimeVars, ExecutorTurn, FlowTurn, MigrationsTurn, MindTurn, DefinitionsTurn
  <2>2. subject \in Subjects /\ (outcome = Checked!Pending \/ AnswersRightly)
    BY <2>1 DEF DefinitionsInv
  <2>3. Checked!Next \/ UNCHANGED definitionVars
    BY DEF RuntimeNext, runtimeVars, ExecutorTurn, FlowTurn, MigrationsTurn, MindTurn, DefinitionsTurn
  <2>4. CASE Checked!Next
    BY <2>2, <2>4 DEF Checked!Next, Checked!Result, AnswersRightly
  <2>5. CASE UNCHANGED definitionVars
    BY <2>2, <2>5 DEF definitionVars, AnswersRightly, Checked!Pending
  <2> QED
    BY <2>3, <2>4, <2>5
<1> QED
  BY <1>1, <1>2, PTL DEF RuntimeSpec

\* The validator of workflows accepts exactly those whose steps can all begin,
\* with an order in which each comes behind what it depends on, and blames a
\* cycle on exactly the steps that can never begin; the validator of machines
\* accepts exactly those that stay within their states, ask for no conditions
\* and leave no set of states unentered.
THEOREM ValidatorsAreRight == RuntimeSpec => []VerdictsAreRight
<1>1. DefinitionsInv => VerdictsAreRight
  <2> SUFFICES ASSUME subject \in Subjects, outcome = Checked!Pending \/ AnswersRightly
               PROVE  Checked!WorkflowVerdict /\ Checked!FsmVerdict
    BY DEF DefinitionsInv, VerdictsAreRight, Checked!VerdictsAreRight
  <2>1. ASSUME Checked!Has("workflow") PROVE Checked!WorkflowVerdict
    <3>1. subject.kind = "workflow" /\ outcome.done
      BY <2>1 DEF Checked!Has
    <3>2. outcome.verdict = Checked!ValidateDAG(subject.steps)
      BY <3>1 DEF AnswersRightly, Checked!Pending
    <3>3. IsGraph(subject.steps)
      BY <3>1, SubjectsAssumption DEF IsGraph
    <3> QED
      BY <3>2, <3>3, WorkflowsAreJudged DEF Checked!WorkflowVerdict, Stuck
  <2>2. ASSUME Checked!Has("fsm") PROVE Checked!FsmVerdict
    <3>1. subject.kind = "fsm" /\ outcome.done
      BY <2>2 DEF Checked!Has
    <3>2. outcome.verdict = Checked!ValidateFsm(subject)
      BY <3>1 DEF AnswersRightly, Checked!Pending
    <3>3. IsFiniteSet(DOMAIN subject.states)
      BY <3>1, SubjectsAssumption
    <3>4. outcome.verdict.valid <=> SoundMachine(subject)
      BY <3>2, <3>3, MachinesAreJudged
    <3> QED
      BY <3>4 DEF Checked!FsmVerdict, SoundMachine
  <2> QED
    BY <2>1, <2>2 DEF Checked!WorkflowVerdict, Checked!FsmVerdict
<1> QED
  BY <1>1, DefinitionsAlways, PTL

\* A definition of the executor's whose graph is that of the steps; what it says
\* besides is as WorkflowDef has it.
HasGraph(w, steps) ==
    LET ids == Range(w.order)
    IN  /\ w.order = Checked!Ids(steps) /\ w.order \in Seq(Steps)
        /\ w.deps = [id \in ids |-> UNION {Checked!Range(steps[i].dependsOn) : i \in {j \in DOMAIN steps : steps[j].id = id}}]
        /\ w.kind \in [ids -> Kind]
        /\ w.guarded \in SUBSET ids
        /\ w.branch \in [ids -> {NoBranch} \cup (ids \X ids)]

\* The validator lets nothing through that the executor does not assume: a
\* workflow it accepts has no cycle and names its steps apart (run() loads a
\* workflow and validates it before it creates the run).
THEOREM AcceptedCanRun ==
  RuntimeSpec => [](/\ part = "definitions" /\ Checked!Has("workflow") /\ outcome.verdict.valid
                    => \A w : HasGraph(w, subject.steps) => WorkflowDef(w))
<1> DEFINE steps == subject.steps
           Runs == /\ part = "definitions" /\ Checked!Has("workflow") /\ outcome.verdict.valid
                   => \A w : HasGraph(w, steps) => WorkflowDef(w)
<1>1. DefinitionsInv => Runs
  <2> SUFFICES ASSUME subject \in Subjects, outcome = Checked!Pending \/ AnswersRightly,
                      Checked!Has("workflow"), outcome.verdict.valid, NEW w, HasGraph(w, steps)
               PROVE  WorkflowDef(w)
    BY DEF DefinitionsInv
  <2>1. subject.kind = "workflow" /\ outcome.done
    BY DEF Checked!Has
  <2>2. IsGraph(steps)
    BY <2>1, SubjectsAssumption DEF IsGraph
  <2>3. Checked!ValidateDAG(steps).valid
    BY <2>1 DEF AnswersRightly, Checked!Pending
  <2> DEFINE ids == Range(w.order)
             names == Checked!IdSet(steps)
  <2>4. /\ Checked!Cardinality(names) = Len(steps) /\ Stuck(steps) = {}
        /\ \A s \in Checked!Range(steps) : Checked!Range(s.dependsOn) \subseteq names
    BY <2>2, <2>3, WorkflowsAreJudged
  <2>5. /\ Len(steps) \in Nat /\ DOMAIN steps = 1 .. Len(steps) /\ IsFiniteSet(names)
        /\ w.order \in Seq(names) /\ Len(w.order) = Len(steps) /\ ids = names
        /\ \A i \in 1 .. Len(steps) : w.order[i] = steps[i].id
    BY <2>2, GraphFacts DEF HasGraph
  <2> DEFINE On(id) == UNION {Checked!Range(steps[i].dependsOn) : i \in {j \in DOMAIN steps : steps[j].id = id}}
  <2>6. w.deps = [id \in ids |-> On(id)]
    BY DEF HasGraph
  <2>7. \A id, x : x \in On(id) <=> \E i \in DOMAIN steps : steps[i].id = id /\ x \in Checked!Range(steps[i].dependsOn)
    OBVIOUS
  <2> HIDE DEF On, names, ids
  <2>8. IsInjective(w.order)
    <3>1. DOMAIN w.order = 1 .. Len(steps) /\ w.order \in [1 .. Len(steps) -> names]
      BY <2>5
    <3>2. \A x \in names : \E i \in 1 .. Len(steps) : w.order[i] = x
      BY <2>5, <3>1 DEF ids, Range
    <3> DEFINE N == Len(steps)
    <3>3. w.order \in Surjection(1 .. N, names)
      BY <3>1, <3>2 DEF Surjection
    <3>4. N \in Nat /\ Cardinality(names) = N
      BY <2>4, <2>5, Copies
    <3> HIDE DEF N
    <3>5. IsFiniteSet(1 .. N) /\ Cardinality(1 .. N) = N
      BY <3>4, FS_Interval
    <3>6. w.order \in Injection(1 .. N, names)
      BY <3>3, <3>4, <3>5, FS_Surjection
    <3> QED
      BY <3>1, <3>6 DEF Injection, IsInjective, N
  <2>9. w.deps \in [ids -> SUBSET ids]
    <3>1. ASSUME NEW id \in ids, NEW x \in On(id) PROVE x \in ids
      <4>1. PICK i \in DOMAIN steps : x \in Checked!Range(steps[i].dependsOn)
        BY <2>7, <3>1
      <4>2. steps[i] \in Checked!Range(steps)
        BY DEF Checked!Range
      <4> QED
        BY <2>4, <2>5, <4>1, <4>2
    <3> QED
      BY <2>6, <3>1
  <2>10. ASSUME NEW S \in (SUBSET ids) \ {{}} PROVE \E s \in S : w.deps[s] \cap S = {}
    <3>1. S \in SUBSET names /\ S # {}
      BY <2>5
    <3>2. ~ Checked!Waiting(steps, S)
      BY <2>4, <3>1 DEF Stuck, names
    <3>3. PICK s \in S : \A i \in DOMAIN steps : steps[i].id = s => Checked!Range(steps[i].dependsOn) \cap S = {}
      BY <3>2 DEF Checked!Waiting
    <3>4. w.deps[s] = On(s)
      BY <2>6
    <3> QED
      BY <2>7, <3>3, <3>4
  <2> QED
    BY <2>8, <2>9, <2>10 DEF WorkflowDef, HasGraph, ids
<1> QED
  BY <1>1, DefinitionsAlways, PTL

\* The script of the catalogue and the start of the application agree where
\* both look, and the script of the schemas is green exactly if every schema is
\* sound, carries its version, and every example fares as its name says.
THEOREM ScriptsMeanIt == RuntimeSpec => []ScriptsAreRight
<1>1. DefinitionsInv => ScriptsAreRight
  <2> SUFFICES ASSUME subject \in Subjects, outcome = Checked!Pending \/ AnswersRightly
               PROVE  Checked!ScriptAgreesWithStart /\ Checked!GreenMeansChecked
    BY DEF DefinitionsInv, ScriptsAreRight, Checked!ScriptsAreRight
  <2>1. ASSUME Checked!Has("catalogue"),
               \A file \in subject.files : file.top \in {"modules", "fusions"} /\ file.path = {file.top}
        PROVE  outcome.verdict.starts = outcome.verdict.passes
    <3> DEFINE starts == Checked!Starts(subject.files)
               passes == Checked!ScriptPasses(subject.files)
    <3>1. subject.kind = "catalogue" /\ outcome.done
      BY <2>1 DEF Checked!Has
    <3>2. outcome.verdict = [starts |-> starts, passes |-> passes]
      BY <3>1 DEF AnswersRightly, Checked!Pending
    <3>3. starts \in BOOLEAN /\ passes \in BOOLEAN
      BY DEF Checked!Starts, Checked!ScriptPasses
    <3>4. starts <=> passes
      BY <2>1, CataloguesAgree
    <3> HIDE DEF starts, passes
    <3>5. starts = passes
      BY <3>3, <3>4
    <3> QED
      BY <3>2, <3>5
  <2>2. ASSUME Checked!Has("schemas") PROVE Checked!GreenMeansChecked
    <3>1. subject.kind = "schemas" /\ outcome.done
      BY <2>2 DEF Checked!Has
    <3>2. outcome.verdict = Checked!RunSchemaScript(subject.suite)
      BY <3>1 DEF AnswersRightly, Checked!Pending
    <3>3. IsFiniteSet(DOMAIN subject.suite) /\ \A name \in DOMAIN subject.suite : IsFiniteSet(subject.suite[name].examples)
      BY <3>1, SubjectsAssumption
    <3> QED
      BY <3>2, <3>3, SuitesAreJudged DEF Checked!GreenMeansChecked
  <2> QED
    BY <2>1, <2>2 DEF Checked!ScriptAgreesWithStart, Checked!GreenMeansChecked
<1> QED
  BY <1>1, DefinitionsAlways, PTL

===============================================================================
