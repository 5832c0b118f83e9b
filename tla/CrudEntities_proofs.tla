-------------------------- MODULE CrudEntities_proofs --------------------------
(***************************************************************************)
(* Proofs about CrudEntities for any number of concurrent calls, any fields *)
(* and any clock.                                                           *)
(***************************************************************************)
EXTENDS CrudEntities, FiniteSetTheorems, WellFoundedInduction, TLAPS

Parameters == Fields # {} /\ MaxTime \in Nat

\* The row is what the last commit left, and a request knows of no later one.
LogIsRow ==
    /\ Len(log) >= 1 => row = log[Len(log)].row
    /\ row.status # "absent" => Len(log) >= 1
    /\ \A c \in Calls :
          /\ request[c].seen <= Len(log)
          /\ request[c].base # NoBase =>
                request[c].seen >= 1 /\ request[c].base = log[request[c].seen].row.updatedAt

\* The fields that an update leaves alone are in its copy as some commit left
\* them that was the last one when the handler read the row.
CopyIsOfRow ==
    \A c \in Calls : pc[c] \in {"save", "write"} /\ request[c].kind = "update" =>
        /\ found[c] \in 1 .. Len(log)
        /\ \A f \in Fields \ {request[c].field} : copy[c].data[f] = log[found[c]].row.data[f]

\* LostOnlyToOverlap, and an update has found a row.
KeptOrOverlapped ==
    \A i \in 1 .. Len(log) :
        LET c == log[i].call
        IN  request[c].kind = "update" =>
                /\ found[c] >= 1
                /\ \A f \in Fields \ {request[c].field} :
                      \E k \in found[c] .. i - 1 : log[i].row.data[f] = log[k].row.data[f]

\* Who has committed or answered is done.
DoneIsDone ==
    /\ \A i \in 1 .. Len(log) : pc[log[i].call] = "done"
    /\ \A c \in Calls : answer[c] # "none" => pc[c] = "done"

\* The row after the UPDATE, column by column.
Merged(old, mine, columns) ==
    [data    |-> IF "data" \in columns THEN mine.data ELSE old.data,
     version |-> IF "version" \in columns THEN mine.version ELSE old.version,
     status  |-> IF "status" \in columns THEN mine.status ELSE old.status,
     updatedAt |-> IF "updatedAt" \in columns THEN mine.updatedAt ELSE old.updatedAt]

LEMMA MergeByColumn ==
  ASSUME NEW old \in RowType, NEW mine \in RowType, NEW columns
  PROVE  [col \in DOMAIN old |-> IF col \in columns THEN mine[col] ELSE old[col]] = Merged(old, mine, columns)
<1>1. DOMAIN old = {"data", "version", "status", "updatedAt"}
  BY DEF RowType
<1> QED
  BY <1>1 DEF Merged

LEMMA FieldSet ==
  ASSUME NEW r \in RowType, NEW f \in Fields, NEW c \in Calls, NEW version \in Nat,
         NEW status \in {"absent", "active", "deleted"}
  PROVE  /\ [r EXCEPT !.data[f] = c, !.version = version] \in RowType
         /\ [r EXCEPT !.data[f] = c, !.version = version, !.status = status] \in RowType
<1> DEFINE data == [r.data EXCEPT ![f] = c]
<1>1. data \in [Fields -> Calls \cup {Nobody}]
  BY DEF RowType
<1>2. [r EXCEPT !.data[f] = c, !.version = version] = [r EXCEPT !.data = data, !.version = version]
  BY DEF RowType
<1>3. [r EXCEPT !.data[f] = c, !.version = version, !.status = status]
        = [r EXCEPT !.data = data, !.version = version, !.status = status]
  BY DEF RowType
<1> HIDE DEF data
<1>4. [r EXCEPT !.data = data, !.version = version] \in RowType
  BY <1>1 DEF RowType
<1>5. [r EXCEPT !.data = data, !.version = version, !.status = status] \in RowType
  BY <1>1 DEF RowType
<1> QED
  BY <1>2, <1>3, <1>4, <1>5

LEMMA OthersKept ==
  ASSUME NEW r \in RowType, NEW f, NEW c, NEW version, NEW g \in Fields \ {f}
  PROVE  [r EXCEPT !.data[f] = c, !.version = version].data[g] = r.data[g]
BY DEF RowType

LEMMA EditedTyped ==
  ASSUME TypeOK, NEW c \in Calls
  PROVE  Edited(c) \in RowType
<1>1. row \in RowType /\ request[c].field \in Fields /\ row.version + 1 \in Nat
  <2>1. row \in RowType /\ request[c] \in Request
    BY DEF TypeOK
  <2> QED
    BY <2>1 DEF Request, RowType
<1>2. [row EXCEPT !.data[request[c].field] = c, !.version = row.version + 1] \in RowType
  BY <1>1, FieldSet
<1>3. [row EXCEPT !.status = "deleted"] \in RowType
  BY <1>1 DEF RowType
<1> QED
  BY <1>2, <1>3 DEF Edited

LEMMA NoRowTyped == ASSUME Parameters PROVE NoRow \in RowType
BY DEF NoRow, RowType, Parameters

LEMMA FinishTyped ==
  ASSUME Parameters, TypeOK, NEW c \in Calls, NEW a \in Answer, Finish(c, a)
  PROVE  /\ pc' \in [Calls -> {"idle", "find", "save", "write", "done"}]
         /\ copy' \in [Calls -> RowType]
         /\ changed' \in [Calls -> SUBSET (Column \cup {"updatedBy"})]
         /\ stamp' \in [Calls -> 0 .. MaxTime]
         /\ answer' \in [Calls -> Answer]
BY NoRowTyped DEF Finish, Goto, TypeOK, Parameters

Entry == [call : Calls, at : 0 .. MaxTime, row : RowType]

LEMMA LogTyped ==
  ASSUME TypeOK
  PROVE  /\ log \in Seq(Entry)
         /\ Len(log) \in Nat
         /\ \A i \in 1 .. Len(log) : log[i] \in Entry /\ log[i].call \in Calls /\ log[i].row \in RowType
<1>1. log \in Seq(Entry)
  BY DEF TypeOK, Entry
<1>2. \A i \in 1 .. Len(log) : log[i] \in Entry
  BY <1>1
<1> QED
  BY <1>1, <1>2 DEF Entry

\* A commit appends what the row is from now on, and changes no earlier one.
LEMMA CommitAppends ==
  ASSUME TypeOK, NEW c \in Calls, NEW at \in 0 .. MaxTime, NEW new \in RowType, Commit(c, at, new)
  PROVE  /\ row' = [new EXCEPT !.updatedAt = at]
         /\ row' \in RowType
         /\ log' \in Seq(Entry)
         /\ Len(log') = Len(log) + 1
         /\ \A i \in 1 .. Len(log) : log'[i] = log[i]
         /\ log'[Len(log')] = [call |-> c, at |-> at, row |-> row']
         /\ log'[Len(log')].call = c /\ log'[Len(log')].row = row'
<1>1. row' = [new EXCEPT !.updatedAt = at] /\ row' \in RowType
  BY DEF Commit, RowType
<1>2. [call |-> c, at |-> at, row |-> row'] \in Entry
  BY <1>1 DEF Entry
<1>3. /\ Len(log') = Len(log) + 1
      /\ \A i \in 1 .. Len(log) : log'[i] = log[i]
      /\ log'[Len(log')] = [call |-> c, at |-> at, row |-> row']
  BY <1>2, LogTyped DEF Commit
<1> QED
  BY <1>1, <1>2, <1>3, LogTyped DEF Commit

\* What a handler that writes commits: its columns that differ, or a new row.
LEMMA Writes ==
  ASSUME Parameters, TypeOK, NEW c \in Calls, Write(c), changed[c] # {}
  PROVE  \E at \in 0 .. MaxTime : /\ at \in stamp[c] .. clock
                                 /\ Merged(row, copy[c], changed[c]) \in RowType
                                 /\ Commit(c, at, Merged(row, copy[c], changed[c]))
<1>1. row \in RowType /\ copy[c] \in RowType
  BY DEF TypeOK
<1>2. Merged(row, copy[c], changed[c]) \in RowType
  BY <1>1 DEF Merged, RowType
<1>3. PICK at \in stamp[c] .. clock :
         Commit(c, at, [col \in DOMAIN row |-> IF col \in changed[c] THEN copy[c][col] ELSE row[col]])
  BY DEF Write
<1>4. at \in 0 .. MaxTime
  BY DEF TypeOK, Parameters
<1> QED
  BY <1>1, <1>2, <1>3, <1>4, MergeByColumn

LEMMA Inserts ==
  ASSUME Parameters, TypeOK, NEW c \in Calls, Insert(c)
  PROVE  \E at \in 0 .. MaxTime, new \in RowType :
            /\ at \in stamp[c] .. clock
            /\ new = [NoRow EXCEPT !.data[request[c].field] = c, !.version = 1, !.status = "active"]
            /\ Commit(c, at, new)
<1>1. PICK at \in stamp[c] .. clock :
         Commit(c, at, [NoRow EXCEPT !.data[request[c].field] = c, !.version = 1, !.status = "active"])
  BY DEF Insert
<1>2. [NoRow EXCEPT !.data[request[c].field] = c, !.version = 1, !.status = "active"] \in RowType
  <2>1. request[c].field \in Fields
    BY DEF TypeOK, Request
  <2> QED
    BY <2>1, FieldSet, NoRowTyped
<1>3. at \in 0 .. MaxTime
  BY DEF TypeOK, Parameters
<1> QED
  BY <1>1, <1>2, <1>3

\* A handler that writes leaves the row and the history as they are, or adds
\* one entry at a time between its last reading of the clock and now.
LEMMA Commits ==
  ASSUME Parameters, TypeOK, NEW c \in Calls, Write(c) \/ Insert(c)
  PROVE  \/ UNCHANGED <<row, log>>
         \/ \E at \in 0 .. MaxTime :
               /\ at \in stamp[c] .. clock
               /\ row'.updatedAt = at
               /\ Len(log') = Len(log) + 1
               /\ \A i \in 1 .. Len(log) : log'[i] = log[i]
               /\ log'[Len(log) + 1] = [call |-> c, at |-> at, row |-> row']
<1>1. CASE UNCHANGED <<row, log>>
  BY <1>1
<1>2. ASSUME NEW at \in 0 .. MaxTime, at \in stamp[c] .. clock, NEW new \in RowType, Commit(c, at, new)
      PROVE  /\ row'.updatedAt = at
             /\ Len(log') = Len(log) + 1
             /\ \A i \in 1 .. Len(log) : log'[i] = log[i]
             /\ log'[Len(log) + 1] = [call |-> c, at |-> at, row |-> row']
  BY <1>2, CommitAppends DEF RowType
<1>3. CASE Write(c) /\ changed[c] # {}
  BY <1>2, <1>3, Writes
<1>4. CASE Insert(c)
  BY <1>2, <1>4, Inserts
<1> QED
  BY <1>1, <1>3, <1>4 DEF Write

-------------------------------------------------------------------------------

LEMMA TypeStep == Parameters /\ TypeOK /\ [Next]_vars => TypeOK'
<1> SUFFICES ASSUME Parameters, TypeOK, [Next]_vars PROVE TypeOK'
  OBVIOUS
<1> USE DEF vars
<1>1. CASE Tick
  BY <1>1 DEF Tick, TypeOK, Parameters
<1>2. ASSUME NEW c \in Calls, Arrive(c) PROVE TypeOK'
  <2>1. PICK kind \in {"create", "update", "delete"}, field \in Fields, force \in BOOLEAN, seen \in 0 .. Len(log) :
           /\ kind # "update" => seen = 0 /\ ~ force
           /\ kind = "delete" => field = request[c].field
           /\ kind = "create" <=> log = <<>> /\ \A d \in Calls : request[d].kind # "create"
           /\ request' = [request EXCEPT ![c] =
                 [kind |-> kind, field |-> field, force |-> force, seen |-> seen,
                  base |-> IF seen = 0 THEN NoBase ELSE log[seen].row.updatedAt]]
    BY <1>2, Zenon DEF Arrive
  <2>2. seen # 0 => log[seen].row \in RowType
    BY <2>1, LogTyped
  <2>3. (IF seen = 0 THEN NoBase ELSE log[seen].row.updatedAt) \in 0 .. NoBase
    BY <2>1, <2>2 DEF NoBase, Parameters, RowType
  <2>4. request' \in [Calls -> Request]
    <3> DEFINE base == IF seen = 0 THEN NoBase ELSE log[seen].row.updatedAt
    <3>1. base \in 0 .. NoBase
      BY <2>3
    <3> HIDE DEF base
    <3>2. [kind |-> kind, field |-> field, force |-> force, seen |-> seen, base |-> base] \in Request
      BY <2>1, <3>1, LogTyped DEF Request
    <3> QED
      BY <2>1, <3>2 DEF TypeOK, base
  <2> QED
    BY <1>2, <2>4 DEF Arrive, Goto, TypeOK
<1>3. ASSUME NEW c \in Calls, Find(c) PROVE TypeOK'
  <2>1. found' \in [Calls -> Nat]
    BY <1>3 DEF Find, TypeOK
  <2>2. CASE Finish(c, "missing") \/ Finish(c, "conflict")
    BY <1>3, <2>1, <2>2, FinishTyped DEF Find, TypeOK, Answer
  <2>3. CASE copy' = [copy EXCEPT ![c] = Edited(c)] /\ Goto(c, "save") /\ UNCHANGED <<answer, changed, stamp>>
    BY <1>3, <2>1, <2>3, EditedTyped DEF Find, Goto, TypeOK
  <2> QED
    BY <1>3, <2>2, <2>3 DEF Find
<1>4. ASSUME NEW c \in Calls, Compare(c) PROVE TypeOK'
  BY <1>4 DEF Compare, Differing, Goto, TypeOK
<1>5. ASSUME NEW c \in Calls, Write(c) PROVE TypeOK'
  <2>1. row' \in RowType /\ log' \in Seq(Entry)
    BY <1>5, Writes, CommitAppends, LogTyped DEF Write, TypeOK
  <2> QED
    BY <1>5, <2>1, FinishTyped DEF Write, TypeOK, Answer, Entry
<1>6. ASSUME NEW c \in Calls, Insert(c) PROVE TypeOK'
  <2>1. row' \in RowType /\ log' \in Seq(Entry)
    BY <1>6, Inserts, CommitAppends
  <2> QED
    BY <1>6, <2>1, FinishTyped DEF Insert, TypeOK, Answer, Entry
<1>7. ASSUME NEW c \in Calls, Fail(c) PROVE TypeOK'
  BY <1>7, FinishTyped DEF Fail, TypeOK, Answer
<1>8. CASE UNCHANGED vars
  BY <1>8 DEF TypeOK
<1> QED
  BY <1>1, <1>2, <1>3, <1>4, <1>5, <1>6, <1>7, <1>8 DEF Next, Execute

LEMMA LogIsRowStep == Parameters /\ TypeOK /\ LogIsRow /\ [Next]_vars => LogIsRow'
<1> SUFFICES ASSUME Parameters, TypeOK, LogIsRow, [Next]_vars PROVE LogIsRow'
  OBVIOUS
<1> USE LogTyped DEF vars, LogIsRow
<1>1. ASSUME NEW c \in Calls, Arrive(c) PROVE LogIsRow'
  <2>1. PICK kind \in {"create", "update", "delete"}, field \in Fields, force \in BOOLEAN, seen \in 0 .. Len(log) :
           /\ kind # "update" => seen = 0 /\ ~ force
           /\ kind = "delete" => field = request[c].field
           /\ kind = "create" <=> log = <<>> /\ \A d \in Calls : request[d].kind # "create"
           /\ request' = [request EXCEPT ![c] =
                 [kind |-> kind, field |-> field, force |-> force, seen |-> seen,
                  base |-> IF seen = 0 THEN NoBase ELSE log[seen].row.updatedAt]]
    BY <1>1, Zenon DEF Arrive
  <2>2. /\ request'[c].seen = seen
        /\ request'[c].base = IF seen = 0 THEN NoBase ELSE log[seen].row.updatedAt
        /\ \A d \in Calls \ {c} : request'[d] = request[d]
    BY <2>1 DEF TypeOK
  <2>3. UNCHANGED <<row, log>>
    BY <1>1 DEF Arrive
  <2> QED
    BY <2>1, <2>2, <2>3
<1>2. ASSUME NEW c \in Calls, NEW at \in 0 .. MaxTime, NEW new \in RowType, Commit(c, at, new), UNCHANGED request
      PROVE  LogIsRow'
  <2>1. /\ Len(log') = Len(log) + 1
        /\ log'[Len(log')].row = row'
        /\ \A i \in 1 .. Len(log) : log'[i] = log[i]
    BY <1>2, CommitAppends
  <2>2. \A d \in Calls : request[d].seen \in Nat
    BY DEF TypeOK, Request
  <2> QED
    BY <1>2, <2>1, <2>2
<1>3. ASSUME NEW c \in Calls, Write(c) \/ Insert(c) PROVE LogIsRow'
  BY <1>2, <1>3, Writes, Inserts DEF Write, Insert
<1>4. CASE UNCHANGED <<row, log, request>>
  BY <1>4
<1> HIDE DEF LogIsRow
<1> QED
  BY <1>1, <1>3, <1>4 DEF Next, Execute, Tick, Find, Compare, Fail

\* A handler that is done does nothing any more.
LEMMA DoneStep == Parameters /\ TypeOK /\ DoneIsDone /\ [Next]_vars => DoneIsDone'
<1> SUFFICES ASSUME Parameters, TypeOK, DoneIsDone, [Next]_vars PROVE DoneIsDone'
  OBVIOUS
<1> USE LogTyped DEF vars, DoneIsDone
<1>1. pc \in [Calls -> {"idle", "find", "save", "write", "done"}] /\ answer \in [Calls -> Answer]
  BY DEF TypeOK
<1>2. ASSUME NEW c \in Calls, Arrive(c) PROVE DoneIsDone'
  BY <1>1, <1>2 DEF Arrive, Goto
<1>3. ASSUME NEW c \in Calls, Find(c) \/ Compare(c) \/ Fail(c) PROVE DoneIsDone'
  BY <1>1, <1>3 DEF Find, Compare, Fail, Goto, Finish
<1>4. ASSUME NEW c \in Calls, Write(c) \/ Insert(c) PROVE DoneIsDone'
  <2>1. /\ pc' = [pc EXCEPT ![c] = "done"]
        /\ answer' = [answer EXCEPT ![c] = "saved"]
    BY <1>4 DEF Write, Insert, Finish, Goto
  <2>2. CASE UNCHANGED log
    BY <1>1, <2>1, <2>2
  <2>3. ASSUME NEW at \in 0 .. MaxTime, NEW new \in RowType, Commit(c, at, new) PROVE DoneIsDone'
    <3>1. /\ Len(log') = Len(log) + 1
          /\ \A i \in 1 .. Len(log) : log'[i] = log[i]
          /\ log'[Len(log')].call = c
      BY <2>3, CommitAppends
    <3> QED
      BY <1>1, <2>1, <3>1
  <2> QED
    BY <1>4, <2>2, <2>3, Writes, Inserts DEF Write
<1>5. CASE UNCHANGED <<pc, answer, log>>
  BY <1>5
<1> HIDE DEF DoneIsDone
<1> QED
  BY <1>2, <1>3, <1>4, <1>5 DEF Next, Execute, Tick

LEMMA CopyStep ==
  Parameters /\ TypeOK /\ LogIsRow /\ CopyIsOfRow /\ [Next]_vars => CopyIsOfRow'
<1> SUFFICES ASSUME Parameters, TypeOK, LogIsRow, CopyIsOfRow, [Next]_vars PROVE CopyIsOfRow'
  OBVIOUS
<1> USE LogTyped DEF vars, CopyIsOfRow
<1>1. /\ pc \in [Calls -> {"idle", "find", "save", "write", "done"}]
      /\ found \in [Calls -> Nat]
      /\ copy \in [Calls -> RowType]
  BY DEF TypeOK
<1>2. ASSUME NEW c \in Calls, Arrive(c) PROVE CopyIsOfRow'
  <2>1. PICK kind \in {"create", "update", "delete"}, field \in Fields, force \in BOOLEAN, seen \in 0 .. Len(log) :
           /\ kind # "update" => seen = 0 /\ ~ force
           /\ kind = "delete" => field = request[c].field
           /\ kind = "create" <=> log = <<>> /\ \A d \in Calls : request[d].kind # "create"
           /\ request' = [request EXCEPT ![c] =
                 [kind |-> kind, field |-> field, force |-> force, seen |-> seen,
                  base |-> IF seen = 0 THEN NoBase ELSE log[seen].row.updatedAt]]
    BY <1>2, Zenon DEF Arrive
  <2>2. request'[c].kind = kind /\ \A d \in Calls \ {c} : request'[d] = request[d]
    BY <2>1 DEF TypeOK
  <2>3. /\ UNCHANGED <<found, copy, log>>
        /\ kind = "update" => pc'[c] = "find"
        /\ \A d \in Calls \ {c} : pc'[d] = pc[d]
    BY <1>1, <1>2, <2>2 DEF Arrive, Goto
  <2> QED
    BY <2>2, <2>3
<1>3. ASSUME NEW c \in Calls, Find(c) PROVE CopyIsOfRow'
  <2>1. UNCHANGED <<log, request>> /\ found' = [found EXCEPT ![c] = Len(log)]
    BY <1>3 DEF Find
  <2>2. CASE pc' = [pc EXCEPT ![c] = "done"] /\ copy' = [copy EXCEPT ![c] = NoRow]
    BY <1>1, <2>1, <2>2
  <2>3. CASE row.status # "absent" /\ pc' = [pc EXCEPT ![c] = "save"] /\ copy' = [copy EXCEPT ![c] = Edited(c)]
    <3>1. Len(log) >= 1 /\ row = log[Len(log)].row
      BY <2>3 DEF LogIsRow
    <3>2. row \in RowType /\ request[c].field \in Fields /\ row.version + 1 \in Nat
      <4>1. row \in RowType /\ request[c] \in Request
        BY DEF TypeOK
      <4>2. request[c].field \in Fields
        BY <4>1 DEF Request
      <4>3. row.version + 1 \in Nat
        BY <4>1 DEF RowType
      <4> QED
        BY <4>1, <4>2, <4>3
    <3>3. request[c].kind = "update" => \A f \in Fields \ {request[c].field} : Edited(c).data[f] = row.data[f]
      <4>1. request[c].kind = "update" =>
               Edited(c) = [row EXCEPT !.data[request[c].field] = c, !.version = row.version + 1]
        BY DEF Edited
      <4>2. \A g \in Fields \ {request[c].field} :
               [row EXCEPT !.data[request[c].field] = c, !.version = row.version + 1].data[g] = row.data[g]
        BY <3>2, OthersKept
      <4> QED
        BY <4>1, <4>2
    <3> QED
      BY <1>1, <2>1, <2>3, <3>1, <3>3
  <2> QED
    BY <1>3, <2>2, <2>3 DEF Find, Finish, Goto
<1>4. ASSUME NEW c \in Calls, Compare(c) PROVE CopyIsOfRow'
  BY <1>1, <1>4 DEF Compare, Goto
<1>5. ASSUME NEW c \in Calls, Finish(c, "saved") \/ Finish(c, "error"), UNCHANGED <<request, found>>,
             Len(log') >= Len(log), \A i \in 1 .. Len(log) : log'[i] = log[i], Len(log') \in Nat
      PROVE  CopyIsOfRow'
  BY <1>1, <1>5 DEF Finish, Goto
<1>6. ASSUME NEW c \in Calls, Write(c) \/ Insert(c) PROVE CopyIsOfRow'
  <2>1. CASE UNCHANGED log
    BY <1>5, <1>6, <2>1 DEF Write, Insert
  <2>2. ASSUME NEW at \in 0 .. MaxTime, NEW new \in RowType, Commit(c, at, new) PROVE CopyIsOfRow'
    <3>1. Len(log') = Len(log) + 1 /\ \A i \in 1 .. Len(log) : log'[i] = log[i]
      BY <2>2, CommitAppends
    <3> QED
      BY <1>5, <1>6, <3>1 DEF Write, Insert
  <2> QED
    BY <1>6, <2>1, <2>2, Writes, Inserts DEF Write
<1>7. ASSUME NEW c \in Calls, Fail(c) PROVE CopyIsOfRow'
  BY <1>5, <1>7 DEF Fail
<1>8. CASE UNCHANGED <<pc, request, found, copy, log>>
  BY <1>8
<1> HIDE DEF CopyIsOfRow
<1> QED
  BY <1>2, <1>3, <1>4, <1>6, <1>7, <1>8 DEF Next, Execute, Tick

\* A new entry finds the values it did not write in the row that its handler
\* read, or in the last one; the earlier entries are as they were.
LEMMA KeptStep ==
  Parameters /\ TypeOK /\ LogIsRow /\ CopyIsOfRow /\ DoneIsDone /\ KeptOrOverlapped /\ [Next]_vars
    => KeptOrOverlapped'
<1> SUFFICES ASSUME Parameters, TypeOK, LogIsRow, CopyIsOfRow, DoneIsDone, KeptOrOverlapped, [Next]_vars
             PROVE  KeptOrOverlapped'
  OBVIOUS
<1> USE LogTyped DEF vars, KeptOrOverlapped
<1>1. found \in [Calls -> Nat] /\ row \in RowType
  BY DEF TypeOK
<1>2. CASE UNCHANGED <<log, request, found>>
  BY <1>2
<1>3. ASSUME NEW c \in Calls, Find(c) PROVE KeptOrOverlapped'
  <2>1. /\ UNCHANGED <<log, request>>
        /\ \A d \in Calls \ {c} : found'[d] = found[d]
        /\ pc[c] = "find"
    BY <1>1, <1>3 DEF Find
  <2>2. \A i \in 1 .. Len(log) : log[i].call # c
    BY <2>1 DEF DoneIsDone
  <2> QED
    BY <2>1, <2>2
<1>4. ASSUME NEW c \in Calls, Arrive(c) PROVE KeptOrOverlapped'
  <2>1. /\ UNCHANGED <<log, found>>
        /\ \A d \in Calls \ {c} : request'[d] = request[d]
        /\ pc[c] = "idle"
    BY <1>4 DEF Arrive, TypeOK
  <2>2. \A i \in 1 .. Len(log) : log[i].call # c
    BY <2>1 DEF DoneIsDone
  <2> QED
    BY <2>1, <2>2
<1>5. ASSUME NEW c \in Calls, NEW at \in 0 .. MaxTime, NEW new \in RowType, Commit(c, at, new),
             UNCHANGED <<request, found>>,
             request[c].kind = "update" =>
                 /\ found[c] >= 1
                 /\ \A f \in Fields \ {request[c].field} :
                       \E k \in found[c] .. Len(log) : row'.data[f] = log[k].row.data[f]
      PROVE  KeptOrOverlapped'
  <2>1. /\ Len(log') = Len(log) + 1
        /\ \A i \in 1 .. Len(log) : log'[i] = log[i]
        /\ log'[Len(log')].call = c
        /\ log'[Len(log')].row = row'
    BY <1>5, CommitAppends
  <2>2. ASSUME NEW i \in 1 .. Len(log), request[log[i].call].kind = "update",
               NEW f \in Fields \ {request[log[i].call].field}
        PROVE  \E k \in found[log[i].call] .. i - 1 : log'[i].row.data[f] = log'[k].row.data[f]
    <3>1. PICK k \in found[log[i].call] .. i - 1 : log[i].row.data[f] = log[k].row.data[f]
      BY <2>2
    <3>2. k \in 1 .. Len(log)
      BY <1>1, <2>2, <3>1
    <3> QED
      BY <2>1, <3>1, <3>2
  <2>3. ASSUME request[c].kind = "update", NEW f \in Fields \ {request[c].field}
        PROVE  \E k \in found[c] .. Len(log) : row'.data[f] = log'[k].row.data[f]
    BY <1>1, <1>5, <2>1, <2>3
  <2> QED
    BY <1>5, <2>1, <2>2, <2>3
<1>6. ASSUME NEW c \in Calls, Write(c) PROVE KeptOrOverlapped'
  <2>1. UNCHANGED <<request, found>>
    BY <1>6 DEF Write
  <2>2. CASE changed[c] # {}
    <3>1. PICK at \in 0 .. MaxTime : /\ Merged(row, copy[c], changed[c]) \in RowType
                                    /\ Commit(c, at, Merged(row, copy[c], changed[c]))
      BY <1>6, <2>2, Writes
    <3>2. row'.data = IF "data" \in changed[c] THEN copy[c].data ELSE row.data
      <4>1. row' = [Merged(row, copy[c], changed[c]) EXCEPT !.updatedAt = at]
        BY <3>1, CommitAppends
      <4> QED
        BY <4>1 DEF Merged
    <3>3. ASSUME request[c].kind = "update"
          PROVE  /\ found[c] \in 1 .. Len(log)
                 /\ row = log[Len(log)].row
                 /\ \A f \in Fields \ {request[c].field} : copy[c].data[f] = log[found[c]].row.data[f]
      BY <1>6, <3>3 DEF Write, CopyIsOfRow, LogIsRow
    <3>4. ASSUME request[c].kind = "update", NEW f \in Fields \ {request[c].field}
          PROVE  \E k \in found[c] .. Len(log) : row'.data[f] = log[k].row.data[f]
      <4>1. found[c] \in found[c] .. Len(log) /\ Len(log) \in found[c] .. Len(log)
        BY <3>3, <3>4
      <4> QED
        BY <3>2, <3>3, <3>4, <4>1
    <3>5. request[c].kind = "update" => found[c] >= 1
      BY <3>3
    <3> HIDE DEF KeptOrOverlapped
    <3> QED
      BY <1>5, <2>1, <3>1, <3>4, <3>5
  <2> QED
    BY <1>2, <1>6, <2>1, <2>2 DEF Write
<1>7. ASSUME NEW c \in Calls, Insert(c) PROVE KeptOrOverlapped'
  <2>1. PICK at \in 0 .. MaxTime, new \in RowType : Commit(c, at, new)
    BY <1>7, Inserts
  <2> QED
    BY <1>5, <1>7, <2>1 DEF Insert
<1> HIDE DEF KeptOrOverlapped
<1> QED
  BY <1>2, <1>3, <1>4, <1>6, <1>7 DEF Next, Execute, Tick, Compare, Fail

-------------------------------------------------------------------------------

Invariant == TypeOK /\ LogIsRow /\ CopyIsOfRow /\ DoneIsDone /\ KeptOrOverlapped

LEMMA Inductive == ASSUME Parameters PROVE Spec => []Invariant
<1>1. Init => Invariant
  <2> SUFFICES ASSUME Init PROVE Invariant
    OBVIOUS
  <2>1. log = <<>> /\ Len(log) = 0 /\ log \in Seq([call : Calls, at : 0 .. MaxTime, row : RowType])
    BY DEF Init
  <2>2. request \in [Calls -> Request] /\ \A c \in Calls : request[c].seen = 0 /\ request[c].base = NoBase
    BY DEF Init, Parameters, Request, NoBase
  <2>3. TypeOK
    BY <2>1, <2>2, NoRowTyped DEF Init, TypeOK, Parameters, Answer
  <2>4. LogIsRow
    BY <2>1, <2>2 DEF Init, NoRow, LogIsRow
  <2> QED
    BY <2>1, <2>3, <2>4 DEF Init, Invariant, CopyIsOfRow, DoneIsDone, KeptOrOverlapped
<1>2. Invariant /\ [Next]_vars => Invariant'
  BY TypeStep, LogIsRowStep, CopyStep, DoneStep, KeptStep DEF Invariant
<1> QED
  BY <1>1, <1>2, PTL DEF Spec

\* Any number of handlers at once: what an update overwrites without having seen
\* it was committed while its own handler was under way.
THEOREM LostOnlyWhenTogether == ASSUME Parameters PROVE Spec => []LostOnlyToOverlap
<1>1. Invariant => LostOnlyToOverlap
  BY DEF Invariant, KeptOrOverlapped, LostOnlyToOverlap
<1> QED
  BY <1>1, Inductive, PTL

\* A client that has seen the last commit is never told that it is outdated.
THEOREM ConflictsAreReal == ASSUME Parameters PROVE Spec => []ConflictHasCause
<1>1. Init => ConflictHasCause
  BY DEF Init, ConflictHasCause
<1>2. Invariant /\ ConflictHasCause /\ [Next]_vars => ConflictHasCause'
  <2> SUFFICES ASSUME Parameters, TypeOK, LogIsRow, DoneIsDone, ConflictHasCause, [Next]_vars
               PROVE  ConflictHasCause'
    BY DEF Invariant
  <2> USE LogTyped DEF vars, ConflictHasCause
  <2>1. answer \in [Calls -> Answer] /\ \A c \in Calls : request[c].seen \in Nat
    BY DEF TypeOK, Request
  <2>2. ASSUME NEW c \in Calls, Arrive(c) PROVE ConflictHasCause'
    <3>1. UNCHANGED <<log, answer>> /\ \A d \in Calls \ {c} : request'[d] = request[d]
      BY <2>2 DEF Arrive, TypeOK
    <3>2. answer[c] # "conflict"
      BY <2>2 DEF Arrive, DoneIsDone
    <3> QED
      BY <3>1, <3>2
  <2>3. ASSUME NEW c \in Calls, Find(c) PROVE ConflictHasCause'
    <3>1. UNCHANGED <<log, request>>
      BY <2>3 DEF Find
    <3>2. CASE ~ Outdated(c)
      BY <2>1, <2>3, <3>1, <3>2 DEF Find, Finish
    <3>3. CASE Outdated(c) /\ row.status # "absent"
      <4>1. row = log[Len(log)].row /\ row.updatedAt \in Nat
        BY <3>3 DEF LogIsRow, TypeOK, RowType
      <4>2. request[c].seen # Len(log)
        BY <3>3, <4>1 DEF Outdated, LogIsRow
      <4>3. request[c].seen < Len(log)
        BY <2>1, <4>2 DEF LogIsRow
      <4> QED
        BY <2>1, <2>3, <3>1, <4>3 DEF Find, Finish
    <3>4. CASE row.status = "absent"
      BY <2>1, <2>3, <3>1, <3>4 DEF Find, Finish
    <3> QED
      BY <3>2, <3>3, <3>4
  <2>4. ASSUME NEW c \in Calls, Write(c) \/ Insert(c) PROVE ConflictHasCause'
    <3>1. UNCHANGED request /\ answer' = [answer EXCEPT ![c] = "saved"]
      BY <2>4 DEF Write, Insert, Finish
    <3>2. Len(log') >= Len(log) /\ Len(log') \in Nat
      <4>1. CASE UNCHANGED <<row, log>>
        BY <4>1
      <4>2. CASE Len(log') = Len(log) + 1
        BY <4>2
      <4> QED
        BY <2>4, <4>1, <4>2, Commits
    <3> QED
      BY <2>1, <3>1, <3>2
  <2>5. ASSUME NEW c \in Calls, Fail(c) PROVE ConflictHasCause'
    BY <2>1, <2>5 DEF Fail, Finish
  <2>6. CASE UNCHANGED <<answer, log, request>>
    BY <2>6
  <2> HIDE DEF ConflictHasCause
  <2> QED
    BY <2>2, <2>3, <2>4, <2>5, <2>6 DEF Next, Execute, Tick, Compare
<1> QED
  BY <1>1, <1>2, Inductive, PTL DEF Spec

-------------------------------------------------------------------------------
(* One after the other *)

\* A set of positions in a sequence has a last one.
LEMMA LastExists ==
  ASSUME NEW n \in Nat, NEW W \in SUBSET (1 .. n), W # {}
  PROVE  \E i \in W : \A j \in W : j <= i
<1> DEFINE T == {n - i : i \in W}
<1>0. \A i \in W : i \in Nat /\ n - i \in Nat
  OBVIOUS
<1>1. T \subseteq Nat /\ T # {}
  BY <1>0
<1>2. PICK x \in T : \A y \in T : ~ (<<y, x>> \in OpToRel(<, Nat))
  BY <1>1, NatLessThanWellFounded, WFMin
<1>3. \A y \in T : ~ (y < x)
  BY <1>1, <1>2 DEF OpToRel
<1>4. PICK i \in W : x = n - i
  OBVIOUS
<1>5. ASSUME NEW j \in W PROVE j <= i
  <2>1. ~ (n - j < x)
    BY <1>3
  <2> QED
    BY <1>4, <2>1
<1> QED
  BY <1>5

Running(c) == pc[c] \notin {"idle", "done"}

\* Only the first request creates the row, whoever else works finds it there,
\* and only an update knows an earlier state of it.
RowComesFirst ==
    /\ \A c \in Calls : request[c].kind = "create" /\ pc[c] = "write" => log = <<>>
    /\ \A c, d \in Calls : request[c].kind = "create" /\ request[d].kind = "create" => c = d
    /\ \A c \in Calls : request[c].kind # "create" /\ pc[c] \in {"save", "write"} => Len(log) >= 1
    /\ \A c \in Calls : request[c].kind # "update" => request[c].base = NoBase
    /\ \A c \in Calls : pc[c] \in {"find", "save"} => request[c].kind # "create"
    /\ \A c \in Calls : Running(c) => request[c].kind \in {"create", "update", "delete"}

\* What a commit and the row say of the time is not later than the clock.
Timed ==
    /\ \A c \in Calls : stamp[c] <= clock
    /\ \A i \in 1 .. Len(log) : log[i].at <= clock /\ log[i].row.updatedAt = log[i].at

\* While no two handlers have met: the one at work came after every commit,
\* and its copy is the row with its own change.
Rising == \A i, j \in 1 .. Len(log) : i <= j => log[i].at <= log[j].at

WorksOnLatest(c) ==
    /\ Running(c) => \A i \in 1 .. Len(log) : log[i].at <= stamp[c]
    /\ request[c].kind # "create" /\ pc[c] \in {"save", "write"} => copy[c] = Edited(c)
    /\ request[c].kind # "create" /\ pc[c] = "write" =>
          \A col \in Column : col \in changed[c] <=> copy[c][col] # row[col]

Alone ==
    apart =>
        /\ \A c, d \in Calls : Running(c) /\ Running(d) => c = d
        /\ Rising
        /\ \A c \in Calls : WorksOnLatest(c)

\* A request that arrives is at work from now on, and changes nothing else.
LEMMA Arrives ==
  ASSUME TypeOK, NEW c \in Calls, Arrive(c)
  PROVE  /\ pc[c] = "idle"
         /\ request'[c].kind \in {"create", "update", "delete"}
         /\ request'[c].kind # "update" => request'[c].base = NoBase
         /\ request'[c].kind = "create" <=> log = <<>> /\ \A d \in Calls : request[d].kind # "create"
         /\ pc'[c] = IF request'[c].kind = "create" THEN "write" ELSE "find"
         /\ stamp'[c] = clock
         /\ \A d \in Calls \ {c} : request'[d] = request[d] /\ pc'[d] = pc[d] /\ stamp'[d] = stamp[d]
         /\ apart' = (apart /\ \A d \in Calls : pc[d] \in {"idle", "done"})
         /\ UNCHANGED <<row, clock, copy, changed, answer, log, found>>
<1>1. PICK kind \in {"create", "update", "delete"}, field \in Fields, force \in BOOLEAN, seen \in 0 .. Len(log) :
         /\ kind # "update" => seen = 0 /\ ~ force
         /\ kind = "delete" => field = request[c].field
         /\ kind = "create" <=> log = <<>> /\ \A d \in Calls : request[d].kind # "create"
         /\ request' = [request EXCEPT ![c] =
               [kind |-> kind, field |-> field, force |-> force, seen |-> seen,
                base |-> IF seen = 0 THEN NoBase ELSE log[seen].row.updatedAt]]
  BY Zenon DEF Arrive
<1>2. /\ request'[c].kind = kind
      /\ request'[c].base = IF seen = 0 THEN NoBase ELSE log[seen].row.updatedAt
      /\ \A d \in Calls \ {c} : request'[d] = request[d]
  BY <1>1 DEF TypeOK
<1>3. /\ request'[c].kind \in {"create", "update", "delete"}
      /\ request'[c].kind # "update" => request'[c].base = NoBase
      /\ request'[c].kind = "create" <=> log = <<>> /\ \A d \in Calls : request[d].kind # "create"
  BY <1>1, <1>2
<1>4. /\ pc[c] = "idle"
      /\ pc'[c] = IF request'[c].kind = "create" THEN "write" ELSE "find"
      /\ stamp'[c] = clock
      /\ \A d \in Calls \ {c} : pc'[d] = pc[d] /\ stamp'[d] = stamp[d]
  BY DEF Arrive, Goto, TypeOK
<1> QED
  BY <1>2, <1>3, <1>4 DEF Arrive

LEMMA RowComesFirstStep ==
  Parameters /\ TypeOK /\ LogIsRow /\ RowComesFirst /\ [Next]_vars => RowComesFirst'
<1> SUFFICES ASSUME Parameters, TypeOK, LogIsRow, RowComesFirst, [Next]_vars PROVE RowComesFirst'
  OBVIOUS
<1> USE LogTyped DEF vars, RowComesFirst, Running
<1>1. pc \in [Calls -> {"idle", "find", "save", "write", "done"}]
  BY DEF TypeOK
<1>2. ASSUME NEW c \in Calls, Arrive(c) PROVE RowComesFirst'
  BY <1>1, <1>2, Arrives
<1>3. ASSUME NEW c \in Calls, Find(c) \/ Compare(c) \/ Fail(c) PROVE RowComesFirst'
  <2>1. /\ UNCHANGED <<log, request>>
        /\ pc[c] # "idle"
        /\ pc'[c] \in {"save", "write", "done"}
        /\ pc'[c] = "save" => row.status # "absent" /\ pc[c] = "find"
        /\ pc'[c] = "write" => pc[c] = "save"
        /\ \A d \in Calls \ {c} : pc'[d] = pc[d]
    BY <1>1, <1>3 DEF Find, Compare, Fail, Finish, Goto
  <2>2. row.status # "absent" => log # <<>> /\ Len(log) >= 1
    BY DEF LogIsRow
  <2> QED
    BY <1>1, <2>1, <2>2
<1>4. ASSUME NEW c \in Calls, Write(c) \/ Insert(c) PROVE RowComesFirst'
  <2>1. /\ UNCHANGED request
        /\ pc[c] = "write" /\ pc'[c] = "done"
        /\ \A d \in Calls \ {c} : pc'[d] = pc[d]
    BY <1>1, <1>4 DEF Write, Insert, Finish, Goto
  <2>2. \/ UNCHANGED log
        \/ Len(log') = Len(log) + 1
    BY <1>4, Commits
  <2> QED
    BY <1>1, <1>4, <2>1, <2>2 DEF Write, Insert
<1>5. CASE UNCHANGED <<pc, request, log>>
  BY <1>5
<1> HIDE DEF RowComesFirst
<1> QED
  BY <1>2, <1>3, <1>4, <1>5 DEF Next, Execute, Tick

LEMMA TimedStep == Parameters /\ TypeOK /\ Timed /\ [Next]_vars => Timed'
<1> SUFFICES ASSUME Parameters, TypeOK, Timed, [Next]_vars PROVE Timed'
  OBVIOUS
<1> USE LogTyped DEF vars, Timed
<1>1. stamp \in [Calls -> 0 .. MaxTime] /\ clock \in Nat /\ \A i \in 1 .. Len(log) : log[i].at \in Nat
  <2>1. stamp \in [Calls -> 0 .. MaxTime] /\ clock \in Nat /\ log \in Seq(Entry)
    BY DEF TypeOK
  <2>2. \A i \in 1 .. Len(log) : log[i] \in Entry
    BY <2>1
  <2> QED
    BY <2>1, <2>2 DEF Entry
<1>2. ASSUME NEW c \in Calls, Arrive(c) PROVE Timed'
  BY <1>1, <1>2, Arrives
<1>3. ASSUME NEW c \in Calls, Find(c) \/ Compare(c) \/ Fail(c) PROVE Timed'
  BY <1>1, <1>3 DEF Find, Compare, Fail, Finish
<1>4. ASSUME NEW c \in Calls, Write(c) \/ Insert(c) PROVE Timed'
  <2>1. stamp' = [stamp EXCEPT ![c] = 0] /\ UNCHANGED clock
    BY <1>4 DEF Write, Insert, Finish
  <2>2. CASE UNCHANGED log
    BY <1>1, <2>1, <2>2
  <2>3. ASSUME NEW at \in stamp[c] .. clock, row'.updatedAt = at,
               Len(log') = Len(log) + 1,
               \A i \in 1 .. Len(log) : log'[i] = log[i],
               log'[Len(log) + 1] = [call |-> c, at |-> at, row |-> row']
        PROVE  Timed'
    <3>1. log'[Len(log) + 1].at = at /\ log'[Len(log) + 1].row.updatedAt = at /\ at <= clock
      BY <1>1, <2>3
    <3>2. \A d \in Calls : stamp'[d] <= clock
      BY <1>1, <2>1
    <3>3. \A i \in 1 .. Len(log') : i \in 1 .. Len(log) \/ i = Len(log) + 1
      BY <2>3
    <3> QED
      BY <2>1, <2>3, <3>1, <3>2, <3>3
  <2> QED
    BY <1>4, <2>2, <2>3, Commits
<1>5. CASE Tick
  BY <1>1, <1>5 DEF Tick
<1>6. CASE UNCHANGED <<stamp, clock, log>>
  BY <1>6
<1> HIDE DEF Timed
<1> QED
  BY <1>2, <1>3, <1>4, <1>5, <1>6 DEF Next, Execute

LEMMA AloneStep ==
  Parameters /\ TypeOK /\ RowComesFirst /\ Timed /\ Alone /\ [Next]_vars => Alone'
<1> SUFFICES ASSUME Parameters, TypeOK, RowComesFirst, Timed, Alone, [Next]_vars, apart' PROVE Alone'
  BY DEF Alone
<1> USE DEF vars, Running
<1>0. apart
  BY Arrives DEF Next, Execute, Tick, Find, Compare, Write, Insert, Fail
<1>1. /\ pc \in [Calls -> {"idle", "find", "save", "write", "done"}]
      /\ stamp \in [Calls -> 0 .. MaxTime] /\ clock \in Nat
      /\ copy \in [Calls -> RowType]
      /\ changed \in [Calls -> SUBSET (Column \cup {"updatedBy"})]
      /\ Len(log) \in Nat
      /\ \A i \in 1 .. Len(log) : log[i].at \in Nat
  BY LogTyped DEF TypeOK, Entry
<1>2. UNCHANGED <<row, request>> => \A d \in Calls : Edited(d)' = Edited(d)
  BY DEF Edited
<1>a. Rising /\ \A d \in Calls : WorksOnLatest(d)
  BY <1>0 DEF Alone
<1>b. \A d, e \in Calls : Running(d) /\ Running(e) => d = e
  BY <1>0 DEF Alone
\* Where one handler moves and nothing is committed, the others stay in step.
<1>c. ASSUME NEW c \in Calls, UNCHANGED <<row, log, request>>, Running(c),
             \A d \in Calls \ {c} :
                pc'[d] = pc[d] /\ copy'[d] = copy[d] /\ changed'[d] = changed[d] /\ stamp'[d] = stamp[d],
             WorksOnLatest(c)'
      PROVE  Alone'
  <2>1. Rising'
    BY <1>a, <1>c DEF Rising
  <2>2. \A d, e \in Calls : Running(d)' /\ Running(e)' => d = e
    BY <1>b, <1>c
  <2>3. ASSUME NEW d \in Calls \ {c} PROVE WorksOnLatest(d)'
    <3>1. WorksOnLatest(d) /\ Edited(d)' = Edited(d)
      BY <1>a, <1>2, <1>c
    <3> QED
      BY <1>c, <3>1 DEF WorksOnLatest
  <2> QED
    BY <1>c, <2>1, <2>2, <2>3 DEF Alone
<1>3. ASSUME NEW c \in Calls, Arrive(c) PROVE Alone'
  <2>1. /\ UNCHANGED log
        /\ stamp'[c] = clock
        /\ pc'[c] = IF request'[c].kind = "create" THEN "write" ELSE "find"
        /\ \A d \in Calls \ {c} : pc'[d] \in {"idle", "done"}
    BY <1>3, Arrives
  <2>2. \A i \in 1 .. Len(log) : log[i].at <= clock
    BY DEF Timed
  <2>3. Rising'
    BY <1>a, <2>1 DEF Rising
  <2>4. ASSUME NEW d \in Calls PROVE WorksOnLatest(d)'
    BY <2>1, <2>2 DEF WorksOnLatest
  <2> QED
    BY <2>1, <2>3, <2>4 DEF Alone
<1>4. ASSUME NEW c \in Calls, Find(c) PROVE Alone'
  <2>1. /\ UNCHANGED <<row, log, request>>
        /\ pc[c] = "find"
        /\ \/ pc'[c] = "done"
           \/ pc'[c] = "save" /\ copy'[c] = Edited(c) /\ stamp'[c] = stamp[c]
        /\ \A d \in Calls \ {c} :
              pc'[d] = pc[d] /\ copy'[d] = copy[d] /\ changed'[d] = changed[d] /\ stamp'[d] = stamp[d]
    BY <1>1, <1>4 DEF Find, Finish, Goto
  <2>2. WorksOnLatest(c)'
    <3>1. WorksOnLatest(c) /\ Edited(c)' = Edited(c)
      BY <1>a, <1>2, <2>1
    <3> QED
      BY <2>1, <3>1 DEF WorksOnLatest
  <2> QED
    BY <1>c, <2>1, <2>2
<1>5. ASSUME NEW c \in Calls, Compare(c) PROVE Alone'
  <2>1. /\ UNCHANGED <<row, log, request, copy>>
        /\ pc[c] = "save" /\ pc'[c] = "write" /\ stamp'[c] = clock
        /\ \A col \in Column : col \in changed'[c] <=> copy[c][col] # row[col]
        /\ \A d \in Calls \ {c} : pc'[d] = pc[d] /\ changed'[d] = changed[d] /\ stamp'[d] = stamp[d]
    BY <1>1, <1>5 DEF Compare, Differing, Goto, Column
  <2>2. WorksOnLatest(c)'
    <3>1. WorksOnLatest(c) /\ Edited(c)' = Edited(c)
      BY <1>a, <1>2, <2>1
    <3>2. \A i \in 1 .. Len(log) : log[i].at <= clock
      BY DEF Timed
    <3> QED
      BY <2>1, <3>1, <3>2 DEF WorksOnLatest
  <2> QED
    BY <1>c, <2>1, <2>2
<1>6. ASSUME NEW c \in Calls, Write(c) \/ Insert(c) PROVE Alone'
  <2>1. /\ pc[c] = "write" /\ pc'[c] = "done"
        /\ \A d \in Calls \ {c} : pc'[d] = pc[d]
    BY <1>1, <1>6 DEF Write, Insert, Finish, Goto
  <2>2. \A d \in Calls : ~ Running(d)'
    BY <1>b, <1>1, <2>1
  <2>3. Rising'
    <3>1. CASE UNCHANGED log
      BY <1>a, <3>1 DEF Rising
    <3>2. ASSUME NEW at \in stamp[c] .. clock,
                 Len(log') = Len(log) + 1,
                 \A i \in 1 .. Len(log) : log'[i] = log[i],
                 log'[Len(log) + 1] = [call |-> c, at |-> at, row |-> row']
          PROVE  Rising'
      <4>1. \A i \in 1 .. Len(log) : log[i].at <= stamp[c]
        BY <1>a, <2>1 DEF WorksOnLatest
      <4>2. log'[Len(log) + 1].at = at /\ \A i \in 1 .. Len(log) : log'[i].at <= at
        <5>1. stamp[c] \in Int /\ at \in Int /\ stamp[c] <= at
          BY <1>1
        <5>2. \A i \in 1 .. Len(log) : log'[i].at = log[i].at /\ log[i].at \in Nat /\ log[i].at <= stamp[c]
          BY <1>1, <3>2, <4>1
        <5>3. log'[Len(log) + 1].at = at
          BY <3>2
        <5> QED
          BY <5>1, <5>2, <5>3
      <4>3. \A i, j \in 1 .. Len(log) : i <= j => log'[i].at <= log'[j].at
        BY <1>a, <3>2 DEF Rising
      <4>4. \A i \in 1 .. Len(log') : i \in 1 .. Len(log) \/ i = Len(log) + 1
        BY <1>1, <3>2
      <4> QED
        BY <1>1, <4>2, <4>3, <4>4 DEF Rising
    <3> QED
      BY <1>6, <3>1, <3>2, Commits
  <2>4. ASSUME NEW d \in Calls PROVE WorksOnLatest(d)'
    BY <2>2 DEF WorksOnLatest
  <2> QED
    BY <2>2, <2>3, <2>4 DEF Alone
<1>7. ASSUME NEW c \in Calls, Fail(c) PROVE Alone'
  <2>1. /\ UNCHANGED <<row, log, request>>
        /\ pc[c] \in {"find", "save", "write"} /\ pc'[c] = "done"
        /\ \A d \in Calls \ {c} :
              pc'[d] = pc[d] /\ copy'[d] = copy[d] /\ changed'[d] = changed[d] /\ stamp'[d] = stamp[d]
    BY <1>1, <1>7 DEF Fail, Finish, Goto
  <2>2. WorksOnLatest(c)'
    BY <2>1 DEF WorksOnLatest
  <2> QED
    BY <1>c, <2>1, <2>2
<1>8. CASE UNCHANGED <<row, pc, request, copy, changed, stamp, log, apart>>
  <2>1. Rising'
    BY <1>a, <1>8 DEF Rising
  <2>2. ASSUME NEW d \in Calls PROVE WorksOnLatest(d)'
    <3>1. WorksOnLatest(d) /\ Edited(d)' = Edited(d)
      BY <1>a, <1>2, <1>8
    <3> QED
      BY <1>8, <3>1 DEF WorksOnLatest
  <2>3. \A d, e \in Calls : Running(d)' /\ Running(e)' => d = e
    BY <1>b, <1>8
  <2> QED
    BY <2>1, <2>2, <2>3 DEF Alone
<1> QED
  BY <1>3, <1>4, <1>5, <1>6, <1>7, <1>8 DEF Next, Execute, Tick

AloneInvariant == Invariant /\ RowComesFirst /\ Timed /\ Alone

LEMMA AloneInductive == ASSUME Parameters PROVE Spec => []AloneInvariant
<1>1. Init => RowComesFirst /\ Timed /\ Alone
  BY DEF Parameters, Init, RowComesFirst, Timed, Alone, Rising, WorksOnLatest, Running
<1>2. AloneInvariant /\ [Next]_vars => (RowComesFirst /\ Timed /\ Alone)'
  BY RowComesFirstStep, TimedStep, AloneStep DEF AloneInvariant, Invariant
<1> QED
  BY <1>1, <1>2, Inductive, PTL DEF Spec, AloneInvariant

\* Requests that come one after the other: an update that was checked and let
\* through was made on the latest state of the row, commits of one and the same
\* millisecond excepted.
THEOREM CheckedUpdatesSawLatest == ASSUME Parameters PROVE Spec => CheckedSawLatest
<1>1. AloneInvariant /\ [Next]_vars
        => [\A c \in Calls :
               /\ apart
               /\ pc[c] = "find" /\ pc'[c] = "save"
               /\ request[c].base # NoBase /\ ~ request[c].force
               => \A i \in request[c].seen + 1 .. Len(log) : log[i].at = request[c].base]_vars
  <2> SUFFICES ASSUME AloneInvariant, Next, NEW c \in Calls, apart, pc[c] = "find", pc'[c] = "save",
                      request[c].base # NoBase, ~ request[c].force,
                      NEW i \in request[c].seen + 1 .. Len(log)
               PROVE  log[i].at = request[c].base
    BY DEF vars
  <2> USE LogTyped DEF AloneInvariant, Invariant
  <2>1. Find(c)
    <3>1. pc \in [Calls -> {"idle", "find", "save", "write", "done"}]
      BY DEF TypeOK
    <3>2. ~ \E d \in Calls : Arrive(d)
      <4> SUFFICES ASSUME NEW d \in Calls, Arrive(d) PROVE FALSE
        OBVIOUS
      <4>1. pc'[d] # "save" /\ pc[d] = "idle" /\ \A e \in Calls \ {d} : pc'[e] = pc[e]
        BY Arrives
      <4> QED
        BY <4>1
    <3>3. ~ \E d \in Calls : Compare(d) \/ Write(d) \/ Insert(d) \/ Fail(d)
      BY <3>1 DEF Compare, Write, Insert, Fail, Finish, Goto
    <3>4. ~ Tick
      BY DEF Tick
    <3>5. \E d \in Calls : Find(d)
      BY <3>2, <3>3, <3>4 DEF Next, Execute
    <3> QED
      BY <3>1, <3>5 DEF Find, Finish, Goto
  <2>2. ~ Outdated(c)
    BY <2>1 DEF Find, Finish, Goto, TypeOK
  <2>3. /\ request[c].seen \in 1 .. Len(log) /\ request[c].seen \in Nat
        /\ request[c].base = log[request[c].seen].at
    <3>1. request[c].seen \in Nat
      BY DEF TypeOK, Request
    <3>2. /\ request[c].seen <= Len(log) /\ request[c].seen >= 1
          /\ request[c].base = log[request[c].seen].row.updatedAt
      BY DEF LogIsRow
    <3>3. request[c].seen \in 1 .. Len(log)
      BY <3>1, <3>2
    <3> QED
      BY <3>1, <3>2, <3>3 DEF Timed
  <2>4. i \in 1 .. Len(log) /\ Len(log) \in 1 .. Len(log) /\ \A j \in 1 .. Len(log) : log[j].at \in Nat
    BY <2>3 DEF Entry
  <2>5. log[Len(log)].at <= request[c].base
    <3>1. request[c].kind = "update" /\ row.updatedAt = log[Len(log)].at
      BY <2>4 DEF RowComesFirst, LogIsRow, Timed
    <3> QED
      BY <2>2, <2>3, <2>4, <3>1 DEF Outdated
  <2>6. Rising
    BY DEF Alone
  <2>7. log[request[c].seen].at <= log[i].at /\ log[i].at <= log[Len(log)].at
    BY <2>3, <2>4, <2>6 DEF Rising
  <2> QED
    BY <2>3, <2>4, <2>5, <2>7
<1> QED
  BY <1>1, AloneInductive, PTL DEF Spec, CheckedSawLatest

\* Where the history has the commits that wrote a field.
WritesOf(f) ==
    {i \in 1 .. Len(log) :
        /\ request[log[i].call].kind \in {"create", "update"}
        /\ request[log[i].call].field = f}

LastOf(W) == CHOOSE i \in W : \A j \in W : j <= i

LEMMA LastWriterIs ==
  \A f : LastWriter(f) = IF WritesOf(f) = {} THEN Nobody ELSE log[LastOf(WritesOf(f))].call
BY DEF LastWriter, WritesOf, LastOf

LEMMA LastOfIs ==
  ASSUME NEW n \in Nat, NEW W \in SUBSET (1 .. n)
  PROVE  /\ W # {} => LastOf(W) \in W
         /\ LastOf(W \cup {n + 1}) = n + 1
<1>1. W # {} => LastOf(W) \in W
  BY LastExists DEF LastOf
<1>2. \A j \in W \cup {n + 1} : j \in Nat /\ j <= n + 1
  OBVIOUS
<1>3. LastOf(W \cup {n + 1}) \in W \cup {n + 1} /\ \A j \in W \cup {n + 1} : j <= LastOf(W \cup {n + 1})
  BY <1>2 DEF LastOf
<1>4. n + 1 <= LastOf(W \cup {n + 1}) /\ LastOf(W \cup {n + 1}) <= n + 1 /\ LastOf(W \cup {n + 1}) \in Nat
  BY <1>2, <1>3
<1> QED
  BY <1>1, <1>4

\* A commit of a call that writes the field makes it the field's last writer;
\* any other commit leaves the last writer as it was.
LEMMA WriterAppended ==
  ASSUME TypeOK, NEW c \in Calls, UNCHANGED request,
         Len(log') = Len(log) + 1,
         \A i \in 1 .. Len(log) : log'[i] = log[i],
         log'[Len(log) + 1].call = c,
         NEW f \in Fields
  PROVE  LastWriter(f)' = IF request[c].kind \in {"create", "update"} /\ request[c].field = f
                          THEN c ELSE LastWriter(f)
<1> DEFINE n == Len(log)
<1>1. n \in Nat /\ WritesOf(f) \in SUBSET (1 .. n)
  BY LogTyped DEF WritesOf
<1>2. LastWriter(f)' = IF WritesOf(f)' = {} THEN Nobody ELSE log'[LastOf(WritesOf(f)')].call
  BY DEF LastWriter, WritesOf, LastOf
<1>3. CASE request[c].kind \in {"create", "update"} /\ request[c].field = f
  <2>1. WritesOf(f)' = WritesOf(f) \cup {n + 1}
    BY <1>1, <1>3 DEF WritesOf
  <2> QED
    BY <1>1, <1>2, <1>3, <2>1, LastOfIs
<1>4. CASE ~ (request[c].kind \in {"create", "update"} /\ request[c].field = f)
  <2>1. WritesOf(f)' = WritesOf(f)
    BY <1>1, <1>4 DEF WritesOf
  <2>2. WritesOf(f) # {} => LastOf(WritesOf(f)) \in 1 .. n
    BY <1>1, LastOfIs
  <2> QED
    BY <1>2, <1>4, <2>1, <2>2, LastWriterIs
<1> QED
  BY <1>3, <1>4

LEMMA CommittedAppended ==
  ASSUME TypeOK, NEW c \in Calls, UNCHANGED request,
         Len(log') = Len(log) + 1,
         \A i \in 1 .. Len(log) : log'[i] = log[i],
         log'[Len(log) + 1].call = c,
         NEW kind
  PROVE  /\ request[c].kind = kind =>
               /\ Committed(kind)' # {}
               /\ Cardinality(Committed(kind)') = Cardinality(Committed(kind)) + 1
         /\ request[c].kind # kind => Committed(kind)' = Committed(kind)
         /\ Cardinality(Committed(kind)) \in Nat
<1>1. /\ Len(log) \in Nat /\ Len(log) + 1 \notin Committed(kind)
      /\ Committed(kind) \in SUBSET (1 .. Len(log))
  BY LogTyped DEF Committed
<1>2. IsFiniteSet(Committed(kind))
  <2>1. IsFiniteSet(1 .. Len(log))
    BY <1>1, FS_Interval
  <2> QED
    BY <1>1, <2>1, FS_Subset
<1>3. request[c].kind = kind => Committed(kind)' = Committed(kind) \cup {Len(log) + 1}
  BY <1>1 DEF Committed
<1>4. request[c].kind # kind => Committed(kind)' = Committed(kind)
  BY <1>1 DEF Committed
<1> QED
  BY <1>1, <1>2, <1>3, <1>4, FS_AddElement, FS_CardinalityType

\* What the history says of the past does not depend on who arrives.
LEMMA HistoryKept ==
  ASSUME TypeOK, UNCHANGED log, \A i \in 1 .. Len(log) : request'[log[i].call] = request[log[i].call]
  PROVE  /\ \A f : LastWriter(f)' = LastWriter(f)
         /\ \A kind : Committed(kind)' = Committed(kind)
<1>1. \A f : WritesOf(f)' = WritesOf(f)
  BY DEF WritesOf
<1>2. \A f : LastWriter(f)' = IF WritesOf(f)' = {} THEN Nobody ELSE log'[LastOf(WritesOf(f)')].call
  BY DEF LastWriter, WritesOf, LastOf
<1>3. \A kind : Committed(kind)' = Committed(kind)
  BY DEF Committed
<1> QED
  BY <1>1, <1>2, <1>3, LastWriterIs

\* Alone, a handler's UPDATE makes the row its copy.
LEMMA WritesItsCopy ==
  ASSUME Parameters, AloneInvariant, apart, NEW c \in Calls, Write(c)
  PROVE  /\ request[c].kind \in {"update", "delete"}
         /\ changed[c] = {} => request[c].kind = "delete" /\ row.status = "deleted"
         /\ changed[c] # {} =>
               \A col \in Column : row'[col] = Edited(c)[col]
<1> USE DEF AloneInvariant, Invariant
<1>1. request[c].kind \in {"update", "delete"} /\ pc[c] = "write"
  BY DEF Write, RowComesFirst, Running
<1>2. copy[c] = Edited(c) /\ \A col \in Column : col \in changed[c] <=> copy[c][col] # row[col]
  BY <1>1 DEF Alone, WorksOnLatest
<1>3. row \in RowType /\ row.version \in Nat /\ request[c].field \in Fields
  BY DEF TypeOK, RowType, Request
<1>4. CASE changed[c] = {}
  <2>1. copy[c].version = row.version /\ copy[c].status = row.status
    BY <1>2, <1>4 DEF Column
  <2>2. request[c].kind = "update" => copy[c].version = row.version + 1
    BY <1>2, <1>3 DEF Edited, RowType
  <2>3. request[c].kind # "update" => copy[c].status = "deleted"
    BY <1>2, <1>3 DEF Edited, RowType
  <2> QED
    BY <1>1, <1>3, <1>4, <2>1, <2>2, <2>3
<1>5. CASE changed[c] # {}
  <2>1. PICK at \in 0 .. MaxTime : /\ Merged(row, copy[c], changed[c]) \in RowType
                                  /\ Commit(c, at, Merged(row, copy[c], changed[c]))
    BY <1>5, Writes
  <2>2. row' = [Merged(row, copy[c], changed[c]) EXCEPT !.updatedAt = at]
    BY <2>1, CommitAppends
  <2>3. \A col \in Column : row'[col] = copy[c][col]
    BY <1>2, <2>1, <2>2 DEF Merged, Column, RowType
  <2> QED
    BY <1>1, <1>2, <1>5, <2>3
<1> QED
  BY <1>4, <1>5

LEMMA SerialStep ==
  ASSUME Parameters, AloneInvariant, SerialWhenApart, [Next]_vars
  PROVE  SerialWhenApart'
<1> SUFFICES ASSUME apart', log' # <<>>
             PROVE  (/\ \A f \in Fields : row.data[f] = LastWriter(f)
                     /\ row.version = 1 + Cardinality(Committed("update"))
                     /\ row.status = "deleted" <=> Committed("delete") # {})'
  BY DEF SerialWhenApart
<1> DEFINE Serial == /\ \A f \in Fields : row.data[f] = LastWriter(f)
                     /\ row.version = 1 + Cardinality(Committed("update"))
                     /\ row.status = "deleted" <=> Committed("delete") # {}
<1> USE DEF AloneInvariant, Invariant
<1>0. apart
  BY Arrives DEF Next, Execute, Tick, Find, Compare, Write, Insert, Fail, vars
<1>1. log # <<>> => Serial
  BY <1>0 DEF SerialWhenApart
<1>2. ASSUME UNCHANGED <<row, log>>, \A i \in 1 .. Len(log) : request'[log[i].call] = request[log[i].call]
      PROVE  Serial'
  <2> HIDE DEF AloneInvariant, Invariant
  <2>1. TypeOK
    BY DEF AloneInvariant, Invariant
  <2>2. /\ \A f \in Fields : LastWriter(f)' = LastWriter(f)
        /\ Committed("update")' = Committed("update") /\ Committed("delete")' = Committed("delete")
    BY <1>2, <2>1, HistoryKept
  <2> QED
    BY <1>1, <1>2, <2>2
<1>3. ASSUME NEW c \in Calls, Arrive(c) PROVE Serial'
  <2>1. \A i \in 1 .. Len(log) : log[i].call \in Calls /\ log[i].call # c
    BY <1>3, LogTyped DEF Arrive, DoneIsDone
  <2> QED
    BY <1>2, <1>3, <2>1, Arrives
<1>4. ASSUME NEW c \in Calls, Write(c) \/ Insert(c) PROVE Serial'
  <2>1. UNCHANGED request
    BY <1>4 DEF Write, Insert
  <2>2. CASE UNCHANGED <<row, log>>
    BY <1>2, <2>1, <2>2
  <2>3. ASSUME Len(log') = Len(log) + 1,
               \A i \in 1 .. Len(log) : log'[i] = log[i],
               log'[Len(log) + 1].call = c
        PROVE  Serial'
    <3> USE <2>1, <2>3
    <3>1. \A f \in Fields :
             LastWriter(f)' = IF request[c].kind \in {"create", "update"} /\ request[c].field = f
                              THEN c ELSE LastWriter(f)
      BY WriterAppended
    <3>2. \A kind :
             /\ request[c].kind = kind =>
                   /\ Committed(kind)' # {}
                   /\ Cardinality(Committed(kind)') = Cardinality(Committed(kind)) + 1
             /\ request[c].kind # kind => Committed(kind)' = Committed(kind)
             /\ Cardinality(Committed(kind)) \in Nat
      BY CommittedAppended
    <3>3. row \in RowType /\ request[c].field \in Fields
      BY DEF TypeOK, Request
    <3>4. CASE Write(c)
      <4>1. row' # row \/ log' # log
        BY LogTyped
      <4>2. changed[c] # {}
        BY <3>4 DEF Write
      <4>3. /\ row'.data = Edited(c).data /\ row'.version = Edited(c).version /\ row'.status = Edited(c).status
            /\ request[c].kind \in {"update", "delete"}
        BY <1>0, <3>4, <4>2, WritesItsCopy DEF Column
      <4>4. log # <<>>
        BY <3>4, <4>3 DEF Write, RowComesFirst
      <4>5. CASE request[c].kind = "update"
        <5>1. /\ row'.data = [row.data EXCEPT ![request[c].field] = c]
              /\ row'.version = row.version + 1
              /\ row'.status = row.status
          BY <3>3, <4>3, <4>5 DEF Edited, RowType
        <5>2. \A f \in Fields : row'.data[f] = IF request[c].field = f THEN c ELSE row.data[f]
          BY <3>3, <5>1 DEF RowType
        <5> QED
          BY <1>1, <3>1, <3>2, <4>4, <4>5, <5>1, <5>2
      <4>6. CASE request[c].kind = "delete"
        <5>1. /\ row'.data = row.data
              /\ row'.version = row.version
              /\ row'.status = "deleted"
          BY <3>3, <4>3, <4>6 DEF Edited, RowType
        <5> QED
          BY <1>1, <3>1, <3>2, <4>4, <4>6, <5>1
      <4> QED
        BY <4>3, <4>5, <4>6
    <3>5. CASE Insert(c)
      <4>1. log = <<>> /\ Len(log) = 0 /\ request[c].kind = "create"
        BY <3>5 DEF Insert, RowComesFirst
      <4>2. /\ row'.data = [NoRow.data EXCEPT ![request[c].field] = c]
            /\ row'.version = 1 /\ row'.status = "active"
        <5>1. PICK at \in 0 .. MaxTime, new \in RowType :
                 /\ new = [NoRow EXCEPT !.data[request[c].field] = c, !.version = 1, !.status = "active"]
                 /\ Commit(c, at, new)
          BY <3>5, Inserts
        <5>2. row' = [new EXCEPT !.updatedAt = at]
          BY <5>1, CommitAppends
        <5>3. /\ new.data = [NoRow.data EXCEPT ![request[c].field] = c]
              /\ new.version = 1 /\ new.status = "active"
          BY <5>1 DEF NoRow
        <5> QED
          BY <5>2, <5>3 DEF RowType
      <4>3. \A f \in Fields : row'.data[f] = IF request[c].field = f THEN c ELSE Nobody
        BY <3>3, <4>2 DEF NoRow
      <4>4. /\ \A f \in Fields : LastWriter(f) = Nobody
            /\ Committed("update") = {} /\ Committed("delete") = {}
        BY <4>1 DEF LastWriter, Committed
      <4> QED
        <5>1. /\ Cardinality(Committed("update")') = 0 /\ Committed("delete")' = {}
          BY <3>2, <4>1, <4>4, FS_EmptySet
        <5>2. \A f \in Fields : row'.data[f] = LastWriter(f)'
          BY <3>1, <4>1, <4>3, <4>4
        <5> QED
          BY <4>2, <5>1, <5>2
    <3> QED
      BY <1>4, <3>4, <3>5
  <2>4. \/ UNCHANGED <<row, log>>
        \/ /\ Len(log') = Len(log) + 1
           /\ \A i \in 1 .. Len(log) : log'[i] = log[i]
           /\ log'[Len(log) + 1].call = c
    <3>1. CASE UNCHANGED <<row, log>>
      BY <3>1
    <3>2. ASSUME NEW at, log'[Len(log) + 1] = [call |-> c, at |-> at, row |-> row']
          PROVE  log'[Len(log) + 1].call = c
      BY <3>2
    <3> QED
      BY <1>4, <3>1, <3>2, Commits
  <2> QED
    BY <2>2, <2>3, <2>4
<1>5. CASE UNCHANGED <<row, log, request>>
  BY <1>2, <1>5
<1> QED
  BY <1>3, <1>4, <1>5 DEF Next, Execute, Tick, Find, Compare, Fail, vars

\* Any number of calls on one row: one after the other they leave what they make
\* of it in that order; together an update is lost only to a handler that was
\* under way; and no client that has seen the last commit meets a conflict.
THEOREM UpdatesAlwaysKept == ASSUME Parameters PROVE Spec => []UpdatesAreKept
<1>1. Init => SerialWhenApart
  BY DEF Init, SerialWhenApart
<1>2. AloneInvariant /\ SerialWhenApart /\ [Next]_vars => SerialWhenApart'
  BY SerialStep
<1> QED
  BY <1>1, <1>2, AloneInductive, LostOnlyWhenTogether, ConflictsAreReal, PTL DEF Spec, UpdatesAreKept
===============================================================================
