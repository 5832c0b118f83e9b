----------------------------- MODULE CrudEntities -----------------------------
(***************************************************************************)
(* The crud.create, crud.update and crud.delete handlers of the action       *)
(* engine (engines/action/handlers) at work on one row of table entities.    *)
(* A handler reads the row, decides, and saves its copy; TypeORM's save      *)
(* reads the row again, opens a transaction, and updates the columns in      *)
(* which the copy differs from what it read.  Handlers of concurrent         *)
(* requests interleave between these round trips.                           *)
(*                                                                         *)
(* A payload is the field it sets; the value of a field is the call that     *)
(* wrote it.  Time is counted in the milliseconds of updated_at.             *)
(***************************************************************************)
EXTENDS Naturals, Sequences, FiniteSets

CONSTANTS
    Calls,      \* the executions of handlers
    Fields,     \* the fields of the entity's data
    Nobody,     \* the value of a field nobody has written: no call
    MaxTime     \* bound: the clock ranges over 0 .. MaxTime

VARIABLES
    row,        \* the row: data, version, status, updatedAt
    clock,      \* the database's clock
    pc,         \* where each handler is
    request,    \* what it was asked: kind, field, base_updated_at, force
    copy,       \* its copy of the row (existing)
    changed,    \* the columns that save found to differ
    stamp,      \* the time at which it came to save
    answer,     \* what it returned or threw
    log,        \* history: the commits, with the row they left
    found,      \* history: how many commits there were when a handler read the row
    apart       \* history: no two handlers were under way at once

vars == <<row, clock, pc, request, copy, changed, stamp, answer, log, found, apart>>

NoBase == MaxTime + 1

Column == {"data", "version", "status"}

RowType ==
    [data : [Fields -> Calls \cup {Nobody}], version : Nat,
     status : {"absent", "active", "deleted"}, updatedAt : 0 .. MaxTime]

Request ==
    [kind : {"none", "create", "update", "delete"}, field : Fields,
     base : 0 .. NoBase, force : BOOLEAN, seen : Nat]

Answer == {"none", "saved", "conflict", "missing", "error"}

TypeOK ==
    /\ row \in RowType
    /\ clock \in 0 .. MaxTime
    /\ pc \in [Calls -> {"idle", "find", "save", "write", "done"}]
    /\ request \in [Calls -> Request]
    /\ copy \in [Calls -> RowType]
    /\ changed \in [Calls -> SUBSET (Column \cup {"updatedBy"})]
    /\ stamp \in [Calls -> 0 .. MaxTime]
    /\ answer \in [Calls -> Answer]
    /\ log \in Seq([call : Calls, at : 0 .. MaxTime, row : RowType])
    /\ found \in [Calls -> Nat]
    /\ apart \in BOOLEAN

NoRow ==
    [data |-> [f \in Fields |-> Nobody], version |-> 0, status |-> "absent", updatedAt |-> 0]

Init ==
    /\ row = NoRow
    /\ clock = 0
    /\ pc = [c \in Calls |-> "idle"]
    /\ request = [c \in Calls |->
          [kind |-> "none", field |-> CHOOSE f \in Fields : TRUE, base |-> NoBase,
           force |-> FALSE, seen |-> 0]]
    /\ copy = [c \in Calls |-> NoRow]
    /\ changed = [c \in Calls |-> {}]
    /\ stamp = [c \in Calls |-> 0]
    /\ answer = [c \in Calls |-> "none"]
    /\ log = <<>>
    /\ found = [c \in Calls |-> 0]
    /\ apart = TRUE

-------------------------------------------------------------------------------

Tick ==
    /\ clock < MaxTime
    /\ clock' = clock + 1
    /\ UNCHANGED <<row, pc, request, copy, changed, stamp, answer, log, found, apart>>

Goto(c, step) == pc' = [pc EXCEPT ![c] = step]

\* The handler returns or throws; its local variables end with it.
Finish(c, a) ==
    /\ Goto(c, "done")
    /\ answer' = [answer EXCEPT ![c] = a]
    /\ copy' = [copy EXCEPT ![c] = NoRow]
    /\ changed' = [changed EXCEPT ![c] = {}]
    /\ stamp' = [stamp EXCEPT ![c] = 0]

\* A request arrives.  Its base_updated_at, if it has one, is the updated_at of
\* the row as its client saw it after some earlier commit, request.seen.
Arrive(c) ==
    /\ pc[c] = "idle"
    /\ \E kind \in {"create", "update", "delete"}, field \in Fields, force \in BOOLEAN,
          seen \in 0 .. Len(log) :
          /\ kind # "update" => seen = 0 /\ ~ force
          /\ kind = "delete" => field = request[c].field
          /\ kind = "create" <=> log = <<>> /\ \A d \in Calls : request[d].kind # "create"
          /\ request' = [request EXCEPT ![c] =
                [kind |-> kind, field |-> field, force |-> force, seen |-> seen,
                 base |-> IF seen = 0 THEN NoBase ELSE log[seen].row.updatedAt]]
    /\ apart' = (apart /\ \A d \in Calls : pc[d] \in {"idle", "done"})
    /\ Goto(c, IF request'[c].kind = "create" THEN "write" ELSE "find")
    /\ stamp' = [stamp EXCEPT ![c] = clock]
    /\ UNCHANGED <<row, clock, copy, changed, answer, log, found>>

\* Mutant: the check is lost.
OutdatedNever(c) == FALSE

\* The optimistic check of an update, skipped when it is forced or has no base.
Outdated(c) ==
    /\ request[c].kind = "update"
    /\ ~ request[c].force
    /\ request[c].base # NoBase
    /\ row.updatedAt > request[c].base

\* Mutant: the payload replaces the data.
EditedReplaces(c) ==
    IF request[c].kind = "update"
    THEN [row EXCEPT !.data = [f \in Fields |-> IF f = request[c].field THEN c ELSE Nobody],
                     !.version = @ + 1]
    ELSE [row EXCEPT !.status = "deleted"]

\* The handler's copy after its changes: an update merges the payload and
\* increments the version, a delete sets the status only.
Edited(c) ==
    IF request[c].kind = "update"
    THEN [row EXCEPT !.data[request[c].field] = c, !.version = @ + 1]
    ELSE [row EXCEPT !.status = "deleted"]

\* repo.findOne, the check and the changes to the copy.  A deleted row is
\* found like any other.
Find(c) ==
    /\ pc[c] = "find"
    /\ \/ /\ row.status = "absent"
          /\ Finish(c, "missing")
       \/ /\ row.status # "absent"
          /\ Outdated(c)
          /\ Finish(c, "conflict")
       \/ /\ row.status # "absent"
          /\ ~ Outdated(c)
          /\ copy' = [copy EXCEPT ![c] = Edited(c)]
          /\ Goto(c, "save")
          /\ UNCHANGED <<answer, changed, stamp>>
    /\ found' = [found EXCEPT ![c] = Len(log)]
    /\ UNCHANGED <<row, clock, request, log, apart>>

Differing(c) == {col \in Column : copy[c][col] # row[col]}

\* repo.save: the row is read again and compared.  updated_by
\* differs as well unless the last writer was the same user; it decides whether
\* anything is written when nothing else differs, and is kept for that case only.
Compare(c) ==
    /\ pc[c] = "save"
    /\ \E others \in SUBSET {"updatedBy"} :
          /\ Differing(c) # {} => others = {}
          /\ changed' = [changed EXCEPT ![c] = Differing(c) \cup others]
    /\ stamp' = [stamp EXCEPT ![c] = clock]
    /\ Goto(c, "write")
    /\ UNCHANGED <<row, clock, request, copy, answer, log, found, apart>>

Commit(c, at, new) ==
    /\ row' = [new EXCEPT !.updatedAt = at]
    /\ log' = Append(log, [call |-> c, at |-> at, row |-> row'])

\* The transaction with the UPDATE of the columns that differ, if there are any.
\* updated_at = CURRENT_TIMESTAMP is the time at which it began.
Write(c) ==
    /\ pc[c] = "write"
    /\ request[c].kind # "create"
    /\ IF changed[c] = {}
       THEN UNCHANGED <<row, log>>
       ELSE \E at \in stamp[c] .. clock :
               Commit(c, at, [col \in DOMAIN row |->
                                 IF col \in changed[c] THEN copy[c][col] ELSE row[col]])
    /\ Finish(c, "saved")
    /\ UNCHANGED <<clock, request, found, apart>>

\* crud.create: INSERT of a new row.
Insert(c) ==
    /\ pc[c] = "write"
    /\ request[c].kind = "create"
    /\ \E at \in stamp[c] .. clock :
          Commit(c, at, [NoRow EXCEPT !.data[request[c].field] = c, !.version = 1,
                                      !.status = "active"])
    /\ Finish(c, "saved")
    /\ UNCHANGED <<clock, request, found, apart>>

\* A round trip fails; nothing was committed.
Fail(c) ==
    /\ pc[c] \in {"find", "save", "write"}
    /\ Finish(c, "error")
    /\ UNCHANGED <<row, clock, request, log, found, apart>>

Execute(c) == Find(c) \/ Compare(c) \/ Write(c) \/ Insert(c) \/ Fail(c)

Next == Tick \/ \E c \in Calls : Arrive(c) \/ Execute(c)

Spec == Init /\ [][Next]_vars

-------------------------------------------------------------------------------
(* Properties. *)

Committed(kind) == {i \in 1 .. Len(log) : request[log[i].call].kind = kind}

LastWriter(f) ==
    LET writes == {i \in 1 .. Len(log) :
                      /\ request[log[i].call].kind \in {"create", "update"}
                      /\ request[log[i].call].field = f}
    IN  IF writes = {} THEN Nobody
        ELSE log[CHOOSE i \in writes : \A j \in writes : j <= i].call

\* When requests come one after the other the row is what they make of it in
\* that order: every field holds its last writer, the version counts the
\* updates, a delete is final.
SerialWhenApart ==
    apart /\ log # <<>> =>
        /\ \A f \in Fields : row.data[f] = LastWriter(f)
        /\ row.version = 1 + Cardinality(Committed("update"))
        /\ row.status = "deleted" <=> Committed("delete") # {}

\* A commit leaves every field but its own at a value that the row had between
\* the handler's read and the commit: an update is lost only to a handler that
\* was under way when it was committed, never to one that began later.
LostOnlyToOverlap ==
    \A i \in 1 .. Len(log) :
        LET c == log[i].call
        IN  request[c].kind = "update" =>
                \A f \in Fields \ {request[c].field} :
                    \E k \in found[c] .. i - 1 : log[i].row.data[f] = log[k].row.data[f]

\* A conflict is reported only to a client that has not seen the latest state
\* of the row (STORY-035, AC-16: no 409 for what did not change).
ConflictHasCause ==
    \A c \in Calls : answer[c] = "conflict" => request[c].seen < Len(log)

\* When requests come one after the other, an update that was checked and let
\* through was made on the latest state of the row, commits of one and the same
\* millisecond excepted.
CheckedSawLatest ==
    [][\A c \in Calls :
          /\ apart
          /\ pc[c] = "find" /\ pc'[c] = "save"
          /\ request[c].base # NoBase /\ ~ request[c].force
          => \A i \in request[c].seen + 1 .. Len(log) : log[i].at = request[c].base]_vars

\* What clients see of concurrent handlers of one row: one after the other they
\* lose nothing, together they lose only to each other, and a conflict is
\* reported to none that had seen the latest state.
UpdatesAreKept == SerialWhenApart /\ LostOnlyToOverlap /\ ConflictHasCause

===============================================================================
