------------------------------ MODULE AuditTrail ------------------------------
(***************************************************************************)
(* The audit log (core/audit): entries that are written at once or go      *)
(* through a buffer, the purge of old rows, and the pages in which the     *)
(* rows are read.                                                          *)
(*                                                                         *)
(* An entry is a number; where two rows have the same created_at, the      *)
(* larger number has the larger id.  Time is in days.  The process holds   *)
(* the buffer and the statements it waits for; the database holds the      *)
(* table.  Left out: the content of an entry, the filters of a query, and  *)
(* the pipe on the route of list(), which is given the slug as well and    *)
(* refuses it: the pages are those that list() makes when it is called.    *)
(***************************************************************************)
EXTENDS Integers, Sequences, FiniteSets, SequencesExt, FiniteSetsExt

CONSTANTS
    Entries,        \* the entries that may be logged: numbers
    Critical,       \* those whose action is one of SYNC_AUDIT_ACTIONS
    Anonymous,      \* those logged without a user, in their own fields or the context
    PurgeEvents,    \* the events of the purge, logged by a timer: anonymous ones
    Retentions,     \* what a tenant's audit_retention_days may hold
    MaxSize, DropThreshold,             \* AUDIT_BUFFER
    MinDays, DefaultDays, MaxDays,      \* AUDIT_RETENTION
    Limit,          \* rows of a page
    MaxTime         \* bound: the days that pass

VARIABLES
    buffer,     \* entries that wait for a flush
    flying,     \* the INSERTs under way: sets of entries
    purging,    \* the event of the purge under way, which has deleted and not logged
    table,      \* the rows of audit_logs
    created,    \* created_at of each entry, -1 before it is logged
    day,        \* the time
    cursor,     \* of the next page: 0 for the first one, -1 when nobody reads
    pages,      \* history: what the reader was given, in order
    present,    \* history: the rows when the reader began, without those purged since
    excused     \* history: entries of a statement that failed or a process that ended

process == <<buffer, flying, purging>>
reader == <<cursor, pages, present>>
auditVars == <<process, table, created, day, reader, excused>>

Logged == {e \in Entries : created[e] >= 0}

TypeOK ==
    /\ buffer \in Seq(Entries) /\ flying \subseteq SUBSET Entries
    /\ purging \subseteq PurgeEvents /\ \A e \in purging : created[e] = -1
    /\ table \subseteq Entries /\ excused \subseteq Entries /\ present \subseteq Entries
    /\ created \in [Entries -> -1 .. MaxTime] /\ day \in 0 .. MaxTime
    /\ cursor \in {-1, 0} \cup Entries /\ pages \in Seq(Entries)

Init ==
    /\ buffer = <<>> /\ flying = {} /\ purging = {} /\ table = {} /\ excused = {}
    /\ created = [e \in Entries |-> -1] /\ day = 0
    /\ cursor = -1 /\ pages = <<>> /\ present = {}

-------------------------------------------------------------------------------
(* Writing *)

Put(entries, e) ==
    LET kept == Append(IF Len(entries) >= DropThreshold THEN Tail(entries) ELSE entries, e)
    IN  IF Len(kept) >= MaxSize
        THEN buffer' = <<>> /\ flying' = flying \cup {ToSet(kept)}
        ELSE buffer' = kept /\ UNCHANGED flying

\* log: a critical event is inserted before the call returns.  Any other joins
\* the buffer, which is flushed when it is full.
Log(e) ==
    /\ created[e] = -1 /\ e \notin PurgeEvents
    /\ created' = [created EXCEPT ![e] = day]
    /\ IF e \in Critical THEN flying' = flying \cup {{e}} /\ UNCHANGED buffer ELSE Put(buffer, e)
    /\ UNCHANGED <<purging, table, day, reader, excused>>

\* flush, by the timer or at shutdown: the buffer is emptied first.
Flush ==
    /\ buffer # <<>>
    /\ buffer' = <<>> /\ flying' = flying \cup {ToSet(buffer)}
    /\ UNCHANGED <<purging, table, created, day, reader, excused>>

\* Mutant: the buffer is emptied when the rows have been inserted.
InsertThenClear(batch) ==
    /\ flying' = flying \ {batch}
    /\ \/ batch \cap Anonymous = {} /\ table' = table \cup batch /\ buffer' = <<>> /\ UNCHANGED excused
       \/ excused' = excused \cup batch /\ UNCHANGED <<table, buffer>>
    /\ UNCHANGED <<purging, created, day, reader>>

\* One INSERT for the batch.  The columns tenant_id and user_id are NOT NULL: an
\* entry without them takes the others of its batch along.  The error is logged
\* and forgotten.
Insert(batch) ==
    /\ flying' = flying \ {batch}
    /\ \/ batch \cap Anonymous = {} /\ table' = table \cup batch /\ UNCHANGED excused
       \/ excused' = excused \cup batch /\ UNCHANGED table
    /\ UNCHANGED <<buffer, purging, created, day, reader>>

\* The process ends; statements under way may have been carried out.
Crash ==
    /\ buffer # <<>> \/ flying # {} \/ purging # {}
    /\ buffer' = <<>> /\ flying' = {} /\ purging' = {}
    /\ \E done \in SUBSET {b \in flying : b \cap Anonymous = {}} :
          /\ table' = table \cup UNION done
          /\ excused' = excused \cup ToSet(buffer) \cup ((UNION flying) \ (UNION done))
    /\ UNCHANGED <<created, day, reader>>

-------------------------------------------------------------------------------
(* The purge *)

\* clampRetention; a tenant without a number has the default, -1 here.
ClampRetention(days) ==
    LET raw == IF days = -1 THEN DefaultDays ELSE days
    IN  Max({MinDays, Min({raw, MaxDays})})

\* purgeTenant deletes what is older than the retention, one tenant and one
\* purge at a time; a DELETE that looks like a failure ends it.
DeleteOld(days, e) ==
    LET old == {x \in table : created[x] < day - ClampRetention(days)}
    IN  /\ purging = {} /\ created[e] = -1
        /\ table' = table \ old
        /\ present' = present \ old
        /\ purging' \in {{e}, {}}
        /\ UNCHANGED <<buffer, flying, created, day, cursor, pages, excused>>

\* It then logs that it did, from a timer, so that the event has no user.
LogPurge(e) ==
    /\ e \in purging
    /\ purging' = {}
    /\ created' = [created EXCEPT ![e] = day]
    /\ Put(buffer, e)
    /\ UNCHANGED <<table, day, reader, excused>>

-------------------------------------------------------------------------------
(* Reading *)

\* Mutant: a page begins after the time of the last row.
BeforeByTime(x, y) == created[x] < created[y]

\* The order of (created_at, id).
Before(x, y) == created[x] < created[y] \/ (created[x] = created[y] /\ x < y)

\* ORDER BY created_at DESC, id DESC: the i-th row has i - 1 newer ones.
Newer(rows, x) == {y \in rows : created[y] > created[x] \/ (created[y] = created[x] /\ y > x)}
Newest(rows) == [i \in 1 .. Cardinality(rows) |-> CHOOSE x \in rows : Cardinality(Newer(rows, x)) = i - 1]

BeginReading ==
    /\ cursor = -1 /\ pages = <<>>
    /\ cursor' = 0 /\ present' = table
    /\ UNCHANGED <<process, table, created, day, pages, excused>>

\* list: the newest rows before the cursor, and one more to see whether there is
\* a next page.
ReadPage ==
    /\ cursor >= 0
    /\ LET rows == Newest(IF cursor = 0 THEN table ELSE {x \in table : Before(x, cursor)})
           page == SubSeq(rows, 1, Min({Limit, Len(rows)}))
       IN  /\ pages' = pages \o page
           /\ cursor' = IF Len(rows) > Limit THEN Last(page) ELSE -1
    /\ UNCHANGED <<process, table, created, day, present, excused>>

Tick ==
    /\ day < MaxTime /\ day' = day + 1
    /\ UNCHANGED <<process, table, created, reader, excused>>

Next ==
    \/ \E e \in Entries : Log(e)
    \/ Flush
    \/ \E batch \in flying : Insert(batch)
    \/ Crash
    \/ \E days \in Retentions, e \in PurgeEvents : DeleteOld(days, e)
    \/ \E e \in PurgeEvents : LogPurge(e)
    \/ BeginReading \/ ReadPage \/ Tick

Spec == Init /\ [][Next]_auditVars

-------------------------------------------------------------------------------
(* Properties *)

\* An entry that no failing statement and no end of the process has hit is in
\* exactly one place until it is as old as the shortest retention: flushes that
\* overlap with calls of log and with each other neither lose nor repeat it.
NothingLostQuietly ==
    \A e \in Logged \ excused :
        LET waiting == Cardinality({i \in DOMAIN buffer : buffer[i] = e})
            inserting == Cardinality({b \in flying : e \in b})
        IN  \/ waiting + inserting + (IF e \in table THEN 1 ELSE 0) = 1
            \/ waiting + inserting = 0 /\ created[e] < day - MinDays

\* A critical event is past the process when its call has returned: only the
\* statement itself can fail, and the end of the process takes nothing with it
\* that had been answered (SYNC_AUDIT_ACTIONS).
CriticalNeverWaits == \A e \in Critical : e \notin ToSet(buffer) /\ (\A b \in flying : e \in b => b = {e})

\* An entry is where it should be: critical ones never in the buffer, and each
\* one once in the table or on its way there, unless its statement failed or
\* the process ended.
AuditIsKept == NothingLostQuietly /\ CriticalNeverWaits

\* Who reads to the last page has seen every row that was there at the start
\* and has not been purged, each once, newest first, whatever is logged or
\* purged between two pages.
PagesComplete ==
    /\ \A i, j \in DOMAIN pages : i < j => pages[i] # pages[j] /\ created[pages[i]] >= created[pages[j]]
    /\ cursor = -1 /\ pages # <<>> => present \subseteq ToSet(pages)

===============================================================================
