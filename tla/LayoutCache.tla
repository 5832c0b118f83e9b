----------------------------- MODULE LayoutCache ------------------------------
(***************************************************************************)
(* The layouts of one tenant on their way to the client (bdui): a cache in *)
(* each process, one in Redis, the row or the catalogue behind them, and   *)
(* the channel bdui:invalidate on which the processes tell each other what *)
(* to forget (core/cache/services/bdui-cache.service.ts, bdui/cache).      *)
(*                                                                         *)
(* One screen and one set of roles: a message that names a screen and one  *)
(* that names none do the same here.  Left out: compression, the limit of  *)
(* 100 entries, what a layout holds (see Screens).                         *)
(***************************************************************************)
EXTENDS Naturals, FiniteSets

CONSTANTS
    Nodes,          \* the processes
    Loads,          \* calls of getLayout under way at one time
    L1TTL, L2TTL,   \* BDUI_L1_TTL_MS, TTL_SECONDS.BDUI
    MaxMessages,    \* bound: messages that wait for a process
    MaxClock        \* bound: ticks of the clock

VARIABLES
    l1, l2,     \* the copies, with the time they expire and (history) the time of the load
    load,       \* where each call is and in which process; Idle when there is none
    inbox,      \* messages of the channel that have not reached the process
    job,        \* invalidations under way in each process
    ticks       \* the clock

layoutVars == <<l1, l2, load, inbox, job, ticks>>

Idle == [at |-> "idle"]
Absent == [loaded |-> 0, expires |-> 0]
Copies == [loaded : 0 .. MaxClock, expires : 0 .. MaxClock + L1TTL + L2TTL]
Live(copy) == ticks < copy.expires

TypeOK ==
    /\ l1 \in [Nodes -> Copies] /\ l2 \in Copies
    /\ load \in [Loads -> {Idle} \cup [at : {"redis", "source", "store"}, node : Nodes]]
    /\ inbox \in [Nodes -> 0 .. MaxMessages]
    /\ job \in [Nodes -> [delete : 0 .. MaxMessages, publish : 0 .. MaxMessages]]
    /\ ticks \in 0 .. MaxClock

Init ==
    /\ l1 = [n \in Nodes |-> Absent] /\ l2 = Absent
    /\ load = [c \in Loads |-> Idle]
    /\ inbox = [n \in Nodes |-> 0]
    /\ job = [n \in Nodes |-> [delete |-> 0, publish |-> 0]]
    /\ ticks = 0

-------------------------------------------------------------------------------
(* getLayout *)

\* The process's own copy answers at once.
GetLayout(c, n) ==
    /\ load[c] = Idle
    /\ ~ Live(l1[n])
    /\ load' = [load EXCEPT ![c] = [at |-> "redis", node |-> n]]
    /\ UNCHANGED <<l1, l2, inbox, job, ticks>>

\* Mutant: what is read from Redis lives on there.
GetRenews(c) ==
    /\ load[c].at = "redis"
    /\ LET n == load[c].node
       IN  \/ /\ Live(l2)
              /\ l2' = [l2 EXCEPT !.expires = ticks + L2TTL]
              /\ l1' = [l1 EXCEPT ![n] = [loaded |-> l2.loaded, expires |-> ticks + L1TTL]]
              /\ load' = [load EXCEPT ![c] = Idle]
           \/ load' = [load EXCEPT ![c].at = "source"] /\ UNCHANGED <<l1, l2>>
    /\ UNCHANGED <<inbox, job, ticks>>

\* The copy in Redis, or a miss, or an error that counts as one.
GetFromRedis(c) ==
    /\ load[c].at = "redis"
    /\ LET n == load[c].node
       IN  \/ /\ Live(l2)
              /\ l1' = [l1 EXCEPT ![n] = [loaded |-> l2.loaded, expires |-> ticks + L1TTL]]
              /\ load' = [load EXCEPT ![c] = Idle]
           \/ load' = [load EXCEPT ![c].at = "source"] /\ UNCHANGED l1
    /\ UNCHANGED <<l2, inbox, job, ticks>>

\* The row, the catalogue or the generator: there is a layout, or the call
\* fails.  The process's copy is there before Redis answers.
LoadLayout(c) ==
    /\ load[c].at = "source"
    /\ LET n == load[c].node
       IN  \/ /\ l1' = [l1 EXCEPT ![n] = [loaded |-> ticks, expires |-> ticks + L1TTL]]
              /\ load' = [load EXCEPT ![c].at = "store"]
           \/ load' = [load EXCEPT ![c] = Idle] /\ UNCHANGED l1
    /\ UNCHANGED <<l2, inbox, job, ticks>>

StoreLayout(c) ==
    /\ load[c].at = "store"
    /\ \/ l2' = [loaded |-> ticks, expires |-> ticks + L2TTL]
       \/ UNCHANGED l2
    /\ load' = [load EXCEPT ![c] = Idle]
    /\ UNCHANGED <<l1, inbox, job, ticks>>

-------------------------------------------------------------------------------
(* The channel *)

\* A process that is not connected at the moment, or too slow, misses a message.
Deliver(receivers) == inbox' = [n \in Nodes |-> IF n \in receivers THEN inbox[n] + 1 ELSE inbox[n]]
Room == {n \in Nodes : inbox[n] < MaxMessages}

\* An administrator's tool has changed a layout: nothing in src/ does.
AnnounceUpdate ==
    /\ \E receivers \in SUBSET Room : Deliver(receivers)
    /\ UNCHANGED <<l1, l2, load, job, ticks>>

\* invalidateLocal
Forget(n) == l1' = [l1 EXCEPT ![n] = Absent]

\* A message reaches the process: the cache forgets its copy, and the listener
\* calls invalidate, which forgets it again and begins to delete.
OnMessage(n) ==
    /\ inbox[n] > 0 /\ job[n].delete < MaxMessages
    /\ inbox' = [inbox EXCEPT ![n] = @ - 1]
    /\ Forget(n)
    /\ job' = [job EXCEPT ![n].delete = @ + 1]
    /\ UNCHANGED <<l2, load, ticks>>

\* SCAN and DEL, or an error, which ends the invalidation.
DeleteKeys(n) ==
    /\ job[n].delete > 0 /\ job[n].publish < MaxMessages
    /\ \/ l2' = Absent /\ job' = [job EXCEPT ![n].delete = @ - 1, ![n].publish = @ + 1]
       \/ UNCHANGED l2 /\ job' = [job EXCEPT ![n].delete = @ - 1]
    /\ UNCHANGED <<l1, load, inbox, ticks>>

\* invalidate publishes whatever made the process call it.
Publish(n, receivers) ==
    /\ job[n].publish > 0
    /\ job' = [job EXCEPT ![n].publish = @ - 1]
    /\ Deliver(receivers)
    /\ UNCHANGED <<l1, l2, load, ticks>>

Tick ==
    /\ ticks < MaxClock /\ ticks' = ticks + 1
    /\ UNCHANGED <<l1, l2, load, inbox, job>>

Next ==
    \/ \E c \in Loads, n \in Nodes : GetLayout(c, n)
    \/ \E c \in Loads : GetFromRedis(c) \/ LoadLayout(c) \/ StoreLayout(c)
    \/ AnnounceUpdate
    \/ \E n \in Nodes : OnMessage(n) \/ DeleteKeys(n)
    \/ \E n \in Nodes, receivers \in SUBSET Room : Publish(n, receivers)
    \/ Tick

Spec == Init /\ [][Next]_layoutVars

\* After one update: processes and Redis do their work.
Work == \E n \in Nodes : OnMessage(n) \/ DeleteKeys(n) \/ \E receivers \in SUBSET Room : Publish(n, receivers)
InitUpdated ==
    /\ l1 = [n \in Nodes |-> Absent] /\ l2 = Absent
    /\ load = [c \in Loads |-> Idle]
    /\ inbox = [n \in Nodes |-> 1]
    /\ job = [n \in Nodes |-> [delete |-> 0, publish |-> 0]]
    /\ ticks = 0
AfterUpdate == InitUpdated /\ [][Work]_layoutVars /\ WF_layoutVars(Work)

-------------------------------------------------------------------------------
(* Properties *)

\* A layout is served for at most the two lives together after a load has
\* stored it, whatever messages are lost: a copy that is taken from Redis into
\* a process, in any number of processes, does not live on by being copied
\* ("5-min L2 TTL caps stale data on missed messages").
CopiesDie == \A n \in Nodes : Live(l1[n]) => ticks < l1[n].loaded + L1TTL + L2TTL

\* Every process hears of an update, forgets its copy and deletes those in
\* Redis, and that is all (STORY-018, "Cache invalidation", steps 2 to 4).
InvalidationEnds == <>[](\A n \in Nodes : inbox[n] = 0 /\ job[n].delete = 0 /\ job[n].publish = 0)

===============================================================================
