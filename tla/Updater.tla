------------------------------- MODULE Updater -------------------------------
(***************************************************************************)
(* update/main.c and update/netclient.c: the loop that polls servers and   *)
(* masters, its handlers, the clients in memory and their rows in the      *)
(* database.  The scheduler and the pool are those of SchedulerSpec and    *)
(* PoolSpec.  What a server's answer does to players and ranks is the      *)
(* subject of Ranking and left out here.  A handler takes no time.         *)
(***************************************************************************)
EXTENDS Integers, Sequences, SequencesExt

CONSTANTS Servers,         \* addresses of game servers
          Masters,         \* the masters of the database
          Resolvable,      \* addresses get_sockaddr() accepts
          MaxNetclients,   \* MAX_NETCLIENTS
          MaxPending,      \* MAX_PENDING
          MaxTries,        \* MAX_RETRIES + 1
          StartTime,       \* the date it is at first
          MaxTime,         \* bound: the date it is at last
          ServerDelays,    \* 5 minutes +- 30 seconds, 1 hour +- 5 minutes
          MasterDelays,    \* 5 minutes +- 1 minute
          MinDelay,        \* 5 minutes
          MaxDelay,        \* 2 hours
          FirstRecompute,  \* 10 seconds
          NextRecompute,   \* 5 minutes
          Day

ASSUME UpdaterAssumption ==
    /\ IsFiniteSet(Servers) /\ IsFiniteSet(Masters)
    /\ Resolvable \subseteq Servers
    /\ MaxNetclients \in Nat /\ MaxPending \in Nat \ {0} /\ MaxTries \in Nat \ {0}
    /\ MinDelay \in Nat /\ MaxDelay \in Nat /\ MinDelay <= MaxDelay
    /\ ServerDelays \subseteq 0..MaxDelay /\ MasterDelays \subseteq 0..MaxDelay
    /\ FirstRecompute \in 0..MaxDelay /\ NextRecompute \in 0..MaxDelay
    /\ Day \in Nat \ {0}
    /\ StartTime \in Nat /\ MaxTime \in Nat
    /\ MaxDelay < StartTime  \* time(NULL) counts from 1970
    /\ "" \notin Masters

VARIABLES pc,         \* where update() stands, or "down"
          stop,       \* set by a signal
          recompute,  \* do_recompute_ranks
          client,     \* what the slots of netclients hold
          free,       \* the list nextfree
          list,       \* servers of a master's packet still to be referenced
          tx,         \* rows of servers and masters, as the process sees them
          db          \* the same, committed

VARIABLES waiting, date, now             \* of SchedulerSpec
VARIABLES tries, awaiting, ret, polling  \* of PoolSpec
VARIABLE  polled                         \* slots with pentry.polled set

Slots     == 1..MaxNetclients
Recompute == 0                     \* recompute_ranks_job
Jobs      == {Recompute} \cup Slots
Dates     == 0..(MaxTime + MaxDelay)

Sched == INSTANCE SchedulerSpec
Pool  == INSTANCE PoolSpec WITH Entries <- Slots

poolVars == <<tries, awaiting, ret, polling, polled>>
vars     == <<pc, stop, recompute, client, free, list, tx, db,
              waiting, date, now, poolVars>>

NeverSeen == 0
ExpireNow == 0
NoMaster  == ""
NoClient  == [type |-> "none"]

-----------------------------------------------------------------------------

\* Mutant of Bounded: no maximum.
BoundedBelow(t) == IF t < MinDelay THEN MinDelay ELSE t

Bounded(t) == IF t > MaxDelay THEN MaxDelay ELSE IF t < MinDelay THEN MinDelay ELSE t

\* Mutant of DoubleExpiryDate: doubled after the bound is applied.
DoubleExpiryDateTwice(lastexpire, lastseen) ==
    now + IF lastexpire < lastseen THEN MinDelay ELSE 2 * Bounded(lastexpire - lastseen)

DoubleExpiryDate(lastexpire, lastseen) ==
    now + IF lastexpire < lastseen THEN MinDelay ELSE Bounded(lastexpire - lastseen)

\* Mutant of SeenLongAgo: a server never seen was last seen in 1970.
SeenLongAgoNever(t) == now - t >= Day

\* elapsed_days() is at least one.
SeenLongAgo(t) == t # NeverSeen /\ now - t >= Day

ServerClient(s, row) == [type |-> "server", of |-> s, master |-> row.master,
                         lastseen |-> row.lastseen, expire |-> row.expire]
MasterClient(m, row) == [type |-> "master", of |-> m,
                         lastseen |-> row.lastseen, expire |-> row.expire]

\* The rows once one is inserted, or replaced.
Inserted(s, row, rows) == [r \in {s} \cup DOMAIN rows |-> IF r = s THEN row ELSE rows[r]]

\* write_server() writes all it has in memory; write_master() too.
WriteServer(c) == tx' = [tx EXCEPT !.servers = Inserted(c.of, [master |-> c.master,
                            lastseen |-> c.lastseen, expire |-> c.expire], @)]
WriteMaster(c) == tx' = [tx EXCEPT !.masters[c.of] =
                            [lastseen |-> c.lastseen, expire |-> c.expire]]

\* The rows of servers once unreference_servers() has run.
Unreferenced(m, rows) ==
    [s \in DOMAIN rows |->
        IF rows[s].master = m THEN [rows[s] EXCEPT !.master = NoMaster] ELSE rows[s]]

Dead == /\ pc' = "down"
        /\ stop' = FALSE /\ recompute' = FALSE
        /\ client' = [c \in Slots |-> NoClient] /\ free' = <<>> /\ list' = {}
        /\ tx' = db
        /\ waiting' = {} /\ date' = [j \in Jobs |-> 0]
        /\ tries' = Pool!None /\ awaiting' = {} /\ ret' = Pool!None
        /\ polling' = FALSE /\ polled' = {}
        /\ UNCHANGED <<db, now>>

-----------------------------------------------------------------------------

Init == /\ pc = "down" /\ stop = FALSE /\ recompute = FALSE
        /\ client = [c \in Slots |-> NoClient] /\ free = <<>> /\ list = {}
        /\ db = [servers |-> <<>>,
                 masters |-> [m \in Masters |-> [lastseen |-> NeverSeen,
                                                 expire |-> ExpireNow]]]
        /\ tx = db
        /\ Sched!Init /\ date = [j \in Jobs |-> 0] /\ now = StartTime
        /\ Pool!Init /\ polled = {}

(***************************************************************************)
(* main(): servers are loaded first, in any order, then the masters whose  *)
(* names can be resolved, until there is no slot left.                     *)
(***************************************************************************)
ServerOrders == {[i \in DOMAIN q |-> ServerClient(q[i], db.servers[q[i]])] :
                    q \in SetToSeqs(DOMAIN db.servers \cap Resolvable)}
MasterOrders == UNION {{[i \in DOMAIN q |-> MasterClient(q[i], db.masters[q[i]])] :
                          q \in SetToSeqs(M)} : M \in SUBSET Masters}
LoadOrders   == {ss \o ms : ss \in ServerOrders, ms \in MasterOrders}

Start ==
    /\ pc = "down"
    /\ \E all \in LoadOrders :
        LET n == IF Len(all) < MaxNetclients THEN Len(all) ELSE MaxNetclients IN
        /\ n > 0
        /\ client' = [c \in Slots |-> IF c <= n THEN all[c] ELSE NoClient]
        /\ free' = [i \in 1..(MaxNetclients - n) |-> n + i]
        /\ waiting' = {Recompute} \cup 1..n
        /\ date' = [j \in Jobs |-> IF j = Recompute THEN now + FirstRecompute
                                   ELSE IF j <= n THEN all[j].expire ELSE 0]
    /\ pc' = "loop"
    /\ UNCHANGED <<stop, recompute, list, tx, db, now, poolVars>>

\* Mutant of Loop: stop is not looked at.
LoopForever == /\ pc = "loop"
               /\ pc' = "wait"
               /\ UNCHANGED <<stop, recompute, client, free, list, tx, db,
                              waiting, date, now, poolVars>>

\* while (!stop)
Loop == /\ pc = "loop"
        /\ ~stop
        /\ pc' = "wait"
        /\ UNCHANGED <<stop, recompute, client, free, list, tx, db,
                       waiting, date, now, poolVars>>

\* wait_until_next_schedule() enters sleep(): stop is not looked at again.
Sleep == /\ pc = "wait"
         /\ pc' = "sleep"
         /\ UNCHANGED <<stop, recompute, client, free, list, tx, db,
                        waiting, date, now, poolVars>>

Exit == /\ pc = "loop"
        /\ stop
        /\ Dead

WakeUp == /\ pc = "sleep"
          /\ \E j \in waiting : date[j] <= now
          /\ pc' = "take"
          /\ UNCHANGED <<stop, recompute, client, free, list, tx, db,
                         waiting, date, now, poolVars>>

TakeRecompute == /\ pc = "take"
                 /\ Sched!Take(Recompute)
                 /\ recompute' = TRUE
                 /\ UNCHANGED <<pc, stop, client, free, list, tx, db, poolVars>>

\* add_to_pool(), outside of a transaction: its query is committed at once.
AddToPool(c) ==
    /\ pc = "take"
    /\ Sched!Take(c)
    /\ Pool!Add(c)
    /\ polled' = polled \ {c}
    /\ IF client[c].type = "master"
         THEN /\ tx' = [tx EXCEPT !.servers = Unreferenced(client[c].of, @)]
              /\ db' = tx'
         ELSE UNCHANGED <<tx, db>>
    /\ UNCHANGED <<pc, stop, recompute, client, free, list>>

Begin == /\ pc = "take"
         /\ \A j \in waiting : date[j] > now
         /\ pc' = "poll"
         /\ Pool!Start
         /\ UNCHANGED <<stop, recompute, client, free, list, tx, db,
                        waiting, date, now, polled>>

\* poll_pool(), until it has something to return.
PollPool == /\ pc = "poll"
            /\ \E c \in Slots :
                \/ /\ Pool!Send(c) \/ Pool!Expire(c) \/ Pool!Failure(c)
                   /\ UNCHANGED polled
                \/ /\ Pool!Answer(c)
                   /\ polled' = polled \cup {c}
            /\ UNCHANGED <<pc, stop, recompute, client, free, list, tx, db,
                           waiting, date, now>>

-----------------------------------------------------------------------------

Handles(c, type, packet) == /\ pc = "poll"
                            /\ ret # Pool!None
                            /\ ret.entry = c /\ ret.packet = packet
                            /\ client[c].type = type

\* Whether or not the packet can be unpacked.
HandleServerPacket(c) ==
    /\ Handles(c, "server", TRUE)
    /\ Pool!Remove
    /\ \E delay \in ServerDelays :
        /\ client' = [client EXCEPT ![c].lastseen = now, ![c].expire = now + delay]
        /\ WriteServer(client'[c])
        /\ Sched!Schedule(c, now + delay)
    /\ UNCHANGED <<pc, stop, recompute, free, list, db, polled>>

\* remove_server() and remove_netclient()
RemoveServer(c) ==
    /\ Handles(c, "server", FALSE)
    /\ SeenLongAgo(client[c].lastseen)
    /\ Pool!Keep
    /\ tx' = [tx EXCEPT !.servers = [s \in DOMAIN @ \ {client[c].of} |-> @[s]]]
    /\ client' = [client EXCEPT ![c] = NoClient]
    /\ free' = <<c>> \o free
    /\ UNCHANGED <<pc, stop, recompute, list, db, waiting, date, now, polled>>

\* Mutant of HandleServerTimeout: the row is written before the new date is known.
HandleServerTimeoutEarly(c) ==
    /\ Handles(c, "server", FALSE)
    /\ ~SeenLongAgo(client[c].lastseen)
    /\ Pool!Keep
    /\ LET expire == DoubleExpiryDate(client[c].expire, client[c].lastseen) IN
        /\ client' = [client EXCEPT ![c].expire = expire]
        /\ WriteServer(client[c])
        /\ Sched!Schedule(c, expire)
    /\ UNCHANGED <<pc, stop, recompute, free, list, db, polled>>

HandleServerTimeout(c) ==
    /\ Handles(c, "server", FALSE)
    /\ ~SeenLongAgo(client[c].lastseen)
    /\ Pool!Keep
    /\ LET expire == DoubleExpiryDate(client[c].expire, client[c].lastseen) IN
        /\ client' = [client EXCEPT ![c].expire = expire]
        /\ WriteServer(client'[c])
        /\ Sched!Schedule(c, expire)
    /\ UNCHANGED <<pc, stop, recompute, free, list, db, polled>>

\* A packet lists any servers; each is one turn of the loop.
HandleMasterPacket(c) ==
    /\ Handles(c, "master", TRUE)
    /\ pc' = "list"
    /\ list' \in SUBSET Servers
    /\ UNCHANGED <<stop, recompute, client, free, tx, db,
                   waiting, date, now, poolVars>>

\* Mutant of NewNetclient: the slot stays in the list of free ones.
NewNetclientLinked(info) ==
    /\ free # <<>>
    /\ client' = [client EXCEPT ![Head(free)] = info]
    /\ Sched!Schedule(Head(free), info.expire)
    /\ UNCHANGED free

\* add_netclient(), and schedule() as both its callers do.
NewNetclient(info) ==
    /\ free # <<>>
    /\ client' = [client EXCEPT ![Head(free)] = info]
    /\ free' = Tail(free)
    /\ Sched!Schedule(Head(free), info.expire)

\* Mutant of IsKnown: what the transaction has created is overlooked.
IsKnownCommitted(s) == s \in DOMAIN db.servers

IsKnown(s) == s \in DOMAIN tx.servers

ReferenceServer(s) ==
    /\ pc = "list"
    /\ s \in list
    /\ list' = list \ {s}
    /\ LET m == client[ret.entry].of
           row == [master |-> m, lastseen |-> NeverSeen, expire |-> ExpireNow]
       IN IF IsKnown(s)
            THEN /\ tx' = [tx EXCEPT !.servers[s].master = m]
                 /\ UNCHANGED <<client, free, waiting, date, now>>
            ELSE /\ tx' = [tx EXCEPT !.servers = Inserted(s, row, @)]
                 /\ IF free # <<>> /\ s \in Resolvable
                      THEN NewNetclient(ServerClient(s, row))
                      ELSE UNCHANGED <<client, free, waiting, date, now>>
    /\ UNCHANGED <<pc, stop, recompute, db, poolVars>>

ListEnds ==
    /\ pc = "list"
    /\ list = {}
    /\ pc' = "poll"
    /\ Pool!Keep
    /\ UNCHANGED <<stop, recompute, client, free, list, tx, db,
                   waiting, date, now, polled>>

HandleMasterTimeout(c) ==
    /\ Handles(c, "master", FALSE)
    /\ Pool!Keep
    /\ \/ /\ c \in polled
          /\ \E delay \in MasterDelays :
                client' = [client EXCEPT ![c].lastseen = now, ![c].expire = now + delay]
       \/ /\ c \notin polled
          /\ client' = [client EXCEPT ![c].expire = DoubleExpiryDate(@, client[c].lastseen)]
    /\ WriteMaster(client'[c])
    /\ Sched!Schedule(c, client'[c].expire)
    /\ UNCHANGED <<pc, stop, recompute, free, list, db, polled>>

\* poll_pool() returns NULL.
Commit ==
    /\ pc = "poll"
    /\ Pool!Finish
    /\ IF recompute THEN Sched!Schedule(Recompute, now + NextRecompute)
                    ELSE UNCHANGED <<waiting, date, now>>
    /\ recompute' = FALSE
    /\ db' = tx
    /\ pc' = "loop"
    /\ UNCHANGED <<stop, client, free, list, tx, polled>>

-----------------------------------------------------------------------------

\* A signal interrupts sleep() once it is entered, and nothing else: caught
\* between the test of stop and sleep(), it leaves the whole sleep to be slept.
Signal == /\ pc # "down"
          /\ stop' = TRUE
          /\ pc' = IF pc = "sleep" THEN "take" ELSE pc
          /\ UNCHANGED <<recompute, client, free, list, tx, db,
                         waiting, date, now, poolVars>>

Crash == /\ pc # "down"
         /\ Dead

Tick == /\ Sched!Tick
        /\ now' <= MaxTime
        /\ UNCHANGED <<pc, stop, recompute, client, free, list, tx, db, poolVars>>

Handle(c) == \/ HandleServerPacket(c) \/ RemoveServer(c) \/ HandleServerTimeout(c)
             \/ HandleMasterPacket(c) \/ HandleMasterTimeout(c)

Next == \/ Start \/ Loop \/ Exit \/ Sleep \/ WakeUp \/ TakeRecompute \/ Begin
        \/ \E c \in Slots : AddToPool(c) \/ Handle(c)
        \/ PollPool \/ Commit
        \/ \E s \in Servers : ReferenceServer(s)
        \/ ListEnds
        \/ Signal \/ Crash \/ Tick

Spec == Init /\ [][Next]_vars

(***************************************************************************)
(* The process runs, time passes, and an entry is not asked or listened to *)
(* for ever: Pool shows that a round ends.                                 *)
(***************************************************************************)
Process == \/ Loop \/ Exit \/ Sleep \/ WakeUp \/ TakeRecompute \/ Begin \/ Commit \/ ListEnds
           \/ \E c \in Slots : AddToPool(c) \/ Handle(c)
           \/ \E s \in Servers : ReferenceServer(s)

FairSpec == /\ Spec
            /\ WF_vars(Process) /\ WF_vars(Tick)
            /\ \A c \in Slots : /\ SF_vars(PollPool /\ Pool!Send(c))
                                /\ SF_vars(PollPool /\ (Pool!Expire(c) \/ Pool!Failure(c)))

-----------------------------------------------------------------------------

InUse == {c \in Slots : client[c].type # "none"}

\* The slot whose answer or timeout is being handled.
Handled == IF ret = Pool!None THEN {} ELSE {ret.entry}

Row(d, c) == IF client[c].type = "server" THEN d.servers[client[c].of]
                                          ELSE d.masters[client[c].of]

(***************************************************************************)
(* A client is forgotten if a handler fails to schedule it again, and      *)
(* corrupts a list if it is scheduled twice, or freed while it is linked:  *)
(* a slot is exactly one of free, scheduled, in the pool or being handled  *)
(* for the last time, and no slot is free twice.  The ranks are scheduled  *)
(* to be recomputed, or are about to be.                                   *)
(***************************************************************************)
NoClientLost ==
    pc # "down" =>
        /\ Recompute \in waiting <=> ~recompute
        /\ \A i, k \in 1..Len(free) : free[i] = free[k] => i = k
        /\ ToSet(free) = Slots \ InUse
        /\ InUse = (waiting \ {Recompute}) \cup Pool!Held \cup Handled
        /\ waiting \cap (Pool!Held \cup Handled) = {}

(***************************************************************************)
(* No server has two clients, whatever masters list it, and a client has a *)
(* row as long as it lives: reference_server() looks for the row to know   *)
(* whether there is a client.                                              *)
(***************************************************************************)
OneClientEach ==
    /\ \A c, e \in InUse :
          client[c].type = client[e].type /\ client[c].of = client[e].of => c = e
    /\ \A c \in InUse : client[c].type = "server" => client[c].of \in DOMAIN tx.servers

(***************************************************************************)
(* The date of the next poll of a client is the one in its row, so that a  *)
(* restart between two rounds changes no date, and one within a round only *)
(* polls again what was polled in it.                                      *)
(***************************************************************************)
DatesSaved == \A c \in waiting \ {Recompute} : date[c] = Row(tx, c).expire

(***************************************************************************)
(* Nobody is left unpolled for more than MaxDelay, however long it has     *)
(* been silent ("up to a maximum of 2 hours").                             *)
(***************************************************************************)
PolledSoon == \A j \in waiting : date[j] <= now + MaxDelay

(***************************************************************************)
(* A server disappears from what the CGI reads only if the CGI could read  *)
(* that it was last seen a day ago or more.                                *)
(***************************************************************************)
RemovedSilent ==
    [][\A s \in DOMAIN db.servers \ DOMAIN db'.servers :
          db.servers[s].lastseen \in 1..(now - Day)]_vars

(***************************************************************************)
(* Every client scheduled is polled, unless the process dies; MaxTime must *)
(* leave it the time to be.                                                *)
(***************************************************************************)
EveryoneIsPolled ==
    \A c \in Slots : c \in waiting /\ now <= MaxTime - MaxDelay
                    ~> c \in Pool!Held \/ pc = "down"

(***************************************************************************)
(* A signal stops the process wherever it is caught.  Between the test of  *)
(* stop and sleep() it wakes nobody up, and takes effect when the next job *)
(* is due, which is never more than MaxDelay away.                         *)
(***************************************************************************)
StopIsObeyed == stop /\ now <= MaxTime - MaxDelay ~> pc = "down"

(***************************************************************************)
(* "Called before polling the given master, so that server not referenced  *)
(* anymore don't keep a dangling reference to their old master": a server  *)
(* without a master gets one only while a master is polled.                *)
(***************************************************************************)
ReferencedByMaster ==
    [][\A s \in DOMAIN tx.servers \cap DOMAIN tx'.servers :
          tx.servers[s].master = NoMaster /\ tx'.servers[s].master # NoMaster
          => \E c \in Pool!Held : client[c].type = "master"]_vars
=============================================================================
