----------------------------- MODULE UpdaterProofs -----------------------------
(***************************************************************************)
(* The loop of update/main.c, for any servers, masters, number of slots    *)
(* and dates: no client is lost or doubled, the dates of the clients are   *)
(* those of their rows, and a server is removed only after a day.          *)
(***************************************************************************)
EXTENDS Updater, ListLemmas

ServerClients == [type : {"server"}, of : Servers, master : Masters \cup {NoMaster},
                  lastseen : Nat, expire : Nat]
MasterClients == [type : {"master"}, of : Masters, lastseen : Nat, expire : Nat]
Clients       == ServerClients \cup MasterClients

ServerRows == [master : Masters \cup {NoMaster}, lastseen : Nat, expire : Nat]
MasterRows == [lastseen : Nat, expire : Nat]

IsDatabase(d) ==
    /\ d = [servers |-> d.servers, masters |-> d.masters]
    /\ DOMAIN d.servers \subseteq Servers
    /\ d.servers \in [DOMAIN d.servers -> ServerRows]
    /\ d.masters \in [Masters -> MasterRows]

\* Everyone in the pool, or whose answer or timeout is being handled.
Busy == Pool!Held \cup Handled

TypeOK ==
    /\ pc \in {"down", "loop", "wait", "sleep", "take", "poll", "list"}
    /\ recompute \in BOOLEAN
    /\ client \in [Slots -> Clients \cup {NoClient}]
    /\ free \in Seq(Slots)
    /\ list \subseteq Servers
    /\ IsDatabase(tx) /\ IsDatabase(db)
    /\ waiting \subseteq Jobs /\ date \in [Jobs -> Nat] /\ now \in Nat
    /\ Pool!Held \subseteq Slots
    /\ awaiting \subseteq Pool!Held
    /\ ret \in {Pool!None} \cup [entry : Slots, packet : BOOLEAN]

\* An entry is given back while it is in the pool if it answered, after if not.
Returned ==
    /\ ret # Pool!None => (ret.packet <=> ret.entry \in Pool!Held)
    /\ pc = "list" => ret # Pool!None /\ ret.packet /\ client[ret.entry].type = "master"

\* A process that is not there holds nothing, and begins with the rows there are.
Stopped ==
    pc = "down" => /\ ~ recompute /\ waiting = {} /\ Busy = {} /\ InUse = {}

\* A client in memory and its row give the same dates, the next poll among them.
Agreed ==
    /\ \A c \in InUse : /\ Row(tx, c).lastseen = client[c].lastseen
                        /\ Row(tx, c).expire = client[c].expire
    /\ \A c \in waiting \ {Recompute} : date[c] = client[c].expire

\* PolledSoon, of the rows as well: main() takes the dates of the clients there.
RowsSoon(d) ==
    /\ \A s \in DOMAIN d.servers : d.servers[s].expire <= now + MaxDelay
    /\ \A m \in Masters : d.masters[m].expire <= now + MaxDelay

(***************************************************************************)
(* Outside of a round all is committed.  In a round, a server that is not  *)
(* polled yet has its committed date in memory: the one remove_server()    *)
(* is called for.                                                          *)
(***************************************************************************)
Committed ==
    /\ pc \notin {"poll", "list"} => tx = db
    /\ \A c \in Busy : client[c].type = "server" =>
          /\ client[c].of \in DOMAIN db.servers
          /\ db.servers[client[c].of].lastseen = client[c].lastseen
    /\ \A s \in DOMAIN db.servers \ DOMAIN tx.servers :
          db.servers[s].lastseen \in 1..(now - Day)

IInv == /\ TypeOK /\ Returned /\ Stopped
        /\ NoClientLost /\ OneClientEach /\ Agreed
        /\ PolledSoon /\ RowsSoon(tx) /\ RowsSoon(db)
        /\ Committed

-----------------------------------------------------------------------------

LEMMA Bounds ==
  /\ MaxNetclients \in Nat /\ MinDelay \in Nat /\ MaxDelay \in Nat /\ MinDelay <= MaxDelay
  /\ ServerDelays \subseteq 0..MaxDelay /\ MasterDelays \subseteq 0..MaxDelay
  /\ FirstRecompute \in 0..MaxDelay /\ NextRecompute \in 0..MaxDelay
  /\ Day \in Nat \ {0} /\ StartTime \in Nat /\ MaxTime \in Nat /\ MaxDelay < StartTime
  BY UpdaterAssumption DEF UpdaterAssumption

LEMMA ClientKinds ==
  ASSUME TypeOK
  PROVE  /\ \A c \in Slots : (c \in InUse) <=> (client[c] \in Clients)
         /\ \A c \in Slots : (client[c].type = "server") <=> (client[c] \in ServerClients)
         /\ \A c \in Slots : (client[c].type = "master") <=> (client[c] \in MasterClients)
         /\ \A c \in Slots : (c \notin InUse) <=> (client[c] = NoClient)
         /\ InUse \subseteq Slots
         /\ Busy \subseteq Slots
         /\ Recompute \notin Slots
<1>1. ASSUME NEW r \in Clients \cup {NoClient}
      PROVE  /\ r.type # "none" <=> r \in Clients
             /\ r.type = "server" <=> r \in ServerClients
             /\ r.type = "master" <=> r \in MasterClients
             /\ r.type = "none" <=> r = NoClient
  BY DEF Clients, ServerClients, MasterClients, NoClient
<1>2. Busy \subseteq Slots
  BY DEF TypeOK, Busy, Handled
<1> QED
  BY <1>1, <1>2 DEF TypeOK, InUse, Slots, Recompute

(***************************************************************************)
(* A step that moves clients within the pool, or none at all.              *)
(***************************************************************************)
Quiet == /\ UNCHANGED <<recompute, client, free, tx, db, waiting, date>>
         /\ Busy' = Busy
         /\ now <= now'
         /\ pc' = "down" <=> pc = "down"
         /\ pc' \notin {"poll", "list"} => pc \notin {"poll", "list"}

\* A date that was near stays near, and one that was long ago stays so.
LEMMA Later ==
  ASSUME NEW n \in Nat, NEW o \in Nat, n <= o, NEW m \in Nat
  PROVE  /\ \A d \in Nat : d <= n + m => d <= o + m
         /\ \A d \in 1..(n - m) : d \in 1..(o - m)
  OBVIOUS

LEMMA QuietKeeps ==
  ASSUME IInv, Quiet, TypeOK', Returned' PROVE IInv'
<1>1. now \in Nat /\ now' \in Nat /\ now <= now' /\ MaxDelay \in Nat /\ Day \in Nat
  BY Bounds DEF IInv, TypeOK, Quiet
<1>2. InUse' = InUse
  BY DEF Quiet, InUse
<1>3. Stopped'
  BY <1>2 DEF Quiet, IInv, Stopped
<1>4. NoClientLost' /\ OneClientEach'
  BY <1>2 DEF Quiet, IInv, NoClientLost, OneClientEach, Busy
<1>5. Agreed'
  BY <1>2 DEF Quiet, IInv, Agreed, Row
<1>6. \A d \in Nat : d <= now + MaxDelay => d <= now' + MaxDelay
  BY <1>1, Later
<1>7. PolledSoon'
  BY <1>6 DEF Quiet, IInv, PolledSoon, TypeOK
<1>8. RowsSoon(tx)' /\ RowsSoon(db)'
  BY <1>6 DEF Quiet, IInv, RowsSoon, TypeOK, IsDatabase, ServerRows, MasterRows
<1>9. Committed'
  <2>1. \A d \in 1..(now - Day) : d \in 1..(now' - Day)
    BY <1>1, Later
  <2> QED
    BY <2>1 DEF Quiet, IInv, Committed
<1> QED
  BY <1>3, <1>4, <1>5, <1>7, <1>8, <1>9 DEF IInv

LEMMA NothingReturned == \A e, p : [entry |-> e, packet |-> p] # Pool!None
  BY DEF Pool!None

LEMMA WalksQuietly ==
  ASSUME IInv, Loop \/ Sleep \/ WakeUp \/ Begin \/ Signal \/ Tick \/ UNCHANGED vars
  PROVE  IInv'
<1>1. /\ UNCHANGED <<recompute, client, free, tx, db, list, waiting, date>>
      /\ UNCHANGED <<tries, awaiting, ret>>
      /\ \/ pc' = pc
         \/ pc' \in {"wait", "sleep", "take", "poll"} /\ pc \in {"loop", "wait", "sleep", "take"}
  BY DEF Loop, Sleep, WakeUp, Begin, Signal, Tick, vars, poolVars, Pool!Start, Sched!Tick
<1>time. now' \in Nat /\ now <= now'
  <2>1. CASE Tick
    <3>1. now' \in Dates /\ now' > now /\ now \in Nat
      BY <2>1 DEF Tick, Sched!Tick, IInv, TypeOK
    <3>2. Dates \subseteq Nat
      BY Bounds DEF Dates
    <3> QED
      BY <3>1, <3>2
  <2>2. CASE ~ Tick
    <3>1. now' = now
      BY <2>2 DEF Loop, Sleep, WakeUp, Begin, Signal, vars
    <3> QED
      BY <3>1 DEF IInv, TypeOK
  <2> QED
    BY <2>1, <2>2
<1>2. Busy' = Busy /\ Pool!Held' = Pool!Held
  BY <1>1 DEF Busy, Pool!Held, Handled
<1>3. Quiet
  BY <1>time, <1>1, <1>2 DEF Quiet
<1>4. TypeOK'
  BY <1>time, <1>1, <1>2 DEF IInv, TypeOK
<1>5. Returned'
  BY <1>1, <1>2 DEF IInv, Returned
<1> QED
  BY <1>3, <1>4, <1>5, QuietKeeps

\* What poll_pool() does to the pool: it never loses an entry.
LEMMA PollPoolBusy ==
  ASSUME IInv, PollPool
  PROVE  /\ Busy' = Busy /\ Pool!Held' \subseteq Slots /\ awaiting' \subseteq Pool!Held'
         /\ ret' \in {Pool!None} \cup [entry : Slots, packet : BOOLEAN]
         /\ ret' # Pool!None => (ret'.packet <=> ret'.entry \in Pool!Held')
<1>1. PICK c \in Slots : Pool!Send(c) \/ Pool!Expire(c) \/ Pool!Failure(c) \/ Pool!Answer(c)
  BY DEF PollPool
<1>2. Pool!Held \subseteq Slots /\ awaiting \subseteq Pool!Held
  BY DEF IInv, TypeOK
<1>3. ret = Pool!None
  BY <1>1 DEF Pool!Send, Pool!Expire, Pool!Failure, Pool!Answer
<1>4. CASE Pool!Send(c) \/ Pool!Expire(c)
  <2>1. /\ Pool!Held' = Pool!Held /\ ret' = Pool!None
        /\ awaiting' \subseteq awaiting \cup {c} /\ c \in Pool!Held
    BY <1>2, <1>3, <1>4 DEF Pool!Send, Pool!Expire, Pool!Held
  <2> QED
    BY <1>2, <1>3, <2>1 DEF Busy, Handled
<1>5. CASE Pool!Answer(c)
  <2>1. /\ Pool!Held' = Pool!Held /\ awaiting' = awaiting
        /\ ret' = [entry |-> c, packet |-> TRUE] /\ c \in Pool!Held
    BY <1>2, <1>5 DEF Pool!Answer, Pool!Held
  <2>2. ret' # Pool!None /\ ret'.entry = c /\ ret'.packet
    BY <2>1, NothingReturned
  <2> QED
    BY <1>2, <1>3, <2>1, <2>2 DEF Busy, Handled
<1>6. CASE Pool!Failure(c)
  <2>1. /\ Pool!Held' = Pool!Held \ {c} /\ awaiting' = awaiting
        /\ ret' = [entry |-> c, packet |-> FALSE] /\ c \in Pool!Held \ awaiting
    BY <1>6 DEF Pool!Failure, Pool!Without, Pool!Held
  <2>2. ret' # Pool!None /\ ret'.entry = c /\ ~ ret'.packet
    BY <2>1, NothingReturned
  <2> QED
    BY <1>2, <1>3, <2>1, <2>2 DEF Busy, Handled
<1> QED
  BY <1>1, <1>4, <1>5, <1>6

LEMMA PollPoolKeeps ==
  ASSUME IInv, PollPool PROVE IInv'
<1>1. /\ UNCHANGED <<recompute, client, free, tx, db, list, waiting, date, now>>
      /\ pc = "poll" /\ pc' = "poll"
  BY DEF PollPool
<1>2. TypeOK'
  BY <1>1, PollPoolBusy DEF IInv, TypeOK
<1>3. Returned'
  BY <1>1, PollPoolBusy DEF Returned
<1>4. Quiet
  <2>1. now <= now'
    BY <1>1 DEF IInv, TypeOK
  <2> QED
    BY <1>1, <2>1, PollPoolBusy DEF Quiet
<1> QED
  BY <1>2, <1>3, <1>4, QuietKeeps

\* The answer of a master is in the pool while it is handled, and after.
LEMMA MasterListKeeps ==
  ASSUME IInv, ListEnds \/ \E c \in Slots : HandleMasterPacket(c) PROVE IInv'
<1>1. /\ UNCHANGED <<recompute, client, free, tx, db, waiting, date, now, tries, awaiting>>
      /\ pc \in {"poll", "list"} /\ pc' \in {"poll", "list"}
  BY DEF ListEnds, HandleMasterPacket, Handles, Pool!Keep, poolVars
<1>2. Pool!Held' = Pool!Held
  BY <1>1 DEF Pool!Held
<1>3. ret # Pool!None /\ ret.packet /\ ret.entry \in Pool!Held
  BY DEF ListEnds, HandleMasterPacket, Handles, IInv, Returned
<1>4. ret' \in {ret, Pool!None} /\ list' \subseteq Servers
  BY DEF ListEnds, HandleMasterPacket, Handles, Pool!Keep, poolVars, IInv, TypeOK
<1>5. Busy' = Busy
  BY <1>2, <1>3, <1>4 DEF Busy, Handled
<1>6. TypeOK'
  BY <1>1, <1>2, <1>4 DEF IInv, TypeOK
<1>7. Returned'
  <2>1. pc' = "list" => ret' = ret /\ client[ret.entry].type = "master"
    BY DEF ListEnds, HandleMasterPacket, Handles, poolVars, IInv, Returned
  <2> QED
    BY <1>1, <1>2, <1>3, <1>4, <2>1 DEF Returned
<1>8. Quiet
  <2>1. now <= now'
    BY <1>1 DEF IInv, TypeOK
  <2> QED
    BY <1>1, <1>5, <2>1 DEF Quiet
<1> QED
  BY <1>6, <1>7, <1>8, QuietKeeps

-----------------------------------------------------------------------------

(***************************************************************************)
(* A handler gives its client another date, writes it and schedules it.    *)
(***************************************************************************)
Writes(r) == IF r.type = "server" THEN WriteServer(r) ELSE WriteMaster(r)

Rescheduled(c, r) ==
    /\ pc = "poll" /\ Handled = {c} /\ c \in InUse
    /\ r \in Clients /\ r.type = client[c].type /\ r.of = client[c].of
    /\ r.expire <= now + MaxDelay
    /\ client' = [client EXCEPT ![c] = r]
    /\ Writes(r)
    /\ Sched!Schedule(c, r.expire)
    /\ Pool!Held' = Pool!Held \ {c} /\ awaiting' \subseteq Pool!Held' /\ ret' = Pool!None
    /\ UNCHANGED <<pc, recompute, free, list, db>>

LEMMA ServerWritten ==
  ASSUME IsDatabase(tx), NEW r \in ServerClients, WriteServer(r)
  PROVE  /\ IsDatabase(tx') /\ tx'.masters = tx.masters
         /\ DOMAIN tx'.servers = {r.of} \cup DOMAIN tx.servers
         /\ tx'.servers[r.of].lastseen = r.lastseen
         /\ tx'.servers[r.of].expire = r.expire
         /\ \A s \in DOMAIN tx.servers \ {r.of} : tx'.servers[s] = tx.servers[s]
<1> DEFINE row == [master |-> r.master, lastseen |-> r.lastseen, expire |-> r.expire]
<1>1. /\ r.of \in Servers /\ row \in ServerRows
      /\ row.lastseen = r.lastseen /\ row.expire = r.expire
  BY DEF ServerClients, ServerRows
<1> HIDE DEF row
<1>2. tx' = [tx EXCEPT !.servers = Inserted(r.of, row, @)]
  BY DEF WriteServer, row
<1>3. tx = [servers |-> tx.servers, masters |-> tx.masters]
  BY DEF IsDatabase
<1>4. /\ tx' = [servers |-> tx'.servers, masters |-> tx'.masters]
      /\ tx'.masters = tx.masters
      /\ tx'.servers = Inserted(r.of, row, tx.servers)
  BY <1>2, <1>3
<1>5. /\ DOMAIN tx'.servers = {r.of} \cup DOMAIN tx.servers
      /\ tx'.servers[r.of] = row
      /\ \A s \in DOMAIN tx.servers \ {r.of} : tx'.servers[s] = tx.servers[s]
  BY <1>4 DEF Inserted
<1>6. tx'.servers \in [DOMAIN tx'.servers -> ServerRows]
  BY <1>1, <1>4, <1>5 DEF Inserted, IsDatabase
<1> QED
  BY <1>1, <1>4, <1>5, <1>6 DEF IsDatabase

LEMMA MasterWritten ==
  ASSUME IsDatabase(tx), NEW r \in MasterClients, WriteMaster(r)
  PROVE  /\ IsDatabase(tx') /\ tx'.servers = tx.servers
         /\ tx'.masters[r.of].lastseen = r.lastseen
         /\ tx'.masters[r.of].expire = r.expire
         /\ \A m \in Masters \ {r.of} : tx'.masters[m] = tx.masters[m]
<1> DEFINE row == [lastseen |-> r.lastseen, expire |-> r.expire]
<1>1. /\ r.of \in Masters /\ row \in MasterRows
      /\ row.lastseen = r.lastseen /\ row.expire = r.expire
  BY DEF MasterClients, MasterRows
<1> HIDE DEF row
<1>2. tx' = [tx EXCEPT !.masters[r.of] = row]
  BY DEF WriteMaster, row
<1>3. tx = [servers |-> tx.servers, masters |-> tx.masters] /\ tx.masters \in [Masters -> MasterRows]
  BY DEF IsDatabase
<1>4. /\ tx' = [servers |-> tx'.servers, masters |-> tx'.masters]
      /\ tx'.servers = tx.servers
      /\ tx'.masters = [tx.masters EXCEPT ![r.of] = row]
  BY <1>2, <1>3
<1>5. /\ tx'.masters \in [Masters -> MasterRows]
      /\ tx'.masters[r.of] = row
      /\ \A m \in Masters \ {r.of} : tx'.masters[m] = tx.masters[m]
  BY <1>1, <1>3, <1>4
<1> QED
  BY <1>1, <1>4, <1>5 DEF IsDatabase

LEMMA RescheduledKeeps ==
  ASSUME IInv, NEW c \in Slots, NEW r, Rescheduled(c, r) PROVE IInv'
<1>1. TypeOK /\ r \in Clients
  BY DEF IInv, Rescheduled
<1>2. /\ client' \in [Slots -> Clients \cup {NoClient}]
      /\ client'[c] = r
      /\ \A o \in Slots \ {c} : client'[o] = client[o]
  BY <1>1 DEF Rescheduled, TypeOK
<1>3. /\ InUse' = InUse
      /\ \A o \in Slots : client'[o].type = client[o].type
      /\ \A o \in InUse : client'[o].of = client[o].of
  BY <1>1, <1>2 DEF Rescheduled, InUse
<1>4. /\ waiting' = waiting \cup {c} /\ date' = [date EXCEPT ![c] = r.expire]
      /\ now' = now /\ c \notin waiting /\ c \in InUse /\ r.expire \in Nat
  BY <1>1 DEF Rescheduled, Sched!Schedule, Clients, ServerClients, MasterClients
<1>5. Busy = Pool!Held \cup {c} /\ Busy' = Pool!Held \ {c} /\ Handled' = {}
  BY DEF Rescheduled, Busy, Handled
<1>6. r.type = "server" \/ r.type = "master"
  BY <1>1 DEF Clients, ServerClients, MasterClients
<1>7. r.type = "server" => r \in ServerClients /\ r.of \in DOMAIN tx.servers
  BY <1>1, <1>4 DEF Clients, MasterClients, Rescheduled, IInv, OneClientEach
<1>8. r.type = "master" => r \in MasterClients
  BY <1>1 DEF Clients, ServerClients
<1>9. IsDatabase(tx') /\ DOMAIN tx'.servers = DOMAIN tx.servers
  <2>1. CASE r.type = "server"
    BY <1>1, <1>7, <2>1, ServerWritten DEF Rescheduled, Writes, TypeOK
  <2>2. CASE r.type = "master"
    BY <1>1, <1>8, <2>2, MasterWritten DEF Rescheduled, Writes, TypeOK
  <2> QED
    BY <1>6, <2>1, <2>2

<1>10. /\ Row(tx, c)'.lastseen = r.lastseen /\ Row(tx, c)'.expire = r.expire
       /\ \A o \in InUse \ {c} : Row(tx, o)' = Row(tx, o)
  <2>1. \A o \in InUse \ {c} : ~ (client[o].type = r.type /\ client[o].of = r.of)
    BY <1>4 DEF Rescheduled, IInv, OneClientEach
  <2>2. CASE r.type = "server"
    <3>1. /\ tx'.masters = tx.masters
          /\ tx'.servers[r.of].lastseen = r.lastseen
          /\ tx'.servers[r.of].expire = r.expire
          /\ \A s \in DOMAIN tx.servers \ {r.of} : tx'.servers[s] = tx.servers[s]
      BY <1>1, <1>7, <2>2, ServerWritten DEF Rescheduled, Writes, TypeOK
    <3>2. ASSUME NEW o \in InUse \ {c} PROVE Row(tx, o)' = Row(tx, o)
      <4>1. client'[o] = client[o]
        BY <1>2 DEF InUse
      <4>2. client[o].type = "server" => client[o].of \in DOMAIN tx.servers \ {r.of}
        BY <2>1, <2>2 DEF IInv, OneClientEach
      <4> QED
        BY <3>1, <4>1, <4>2 DEF Row
    <3> QED
      BY <1>2, <2>2, <3>1, <3>2 DEF Row
  <2>3. CASE r.type = "master"
    <3>1. /\ tx'.servers = tx.servers
          /\ tx'.masters[r.of].lastseen = r.lastseen
          /\ tx'.masters[r.of].expire = r.expire
          /\ \A m \in Masters \ {r.of} : tx'.masters[m] = tx.masters[m]
      BY <1>1, <1>8, <2>3, MasterWritten DEF Rescheduled, Writes, TypeOK
    <3>2. ASSUME NEW o \in InUse \ {c} PROVE Row(tx, o)' = Row(tx, o)
      <4>1. client'[o] = client[o] /\ o \in Slots
        BY <1>2 DEF InUse
      <4>2. client[o].type # "server" => client[o].of \in Masters \ {r.of}
        <5>1. client[o] \in Clients
          BY <1>1, <4>1, ClientKinds
        <5> QED
          BY <2>1, <2>3, <5>1 DEF Clients, ServerClients, MasterClients
      <4> QED
        BY <3>1, <4>1, <4>2 DEF Row
    <3> QED
      BY <1>2, <2>3, <3>1, <3>2 DEF Row
  <2> QED
    BY <1>6, <2>2, <2>3
<1>11. TypeOK'
  <2>1. waiting' \subseteq Jobs /\ date' \in [Jobs -> Nat]
    BY <1>1, <1>4 DEF TypeOK, Jobs
  <2>2. /\ Pool!Held' \subseteq Slots /\ awaiting' \subseteq Pool!Held'
        /\ ret' = Pool!None
    BY <1>1 DEF Rescheduled, TypeOK
  <2>3. UNCHANGED <<pc, recompute, free, list, db>>
    BY DEF Rescheduled
  <2> QED
    BY <1>1, <1>2, <1>4, <1>9, <2>1, <2>2, <2>3 DEF TypeOK
<1>12. Returned' /\ Stopped'
  BY DEF Rescheduled, Returned, Stopped
<1>13. NoClientLost'
  <2>1. /\ UNCHANGED <<recompute, free>> /\ pc # "down"
        /\ InUse = (waiting \ {Recompute}) \cup Busy
        /\ waiting \cap Busy = {}
    BY DEF Rescheduled, IInv, NoClientLost, Busy
  <2>2. c # Recompute
    BY DEF Slots, Recompute
  <2>3. InUse' = (waiting' \ {Recompute}) \cup Busy' /\ waiting' \cap Busy' = {}
    BY <1>3, <1>4, <1>5, <2>1, <2>2
  <2> QED
    BY <1>3, <1>4, <2>1, <2>2, <2>3 DEF IInv, NoClientLost, Busy
<1>14. OneClientEach'
  <2>1. \A a, b \in InUse' :
           client'[a].type = client'[b].type /\ client'[a].of = client'[b].of => a = b
    BY <1>3 DEF IInv, OneClientEach, InUse
  <2>2. \A o \in InUse' : client'[o].type = "server" => client'[o].of \in DOMAIN tx'.servers
    BY <1>3, <1>9 DEF IInv, OneClientEach, InUse
  <2> QED
    BY <2>1, <2>2 DEF OneClientEach
<1>15. Agreed'
  <2>1. \A o \in InUse' : /\ Row(tx, o)'.lastseen = client'[o].lastseen
                          /\ Row(tx, o)'.expire = client'[o].expire
    BY <1>2, <1>3, <1>10 DEF IInv, Agreed, InUse
  <2>2. \A o \in waiting' \ {Recompute} : date'[o] = client'[o].expire
    <3>1. waiting \ {Recompute} \subseteq Slots
      BY <1>1 DEF TypeOK, Jobs
    <3> QED
      BY <1>1, <1>2, <1>4, <3>1 DEF IInv, Agreed, TypeOK, Jobs
  <2> QED
    BY <2>1, <2>2 DEF Agreed
<1>16. PolledSoon'
  <2>1. r.expire <= now + MaxDelay
    BY DEF Rescheduled
  <2> QED
    BY <1>1, <1>4, <2>1 DEF IInv, PolledSoon, TypeOK, Jobs
<1>17. RowsSoon(tx)' /\ RowsSoon(db)'
  <2>1. r.expire <= now + MaxDelay /\ RowsSoon(tx) /\ RowsSoon(db) /\ db' = db
    BY DEF Rescheduled, IInv
  <2>2. RowsSoon(tx)'
    <3>1. CASE r.type = "server"
      BY <1>1, <1>4, <1>7, <1>9, <2>1, <3>1, ServerWritten, SMTT(30)
         DEF Rescheduled, Writes, TypeOK, RowsSoon
    <3>2. CASE r.type = "master"
      BY <1>1, <1>4, <1>8, <1>9, <2>1, <3>2, MasterWritten, SMTT(30)
         DEF Rescheduled, Writes, TypeOK, RowsSoon
    <3> QED
      BY <1>6, <3>1, <3>2
  <2> QED
    BY <1>4, <2>1, <2>2 DEF RowsSoon
<1>18. Committed'
  <2>1. pc' = "poll" /\ db' = db
    BY DEF Rescheduled
  <2>2. \A o \in Busy' : o \in Slots /\ client'[o] = client[o] /\ o \in Busy
    BY <1>1, <1>2, <1>5, ClientKinds
  <2> QED
    BY <1>4, <1>9, <2>1, <2>2 DEF IInv, Committed
<1> QED
  BY <1>11, <1>12, <1>13, <1>14, <1>15, <1>16, <1>17, <1>18 DEF IInv

\* Of the fields of a client, a handler changes the two dates.
LEMMA Redated ==
  ASSUME TypeOK, NEW c \in Slots, client[c] \in Clients, NEW l \in Nat, NEW e \in Nat,
         client' = [client EXCEPT ![c].lastseen = l, ![c].expire = e]
  PROVE  \E r \in Clients :
            /\ r.type = client[c].type /\ r.of = client[c].of /\ r.expire = e
            /\ client' = [client EXCEPT ![c] = r]
<1> DEFINE q == [client[c] EXCEPT !.lastseen = l]
           r == [q EXCEPT !.expire = e]
<1>1. /\ q \in Clients /\ q.type = client[c].type /\ q.of = client[c].of
  BY DEF Clients, ServerClients, MasterClients
<1> HIDE DEF q
<1>2. /\ r \in Clients /\ r.type = q.type /\ r.of = q.of /\ r.expire = e
  BY <1>1 DEF Clients, ServerClients, MasterClients
<1>3. [client EXCEPT ![c].lastseen = l, ![c].expire = e]
        = [[client EXCEPT ![c].lastseen = l] EXCEPT ![c].expire = e]
  BY Zenon
<1>4. client \in [Slots -> Clients \cup {NoClient}]
  BY DEF TypeOK
<1>5. [client EXCEPT ![c].lastseen = l] = [client EXCEPT ![c] = q]
  BY <1>4 DEF q
<1>6. [[client EXCEPT ![c] = q] EXCEPT ![c].expire = e] = [client EXCEPT ![c] = r]
  BY <1>4
<1>7. [client EXCEPT ![c].lastseen = l, ![c].expire = e] = [client EXCEPT ![c] = r]
  BY <1>3, <1>5, <1>6
<1> HIDE DEF r
<1> QED
  BY <1>1, <1>2, <1>7

LEMMA RedatedOnce ==
  ASSUME TypeOK, NEW c \in Slots, client[c] \in Clients, NEW e \in Nat,
         client' = [client EXCEPT ![c].expire = e]
  PROVE  \E r \in Clients :
            /\ r.type = client[c].type /\ r.of = client[c].of /\ r.expire = e
            /\ client' = [client EXCEPT ![c] = r]
<1> DEFINE r == [client[c] EXCEPT !.expire = e]
<1>1. /\ r \in Clients /\ r.type = client[c].type /\ r.of = client[c].of /\ r.expire = e
  BY DEF Clients, ServerClients, MasterClients
<1>2. [client EXCEPT ![c].expire = e] = [client EXCEPT ![c] = r]
  BY DEF TypeOK
<1> HIDE DEF r
<1> QED
  BY <1>1, <1>2

\* double_expiry_date() doubles the time spent waiting, and never beyond 2 hours.
LEMMA DoubledSoon ==
  ASSUME now \in Nat, NEW e \in Nat, NEW l \in Nat
  PROVE  DoubleExpiryDate(e, l) \in Nat /\ DoubleExpiryDate(e, l) <= now + MaxDelay
<1>1. /\ MinDelay \in Nat /\ MaxDelay \in Nat /\ MinDelay <= MaxDelay
  BY Bounds
<1>2. ASSUME NEW t \in Int PROVE Bounded(t) \in Nat /\ Bounded(t) <= MaxDelay
  BY <1>1 DEF Bounded
<1>3. e - l \in Int
  OBVIOUS
<1> DEFINE d == IF e < l THEN MinDelay ELSE Bounded(e - l)
<1>4. d \in Nat /\ d <= MaxDelay
  BY <1>1, <1>2, <1>3
<1>5. DoubleExpiryDate(e, l) = now + d
  BY DEF DoubleExpiryDate
<1> HIDE DEF d
<1> QED
  BY <1>1, <1>4, <1>5

\* What the three handlers that reschedule find, and the pool they leave.
LEMMA HandledClient ==
  ASSUME IInv, NEW c \in Slots, NEW type \in {"server", "master"}, NEW packet \in BOOLEAN,
         Handles(c, type, packet)
  PROVE  /\ Handled = {c} /\ c \in InUse /\ client[c] \in Clients
         /\ client[c].lastseen \in Nat /\ client[c].expire \in Nat
         /\ pc = "poll" /\ ret # Pool!None /\ ret.entry = c
         /\ ret.packet <=> c \in Pool!Held
         /\ Pool!Keep /\ ~ packet =>
              /\ Pool!Held' = Pool!Held \ {c} /\ awaiting' \subseteq Pool!Held'
              /\ ret' = Pool!None
         /\ Pool!Remove =>
              /\ Pool!Held' = Pool!Held \ {c} /\ awaiting' \subseteq Pool!Held'
              /\ ret' = Pool!None
<1>1. /\ pc = "poll" /\ ret # Pool!None /\ ret.entry = c /\ ret.packet = packet
      /\ client[c].type = type
  BY DEF Handles
<1>2. c \in InUse
  BY <1>1 DEF InUse
<1>3. TypeOK
  BY DEF IInv
<1>4. client[c] \in Clients
  BY <1>2, <1>3, ClientKinds
<1>5. client[c].lastseen \in Nat /\ client[c].expire \in Nat
  BY <1>4 DEF Clients, ServerClients, MasterClients
<1>6. ret.packet <=> c \in Pool!Held
  BY <1>1 DEF IInv, Returned
<1>7. awaiting \subseteq Pool!Held
  BY <1>3 DEF TypeOK
<1>8. ASSUME Pool!Keep, ~ packet
      PROVE  /\ Pool!Held' = Pool!Held \ {c} /\ awaiting' \subseteq Pool!Held'
             /\ ret' = Pool!None
  BY <1>1, <1>6, <1>7, <1>8 DEF Pool!Keep, Pool!Held
<1>9. ASSUME Pool!Remove
      PROVE  /\ Pool!Held' = Pool!Held \ {c} /\ awaiting' \subseteq Pool!Held'
             /\ ret' = Pool!None
  BY <1>1, <1>7, <1>9 DEF Pool!Remove, Pool!Held, Pool!Without
<1> QED
  BY <1>1, <1>2, <1>4, <1>5, <1>6, <1>8, <1>9 DEF Handled

LEMMA ServerPacketKeeps ==
  ASSUME IInv, NEW c \in Slots, HandleServerPacket(c) PROVE IInv'
<1>1. Handles(c, "server", TRUE) /\ Pool!Remove
  BY DEF HandleServerPacket
<1>2. PICK delay \in ServerDelays :
         /\ client' = [client EXCEPT ![c].lastseen = now, ![c].expire = now + delay]
         /\ WriteServer(client'[c])
         /\ Sched!Schedule(c, now + delay)
  BY DEF HandleServerPacket
<1>3. /\ Handled = {c} /\ c \in InUse /\ client[c] \in Clients /\ pc = "poll"
      /\ Pool!Held' = Pool!Held \ {c} /\ awaiting' \subseteq Pool!Held' /\ ret' = Pool!None
  BY <1>1, HandledClient
<1>4. now \in Nat /\ now + delay \in Nat /\ now + delay <= now + MaxDelay
  <2>1. now \in Nat
    BY DEF IInv, TypeOK
  <2> QED
    BY <2>1, Bounds
<1>5. PICK r \in Clients :
         /\ r.type = client[c].type /\ r.of = client[c].of /\ r.expire = now + delay
         /\ client' = [client EXCEPT ![c] = r]
  BY <1>2, <1>3, <1>4, Redated DEF IInv
<1>6. client'[c] = r /\ r.type = "server"
  BY <1>1, <1>5 DEF Handles, IInv, TypeOK
<1>7. Rescheduled(c, r)
  BY <1>2, <1>3, <1>4, <1>5, <1>6 DEF Rescheduled, Writes, HandleServerPacket
<1> QED
  BY <1>7, RescheduledKeeps

LEMMA ServerTimeoutKeeps ==
  ASSUME IInv, NEW c \in Slots, HandleServerTimeout(c) PROVE IInv'
<1> DEFINE e == DoubleExpiryDate(client[c].expire, client[c].lastseen)
<1>1. /\ Handles(c, "server", FALSE) /\ Pool!Keep
      /\ client' = [client EXCEPT ![c].expire = e]
      /\ WriteServer(client'[c])
      /\ Sched!Schedule(c, e)
  BY DEF HandleServerTimeout
<1>2. /\ Handled = {c} /\ c \in InUse /\ client[c] \in Clients /\ pc = "poll"
      /\ client[c].lastseen \in Nat /\ client[c].expire \in Nat
      /\ Pool!Held' = Pool!Held \ {c} /\ awaiting' \subseteq Pool!Held' /\ ret' = Pool!None
  BY <1>1, HandledClient
<1>3. e \in Nat /\ e <= now + MaxDelay
  BY <1>2, DoubledSoon DEF IInv, TypeOK
<1> HIDE DEF e
<1>4. PICK r \in Clients :
         /\ r.type = client[c].type /\ r.of = client[c].of /\ r.expire = e
         /\ client' = [client EXCEPT ![c] = r]
  BY <1>1, <1>2, <1>3, RedatedOnce DEF IInv
<1>5. client'[c] = r /\ r.type = "server"
  BY <1>1, <1>4 DEF Handles, IInv, TypeOK
<1>6. Rescheduled(c, r)
  BY <1>1, <1>2, <1>3, <1>4, <1>5 DEF Rescheduled, Writes, HandleServerTimeout
<1> QED
  BY <1>6, RescheduledKeeps

LEMMA MasterTimeoutKeeps ==
  ASSUME IInv, NEW c \in Slots, HandleMasterTimeout(c) PROVE IInv'
<1>1. /\ Handles(c, "master", FALSE) /\ Pool!Keep
      /\ WriteMaster(client'[c])
      /\ Sched!Schedule(c, client'[c].expire)
      /\ UNCHANGED <<pc, recompute, free, list, db>>
  BY DEF HandleMasterTimeout
<1>2. /\ Handled = {c} /\ c \in InUse /\ client[c] \in Clients /\ pc = "poll"
      /\ client[c].lastseen \in Nat /\ client[c].expire \in Nat
      /\ Pool!Held' = Pool!Held \ {c} /\ awaiting' \subseteq Pool!Held' /\ ret' = Pool!None
  BY <1>1, HandledClient
<1>3. now \in Nat
  BY DEF IInv, TypeOK
<1>4. \E r \in Clients :
         /\ r.type = client[c].type /\ r.of = client[c].of /\ r.expire <= now + MaxDelay
         /\ client' = [client EXCEPT ![c] = r]
  <2>1. CASE c \in polled
    <3>1. PICK delay \in MasterDelays :
             client' = [client EXCEPT ![c].lastseen = now, ![c].expire = now + delay]
      BY <2>1 DEF HandleMasterTimeout
    <3>2. now + delay \in Nat /\ now + delay <= now + MaxDelay
      BY <1>3, Bounds
    <3>3. \E r \in Clients :
             /\ r.type = client[c].type /\ r.of = client[c].of /\ r.expire = now + delay
             /\ client' = [client EXCEPT ![c] = r]
      BY <1>2, <1>3, <3>1, <3>2, Redated DEF IInv
    <3> QED
      BY <3>2, <3>3
  <2>2. CASE c \notin polled
    <3> DEFINE e == DoubleExpiryDate(client[c].expire, client[c].lastseen)
    <3>1. client' = [client EXCEPT ![c].expire = e]
      BY <2>2 DEF HandleMasterTimeout
    <3>2. e \in Nat /\ e <= now + MaxDelay
      BY <1>2, <1>3, DoubledSoon
    <3> HIDE DEF e
    <3>3. \E r \in Clients :
             /\ r.type = client[c].type /\ r.of = client[c].of /\ r.expire = e
             /\ client' = [client EXCEPT ![c] = r]
      BY <1>2, <3>1, <3>2, RedatedOnce DEF IInv
    <3> QED
      BY <3>2, <3>3
  <2> QED
    BY <2>1, <2>2
<1>5. PICK r \in Clients :
         /\ r.type = client[c].type /\ r.of = client[c].of /\ r.expire <= now + MaxDelay
         /\ client' = [client EXCEPT ![c] = r]
  BY <1>4
<1>6. client'[c] = r /\ r.type = "master"
  BY <1>1, <1>5 DEF Handles, IInv, TypeOK
<1>7. Rescheduled(c, r)
  BY <1>1, <1>2, <1>5, <1>6 DEF Rescheduled, Writes
<1> QED
  BY <1>7, RescheduledKeeps

-----------------------------------------------------------------------------

(***************************************************************************)
(* The statements that change the master of a server leave its dates.      *)
(***************************************************************************)
DatesKept(d, e) ==
    /\ IsDatabase(e)
    /\ e.masters = d.masters
    /\ DOMAIN e.servers = DOMAIN d.servers
    /\ \A s \in DOMAIN d.servers : /\ e.servers[s].lastseen = d.servers[s].lastseen
                                   /\ e.servers[s].expire = d.servers[s].expire

LEMMA UnreferencedDates ==
  ASSUME NEW d, NEW e, NEW m, IsDatabase(d), e = [d EXCEPT !.servers = Unreferenced(m, @)]
  PROVE  DatesKept(d, e)
<1>1. d = [servers |-> d.servers, masters |-> d.masters]
  BY DEF IsDatabase
<1>2. /\ e = [servers |-> e.servers, masters |-> e.masters]
      /\ e.masters = d.masters
      /\ e.servers = Unreferenced(m, d.servers)
  BY <1>1
<1>3. DOMAIN e.servers = DOMAIN d.servers
  BY <1>2 DEF Unreferenced
<1>4. ASSUME NEW row \in ServerRows
      PROVE  /\ [row EXCEPT !.master = NoMaster] \in ServerRows
             /\ [row EXCEPT !.master = NoMaster].lastseen = row.lastseen
             /\ [row EXCEPT !.master = NoMaster].expire = row.expire
  BY DEF ServerRows
<1>5. \A s \in DOMAIN d.servers :
         /\ e.servers[s] \in ServerRows
         /\ e.servers[s].lastseen = d.servers[s].lastseen
         /\ e.servers[s].expire = d.servers[s].expire
  <2>1. ASSUME NEW s \in DOMAIN d.servers
        PROVE  e.servers[s] \in {d.servers[s], [d.servers[s] EXCEPT !.master = NoMaster]}
    BY <1>2 DEF Unreferenced
  <2>2. \A s \in DOMAIN d.servers : d.servers[s] \in ServerRows
    BY DEF IsDatabase
  <2> QED
    BY <1>4, <2>1, <2>2
<1>6. e.servers \in [DOMAIN e.servers -> ServerRows]
  BY <1>2, <1>3, <1>5 DEF Unreferenced
<1> QED
  BY <1>2, <1>3, <1>5, <1>6 DEF DatesKept, IsDatabase

LEMMA ReferencedDates ==
  ASSUME NEW d, NEW e, IsDatabase(d), NEW s \in DOMAIN d.servers, NEW m \in Masters,
         e = [d EXCEPT !.servers[s].master = m]
  PROVE  DatesKept(d, e)
<1>1. d = [servers |-> d.servers, masters |-> d.masters]
  BY DEF IsDatabase
<1>2. d.servers \in [DOMAIN d.servers -> ServerRows]
  BY DEF IsDatabase
<1> DEFINE row == [d.servers[s] EXCEPT !.master = m]
<1>3. /\ e = [servers |-> e.servers, masters |-> e.masters]
      /\ e.masters = d.masters
      /\ e.servers = [d.servers EXCEPT ![s] = row]
  BY <1>1, <1>2
<1>4. /\ row \in ServerRows
      /\ row.lastseen = d.servers[s].lastseen /\ row.expire = d.servers[s].expire
  BY <1>2 DEF ServerRows
<1> HIDE DEF row
<1>5. /\ DOMAIN e.servers = DOMAIN d.servers
      /\ e.servers \in [DOMAIN e.servers -> ServerRows]
      /\ e.servers[s] = row
      /\ \A t \in DOMAIN d.servers \ {s} : e.servers[t] = d.servers[t]
  BY <1>2, <1>3, <1>4
<1> QED
  BY <1>3, <1>4, <1>5 DEF DatesKept, IsDatabase

LEMMA DatesKeptKeeps ==
  ASSUME TypeOK, Agreed, OneClientEach, RowsSoon(tx), DatesKept(tx, tx'),
         UNCHANGED <<client, date, now>>, waiting' \subseteq waiting
  PROVE  /\ InUse' = InUse
         /\ Agreed' /\ OneClientEach' /\ RowsSoon(tx)'
<1>1. InUse' = InUse
  BY DEF InUse
<1>2. ASSUME NEW o \in InUse
      PROVE  /\ Row(tx, o)'.lastseen = Row(tx, o).lastseen
             /\ Row(tx, o)'.expire = Row(tx, o).expire
  BY <1>2 DEF DatesKept, Row, OneClientEach
<1>3. Agreed'
  BY <1>1, <1>2 DEF Agreed
<1>4. OneClientEach'
  BY <1>1 DEF OneClientEach, DatesKept
<1>5. RowsSoon(tx)'
  BY DEF RowsSoon, DatesKept
<1> QED
  BY <1>1, <1>3, <1>4, <1>5

LEMMA TakeRecomputeKeeps ==
  ASSUME IInv, TakeRecompute PROVE IInv'
<1>1. /\ waiting' = waiting \ {Recompute} /\ recompute' = TRUE /\ pc = "take"
      /\ UNCHANGED <<pc, client, free, list, tx, db, date, now, tries, awaiting, ret>>
  BY DEF TakeRecompute, Sched!Take, poolVars
<1>2. Pool!Held' = Pool!Held /\ Handled' = Handled /\ Busy' = Busy /\ InUse' = InUse
  BY <1>1 DEF Pool!Held, Handled, Busy, InUse
<1>3. TypeOK'
  BY <1>1, <1>2 DEF IInv, TypeOK
<1>4. Returned' /\ Stopped'
  BY <1>1, <1>2 DEF IInv, Returned, Stopped
<1>5. NoClientLost' /\ OneClientEach'
  BY <1>1, <1>2 DEF IInv, NoClientLost, OneClientEach
<1>6. Agreed' /\ PolledSoon' /\ RowsSoon(tx)' /\ RowsSoon(db)'
  BY <1>1, <1>2 DEF IInv, Agreed, PolledSoon, RowsSoon, Row
<1>7. Committed'
  BY <1>1, <1>2 DEF IInv, Committed
<1> QED
  BY <1>3, <1>4, <1>5, <1>6, <1>7 DEF IInv

LEMMA AddToPoolKeeps ==
  ASSUME IInv, NEW c \in Slots, AddToPool(c) PROVE IInv'
<1>1. /\ c \in waiting /\ waiting' = waiting \ {c} /\ pc = "take"
      /\ UNCHANGED <<pc, recompute, client, free, list, date, now, awaiting, ret>>
  BY DEF AddToPool, Sched!Take, Pool!Add
<1>2. Pool!Held' = Pool!Held \cup {c}
  BY DEF AddToPool, Pool!Add, Pool!Held
<1>3. Handled' = Handled /\ Busy' = Busy \cup {c}
  BY <1>1, <1>2 DEF Handled, Busy
<1>4. tx = db /\ tx' = db' /\ IsDatabase(tx)
  BY <1>1 DEF IInv, Committed, AddToPool, TypeOK
<1>5. DatesKept(tx, tx')
  <2>1. CASE client[c].type = "master"
    BY <1>4, <2>1, UnreferencedDates DEF AddToPool
  <2>2. CASE client[c].type # "master"
    BY <1>4, <2>2 DEF AddToPool, DatesKept
  <2> QED
    BY <2>1, <2>2
<1>6. /\ InUse' = InUse
      /\ Agreed' /\ OneClientEach' /\ RowsSoon(tx)'
  BY <1>1, <1>5, DatesKeptKeeps DEF IInv
<1>7. TypeOK'
  BY <1>1, <1>2, <1>4, <1>5 DEF IInv, TypeOK, DatesKept
<1>8. c \notin Busy /\ c # Recompute
  BY <1>1 DEF IInv, NoClientLost, Busy, Slots, Recompute
<1>9. Returned' /\ Stopped'
  <2>1. ret # Pool!None => ret.entry # c
    BY <1>8 DEF Busy, Handled
  <2> QED
    BY <1>1, <1>2, <2>1 DEF IInv, Returned, Stopped
<1>10. NoClientLost'
  BY <1>1, <1>3, <1>6, <1>8 DEF IInv, NoClientLost, Busy
<1>11. PolledSoon' /\ RowsSoon(db)'
  BY <1>1, <1>4, <1>6 DEF IInv, PolledSoon, RowsSoon
<1>12. Committed'
  <2>1. \A o \in InUse : client[o].type = "server" =>
           /\ client[o].of \in DOMAIN db'.servers
           /\ db'.servers[client[o].of].lastseen = client[o].lastseen
    BY <1>1, <1>4, <1>6 DEF OneClientEach, Agreed, Row
  <2>2. Busy' \subseteq InUse
    BY <1>1, <1>3, <1>8 DEF IInv, NoClientLost, Busy
  <2> QED
    BY <1>1, <1>4, <2>1, <2>2 DEF Committed
<1> QED
  BY <1>6, <1>7, <1>9, <1>10, <1>11, <1>12 DEF IInv

-----------------------------------------------------------------------------

LEMMA RemoveServerKeeps ==
  ASSUME IInv, NEW c \in Slots, RemoveServer(c) PROVE IInv'
<1> DEFINE s == client[c].of
<1>1. /\ Handles(c, "server", FALSE) /\ SeenLongAgo(client[c].lastseen) /\ Pool!Keep
      /\ tx' = [tx EXCEPT !.servers = [t \in DOMAIN @ \ {s} |-> @[t]]]
      /\ client' = [client EXCEPT ![c] = NoClient]
      /\ free' = Cons(c, free)
      /\ UNCHANGED <<pc, recompute, list, db, waiting, date, now>>
  BY DEF RemoveServer, Cons
<1>2. /\ Handled = {c} /\ c \in InUse /\ client[c].lastseen \in Nat /\ pc = "poll"
      /\ client[c].type = "server" /\ c \notin Pool!Held
      /\ Pool!Held' = Pool!Held /\ awaiting' \subseteq Pool!Held' /\ ret' = Pool!None
  <2>1. c \notin Pool!Held
    BY <1>1, HandledClient DEF Handles
  <2> QED
    BY <1>1, <2>1, HandledClient DEF Handles
<1>3. TypeOK
  BY DEF IInv
<1>4. /\ client' \in [Slots -> Clients \cup {NoClient}]
      /\ client'[c].type = "none"
      /\ \A o \in Slots \ {c} : client'[o] = client[o]
  BY <1>1, <1>3 DEF TypeOK, NoClient
<1>5. InUse' = InUse \ {c}
  BY <1>4 DEF InUse
<1>6. Busy = Pool!Held \cup {c} /\ Busy' = Pool!Held /\ Handled' = {}
  BY <1>2 DEF Busy, Handled
<1>7. /\ tx' = [servers |-> tx'.servers, masters |-> tx'.masters]
      /\ tx'.masters = tx.masters
      /\ tx'.servers = [t \in DOMAIN tx.servers \ {s} |-> tx.servers[t]]
  <2>1. tx = [servers |-> tx.servers, masters |-> tx.masters]
    BY <1>3 DEF TypeOK, IsDatabase
  <2> QED
    BY <1>1, <2>1
<1>8. /\ DOMAIN tx'.servers = DOMAIN tx.servers \ {s}
      /\ \A t \in DOMAIN tx'.servers : tx'.servers[t] = tx.servers[t]
  BY <1>7
<1>9. IsDatabase(tx')
  BY <1>3, <1>7, <1>8 DEF TypeOK, IsDatabase
<1>10. ASSUME NEW o \in InUse'
       PROVE  /\ client'[o] = client[o] /\ o \in InUse
              /\ client[o].type = "server" => client[o].of \in DOMAIN tx.servers \ {s}
              /\ Row(tx, o)' = Row(tx, o)
  <2>1. client'[o] = client[o] /\ o \in InUse /\ o # c
    BY <1>4, <1>5 DEF InUse
  <2>2. client[o].type = "server" => client[o].of \in DOMAIN tx.servers \ {s}
    BY <1>2, <2>1 DEF IInv, OneClientEach
  <2> QED
    BY <1>7, <1>8, <2>1, <2>2 DEF Row
<1>11. free' \in Seq(Slots) /\ ToSet(free') = ToSet(free) \cup {c} /\ Once(free')
  <2>1. free \in Seq(Slots) /\ Once(free) /\ c \notin ToSet(free)
    BY <1>2, <1>3 DEF IInv, NoClientLost, Once, TypeOK
  <2>2. /\ Cons(c, free) \in Seq(Slots)
        /\ ToSet(Cons(c, free)) = ToSet(free) \cup {c}
        /\ Once(free) /\ c \notin ToSet(free) => Once(Cons(c, free))
    BY <2>1, Consed
  <2> QED
    BY <1>1, <2>1, <2>2
<1>12. TypeOK'
  BY <1>1, <1>2, <1>3, <1>4, <1>9, <1>11 DEF TypeOK
<1>13. Returned' /\ Stopped'
  BY <1>1, <1>2 DEF Returned, Stopped
<1>14. NoClientLost'
  <2>1. /\ InUse = (waiting \ {Recompute}) \cup Busy /\ waiting \cap Busy = {}
        /\ ToSet(free) = Slots \ InUse /\ (Recompute \in waiting <=> ~ recompute)
    BY <1>2 DEF IInv, NoClientLost, Busy
  <2>2. InUse' = (waiting' \ {Recompute}) \cup Busy' /\ waiting' \cap Busy' = {}
    BY <1>1, <1>2, <1>5, <1>6, <2>1
  <2>3. ToSet(free') = Slots \ InUse'
    BY <1>2, <1>5, <1>11, <2>1
  <2> QED
    BY <1>1, <1>11, <2>1, <2>2, <2>3 DEF NoClientLost, Busy, Once
<1>15. OneClientEach'
  <2>1. \A a, b \in InUse' :
           client'[a].type = client'[b].type /\ client'[a].of = client'[b].of => a = b
    BY <1>10 DEF IInv, OneClientEach
  <2>2. \A o \in InUse' : client'[o].type = "server" => client'[o].of \in DOMAIN tx'.servers
    BY <1>8, <1>10
  <2> QED
    BY <2>1, <2>2 DEF OneClientEach
<1>16. Agreed'
  <2>1. \A o \in InUse' : /\ Row(tx, o)'.lastseen = client'[o].lastseen
                          /\ Row(tx, o)'.expire = client'[o].expire
    BY <1>10 DEF IInv, Agreed
  <2>2. waiting' \ {Recompute} \subseteq InUse'
    BY <1>1, <1>2, <1>14 DEF NoClientLost
  <2>3. \A o \in waiting' \ {Recompute} : date'[o] = client'[o].expire
    BY <1>1, <1>10, <2>2 DEF IInv, Agreed
  <2> QED
    BY <2>1, <2>3 DEF Agreed
<1>17. PolledSoon' /\ RowsSoon(tx)' /\ RowsSoon(db)'
  BY <1>1, <1>7, <1>8 DEF IInv, PolledSoon, RowsSoon
<1>18. Committed'
  <2>1. db' = db /\ now' = now /\ pc' = "poll"
    BY <1>1, <1>2
  <2>2. Busy' \subseteq InUse' /\ Busy' \subseteq Busy
    BY <1>1, <1>2, <1>6, <1>14 DEF NoClientLost, Busy
  <2>3. \A o \in Busy' : client'[o].type = "server" =>
           /\ client'[o].of \in DOMAIN db'.servers
           /\ db'.servers[client'[o].of].lastseen = client'[o].lastseen
    BY <1>10, <2>1, <2>2 DEF IInv, Committed
  <2>4. client[c].lastseen \in 1..(now - Day)
    <3>1. now \in Nat /\ Day \in Nat
      BY <1>3, Bounds DEF TypeOK
    <3> QED
      BY <1>1, <1>2, <3>1 DEF SeenLongAgo, NeverSeen
  <2>5. s \in DOMAIN db.servers => db.servers[s].lastseen \in 1..(now - Day)
    BY <1>2, <1>6, <2>4 DEF IInv, Committed
  <2>6. \A t \in DOMAIN db'.servers \ DOMAIN tx'.servers :
           db'.servers[t].lastseen \in 1..(now' - Day)
    BY <1>8, <2>1, <2>5 DEF IInv, Committed
  <2> QED
    BY <2>1, <2>3, <2>6 DEF Committed
<1> QED
  BY <1>12, <1>13, <1>14, <1>15, <1>16, <1>17, <1>18 DEF IInv

LEMMA CommitKeeps ==
  ASSUME IInv, Commit PROVE IInv'
<1>1. /\ pc = "poll" /\ pc' = "loop" /\ ret = Pool!None /\ Pool!Held = {}
      /\ recompute' = FALSE /\ db' = tx
      /\ UNCHANGED <<client, free, list, tx, tries, awaiting, ret>>
  BY DEF Commit, Pool!Finish
<1>2. Pool!Held' = {} /\ Busy = {} /\ Busy' = {} /\ InUse' = InUse /\ Handled' = {}
  BY <1>1 DEF Busy, Handled, InUse, Pool!Held
<1>3. TypeOK
  BY DEF IInv
<1>4. /\ now' = now
      /\ waiting' = waiting \cup {Recompute}
      /\ \A j \in waiting : date'[j] = date[j]
      /\ date' \in [Jobs -> Nat] /\ date'[Recompute] <= now + MaxDelay
  <2>1. CASE recompute
    <3>1. /\ waiting' = waiting \cup {Recompute} /\ Recompute \notin waiting
          /\ date' = [date EXCEPT ![Recompute] = now + NextRecompute] /\ now' = now
      BY <1>1, <2>1 DEF Commit, Sched!Schedule
    <3>2. now + NextRecompute \in Nat /\ now + NextRecompute <= now + MaxDelay
      BY <1>3, Bounds DEF TypeOK
    <3>3. Recompute \in Jobs /\ waiting \subseteq Jobs /\ date \in [Jobs -> Nat]
      BY <1>3 DEF TypeOK, Jobs
    <3> QED
      BY <3>1, <3>2, <3>3
  <2>2. CASE ~ recompute
    <3>1. UNCHANGED <<waiting, date, now>>
      BY <2>2 DEF Commit
    <3>2. Recompute \in waiting
      BY <1>1, <2>2 DEF IInv, NoClientLost
    <3> QED
      BY <1>3, <3>1, <3>2 DEF IInv, PolledSoon, TypeOK
  <2> QED
    BY <2>1, <2>2
<1>5. TypeOK'
  BY <1>1, <1>2, <1>3, <1>4 DEF TypeOK, Jobs
<1>6. Returned' /\ Stopped'
  BY <1>1 DEF Returned, Stopped
<1>7. NoClientLost'
  BY <1>1, <1>2, <1>4 DEF IInv, NoClientLost, Busy
<1>8. OneClientEach'
  BY <1>1, <1>2 DEF IInv, OneClientEach
<1>9. Agreed'
  BY <1>1, <1>2, <1>4 DEF IInv, Agreed, Row
<1>10. PolledSoon' /\ RowsSoon(tx)' /\ RowsSoon(db)'
  BY <1>1, <1>4 DEF IInv, PolledSoon, RowsSoon
<1>11. Committed'
  BY <1>1, <1>2 DEF Committed
<1> QED
  BY <1>5, <1>6, <1>7, <1>8, <1>9, <1>10, <1>11 DEF IInv

\* What a process that ends, or dies, leaves: the rows it committed.
LEMMA DeadKeeps ==
  ASSUME IInv, Dead PROVE IInv'
<1>1. /\ pc' = "down" /\ recompute' = FALSE
      /\ client' = [c \in Slots |-> NoClient] /\ free' = <<>> /\ list' = {}
      /\ tx' = db /\ db' = db /\ now' = now
      /\ waiting' = {} /\ date' = [j \in Jobs |-> 0]
      /\ tries' = Pool!None /\ awaiting' = {} /\ ret' = Pool!None
  BY DEF Dead
<1>2. Pool!Held' = {} /\ Busy' = {} /\ InUse' = {}
  BY <1>1 DEF Pool!Held, Pool!None, Busy, Handled, InUse, NoClient
<1>3. TypeOK'
  <2>1. /\ client' \in [Slots -> Clients \cup {NoClient}]
        /\ free' \in Seq(Slots)
        /\ waiting' \subseteq Jobs /\ date' \in [Jobs -> Nat]
    BY <1>1
  <2> QED
    BY <1>1, <1>2, <2>1 DEF IInv, TypeOK
<1>4. Returned' /\ Stopped' /\ NoClientLost' /\ OneClientEach'
  BY <1>1, <1>2 DEF Returned, Stopped, NoClientLost, OneClientEach
<1>5. Agreed' /\ PolledSoon' /\ RowsSoon(tx)' /\ RowsSoon(db)'
  BY <1>1, <1>2 DEF IInv, Agreed, PolledSoon, RowsSoon
<1>6. Committed'
  BY <1>1, <1>2 DEF Committed
<1> QED
  BY <1>3, <1>4, <1>5, <1>6 DEF IInv

-----------------------------------------------------------------------------

(***************************************************************************)
(* A server of a master's list: its row is found, or made with or without  *)
(* a client.                                                               *)
(***************************************************************************)
LEMMA ReferencedMaster ==
  ASSUME IInv, pc = "list" PROVE client[ret.entry].of \in Masters
<1>1. ret # Pool!None /\ client[ret.entry].type = "master"
  BY DEF IInv, Returned
<1>2. ret.entry \in Slots
  BY <1>1 DEF IInv, TypeOK
<1>3. client[ret.entry] \in MasterClients
  BY <1>1, <1>2, ClientKinds DEF IInv
<1> QED
  BY <1>3 DEF MasterClients

LEMMA ReferenceKnownKeeps ==
  ASSUME IInv, NEW s \in Servers, ReferenceServer(s), IsKnown(s) PROVE IInv'
<1>1. /\ pc = "list" /\ list' = list \ {s}
      /\ tx' = [tx EXCEPT !.servers[s].master = client[ret.entry].of]
      /\ UNCHANGED <<pc, recompute, client, free, db, waiting, date, now, tries, awaiting, ret>>
  BY DEF ReferenceServer, poolVars
<1>2. DatesKept(tx, tx')
  BY <1>1, ReferencedMaster, ReferencedDates DEF IInv, TypeOK, IsKnown
<1>3. /\ InUse' = InUse
      /\ Agreed' /\ OneClientEach' /\ RowsSoon(tx)'
  BY <1>1, <1>2, DatesKeptKeeps DEF IInv
<1>4. Pool!Held' = Pool!Held /\ Handled' = Handled /\ Busy' = Busy
  BY <1>1 DEF Pool!Held, Handled, Busy
<1>5. TypeOK'
  BY <1>1, <1>2, <1>4 DEF IInv, TypeOK, DatesKept
<1>6. Returned' /\ Stopped' /\ NoClientLost'
  BY <1>1, <1>3, <1>4 DEF IInv, Returned, Stopped, NoClientLost
<1>7. PolledSoon' /\ RowsSoon(db)'
  BY <1>1 DEF IInv, PolledSoon, RowsSoon
<1>8. Committed'
  BY <1>1, <1>2, <1>4 DEF IInv, Committed, DatesKept
<1> QED
  BY <1>3, <1>5, <1>6, <1>7, <1>8 DEF IInv

\* A row is made: the rows there were are kept, and no client is of this one.
LEMMA ReferencedRow ==
  ASSUME IInv, NEW s \in Servers, ReferenceServer(s), ~ IsKnown(s)
  PROVE  \E r \in ServerClients :
            /\ r.of = s /\ r.lastseen = 0 /\ r.expire = 0
            /\ IsDatabase(tx') /\ tx'.masters = tx.masters
            /\ DOMAIN tx'.servers = {s} \cup DOMAIN tx.servers
            /\ tx'.servers[s].lastseen = 0 /\ tx'.servers[s].expire = 0
            /\ \A t \in DOMAIN tx.servers \ {s} : tx'.servers[t] = tx.servers[t]
            /\ \/ UNCHANGED <<client, free, waiting, date, now>>
               \/ NewNetclient(r)
<1> DEFINE m   == client[ret.entry].of
           row == [master |-> m, lastseen |-> NeverSeen, expire |-> ExpireNow]
           r   == ServerClient(s, row)
<1>1. pc = "list" /\ tx' = [tx EXCEPT !.servers = Inserted(s, row, @)]
  BY DEF ReferenceServer
<1>2. UNCHANGED <<client, free, waiting, date, now>> \/ NewNetclient(r)
  BY DEF ReferenceServer
<1>3. m \in Masters
  BY <1>1, ReferencedMaster
<1>4. /\ r \in ServerClients /\ r.of = s /\ r.lastseen = 0 /\ r.expire = 0
      /\ [master |-> r.master, lastseen |-> r.lastseen, expire |-> r.expire] = row
  BY <1>3 DEF ServerClients, ServerClient, NeverSeen, ExpireNow
<1>5. WriteServer(r)
  BY <1>1, <1>4 DEF WriteServer
<1> HIDE DEF r
<1> QED
  BY <1>2, <1>4, <1>5, ServerWritten DEF IInv, TypeOK

LEMMA ReferenceNewKeeps ==
  ASSUME IInv, NEW s \in Servers, ReferenceServer(s), ~ IsKnown(s) PROVE IInv'
<1>1. PICK r \in ServerClients :
         /\ r.of = s /\ r.lastseen = 0 /\ r.expire = 0
         /\ IsDatabase(tx') /\ tx'.masters = tx.masters
         /\ DOMAIN tx'.servers = {s} \cup DOMAIN tx.servers
         /\ tx'.servers[s].lastseen = 0 /\ tx'.servers[s].expire = 0
         /\ \A t \in DOMAIN tx.servers \ {s} : tx'.servers[t] = tx.servers[t]
         /\ \/ UNCHANGED <<client, free, waiting, date, now>>
            \/ NewNetclient(r)
  BY ReferencedRow
<1>2. /\ pc = "list" /\ pc' = "list" /\ list' \subseteq Servers /\ now' = now
      /\ UNCHANGED <<recompute, db, tries, awaiting, ret>>
  BY <1>1 DEF ReferenceServer, poolVars, IInv, TypeOK, NewNetclient, Sched!Schedule
<1>3. Pool!Held' = Pool!Held /\ Handled' = Handled /\ Busy' = Busy
  BY <1>2 DEF Pool!Held, Handled, Busy
<1>4. TypeOK /\ s \notin DOMAIN tx.servers
  BY DEF IInv, IsKnown
<1>5. ASSUME NEW o \in InUse, client'[o] = client[o]
      PROVE  /\ Row(tx, o)' = Row(tx, o)
             /\ client[o].type = "server" => client[o].of \in DOMAIN tx.servers \ {s}
  BY <1>1, <1>4, <1>5 DEF Row, IInv, OneClientEach
<1>6. RowsSoon(tx)' /\ RowsSoon(db)'
  <2>1. 0 <= now + MaxDelay
    BY <1>4, Bounds DEF TypeOK
  <2> QED
    BY <1>1, <1>2, <2>1 DEF IInv, RowsSoon
<1>7. Busy \subseteq InUse /\ ToSet(free) = Slots \ InUse /\ Once(free)
  BY <1>2 DEF IInv, NoClientLost, Busy, Once
<1>8. CASE UNCHANGED <<client, free, waiting, date, now>>
  <2>1. InUse' = InUse
    BY <1>8 DEF InUse
  <2>2. TypeOK'
    BY <1>1, <1>2, <1>3, <1>4, <1>8 DEF TypeOK
  <2>3. Returned' /\ Stopped' /\ NoClientLost' /\ PolledSoon'
    BY <1>2, <1>3, <1>8, <2>1 DEF IInv, Returned, Stopped, NoClientLost, PolledSoon
  <2>4. OneClientEach'
    BY <1>1, <1>8, <2>1 DEF IInv, OneClientEach
  <2>5. Agreed'
    BY <1>5, <1>8, <2>1 DEF IInv, Agreed
  <2>6. Committed'
    BY <1>1, <1>2, <1>3, <1>8 DEF IInv, Committed
  <2> QED
    BY <1>6, <2>2, <2>3, <2>4, <2>5, <2>6 DEF IInv
<1>9. CASE NewNetclient(r)
  <2>0. PICK h : h = Head(free)
    OBVIOUS
  <2>1. /\ free # <<>> /\ client' = [client EXCEPT ![h] = r] /\ free' = Tail(free)
        /\ waiting' = waiting \cup {h} /\ date' = [date EXCEPT ![h] = 0]
    BY <1>1, <1>9, <2>0 DEF NewNetclient, Sched!Schedule
  <2>2. /\ h \in Slots \ InUse
        /\ free' \in Seq(Slots) /\ Once(free') /\ ToSet(free') = ToSet(free) \ {h}
    <3>1. free \in Seq(Slots)
      BY <1>4 DEF TypeOK
    <3>2. /\ Tail(free) \in Seq(Slots)
          /\ Head(free) \in ToSet(free)
          /\ Once(free) => ToSet(Tail(free)) = ToSet(free) \ {Head(free)} /\ Once(Tail(free))
      BY <2>1, <3>1, Tailed
    <3> QED
      BY <1>7, <2>0, <2>1, <3>2
  <2>3. r \in Clients /\ r.type = "server" /\ r.type # "none"
    BY <1>1 DEF Clients, ServerClients
  <2>4. /\ client' \in [Slots -> Clients \cup {NoClient}]
        /\ client'[h] = r
        /\ \A o \in Slots \ {h} : client'[o] = client[o]
    BY <1>4, <2>1, <2>2, <2>3 DEF TypeOK
  <2>5. InUse' = InUse \cup {h} /\ \A o \in InUse : client'[o] = client[o]
    BY <2>2, <2>3, <2>4 DEF InUse
  <2>6. TypeOK'
    <3>1. waiting' \subseteq Jobs /\ date' \in [Jobs -> Nat]
      BY <1>4, <2>1, <2>2 DEF TypeOK, Jobs
    <3> QED
      BY <1>1, <1>2, <1>3, <1>4, <2>2, <2>4, <3>1 DEF TypeOK
  <2>7. Returned' /\ Stopped'
    <3>1. ret # Pool!None => ret.entry \in InUse
      BY <1>7 DEF Busy, Handled
    <3> QED
      BY <1>2, <1>3, <2>5, <3>1 DEF IInv, Returned, Stopped
  <2>8. NoClientLost'
    <3>1. /\ InUse = (waiting \ {Recompute}) \cup Busy /\ waiting \cap Busy = {}
          /\ (Recompute \in waiting <=> ~ recompute)
      BY <1>2 DEF IInv, NoClientLost, Busy
    <3>2. h # Recompute /\ h \notin Busy
      BY <1>7, <2>2 DEF Slots, Recompute
    <3>3. InUse' = (waiting' \ {Recompute}) \cup Busy' /\ waiting' \cap Busy' = {}
      BY <1>3, <2>1, <2>5, <3>1, <3>2
    <3>4. Recompute \in waiting' <=> ~ recompute'
      BY <1>2, <2>1, <3>1, <3>2
    <3>5. ToSet(free') = Slots \ InUse'
      BY <1>7, <2>2, <2>5
    <3> QED
      BY <2>2, <3>3, <3>4, <3>5 DEF NoClientLost, Busy, Once
  <2>9. OneClientEach'
    <3>1. \A a, b \in InUse' :
             client'[a].type = client'[b].type /\ client'[a].of = client'[b].of => a = b
      <4>1. \A o \in InUse : ~ (client'[o].type = "server" /\ client'[o].of = s)
        BY <1>5, <2>5
      <4> QED
        BY <1>1, <2>3, <2>4, <2>5, <4>1 DEF IInv, OneClientEach
    <3>2. \A o \in InUse' : client'[o].type = "server" => client'[o].of \in DOMAIN tx'.servers
      BY <1>1, <1>5, <2>4, <2>5
    <3> QED
      BY <3>1, <3>2 DEF OneClientEach
  <2>10. Agreed'
    <3>1. \A o \in InUse : /\ Row(tx, o)'.lastseen = client'[o].lastseen
                           /\ Row(tx, o)'.expire = client'[o].expire
      BY <1>5, <2>5 DEF IInv, Agreed
    <3>2. Row(tx, h)'.lastseen = client'[h].lastseen /\ Row(tx, h)'.expire = client'[h].expire
      BY <1>1, <2>3, <2>4 DEF Row
    <3>3. \A o \in waiting' \ {Recompute} : date'[o] = client'[o].expire
      <4>1. waiting \ {Recompute} \subseteq InUse /\ waiting \subseteq Jobs
        BY <1>2, <1>4 DEF IInv, NoClientLost, TypeOK
      <4>2. h \in Jobs /\ date \in [Jobs -> Nat]
        BY <1>4, <2>2 DEF TypeOK, Jobs
      <4>3. \A o \in waiting \ {Recompute} : date'[o] = client'[o].expire
        BY <2>1, <2>2, <2>5, <4>1, <4>2 DEF IInv, Agreed
      <4>4. date'[h] = client'[h].expire
        BY <1>1, <2>1, <2>4, <4>2
      <4> QED
        BY <2>1, <4>3, <4>4
    <3> QED
      BY <2>5, <3>1, <3>2, <3>3 DEF Agreed
  <2>11. PolledSoon'
    <3>1. 0 <= now + MaxDelay
      BY <1>4, Bounds DEF TypeOK
    <3>2. h \in Jobs /\ date \in [Jobs -> Nat] /\ waiting \subseteq Jobs
      BY <1>4, <2>2 DEF TypeOK, Jobs
    <3> QED
      BY <1>2, <2>1, <3>1, <3>2 DEF IInv, PolledSoon
  <2>12. Committed'
    <3>1. \A o \in Busy' : o \in Busy /\ client'[o] = client[o]
      BY <1>3, <1>7, <2>5
    <3> QED
      BY <1>1, <1>2, <3>1 DEF IInv, Committed
  <2> QED
    BY <1>6, <2>6, <2>7, <2>8, <2>9, <2>10, <2>11, <2>12 DEF IInv
<1> QED
  BY <1>1, <1>8, <1>9

-----------------------------------------------------------------------------

(***************************************************************************)
(* main() makes a client of each row, at most one, with the dates in it.   *)
(***************************************************************************)
OfRow(r) ==
    \/ /\ r \in ServerClients /\ r.of \in DOMAIN db.servers
       /\ r.lastseen = db.servers[r.of].lastseen /\ r.expire = db.servers[r.of].expire
    \/ /\ r \in MasterClients
       /\ r.lastseen = db.masters[r.of].lastseen /\ r.expire = db.masters[r.of].expire

LEMMA ServerOfRow ==
  ASSUME IsDatabase(db), NEW s \in DOMAIN db.servers
  PROVE  /\ ServerClient(s, db.servers[s]) \in ServerClients
         /\ ServerClient(s, db.servers[s]).of = s
         /\ OfRow(ServerClient(s, db.servers[s]))
<1>1. ASSUME NEW t \in Servers, NEW row \in ServerRows
      PROVE  /\ ServerClient(t, row) \in ServerClients
             /\ ServerClient(t, row).of = t
             /\ ServerClient(t, row).lastseen = row.lastseen
             /\ ServerClient(t, row).expire = row.expire
  BY DEF ServerClient, ServerClients, ServerRows
<1>2. s \in Servers /\ db.servers[s] \in ServerRows
  BY DEF IsDatabase
<1> QED
  BY <1>1, <1>2 DEF OfRow

LEMMA MasterOfRow ==
  ASSUME IsDatabase(db), NEW m \in Masters
  PROVE  /\ MasterClient(m, db.masters[m]) \in MasterClients
         /\ MasterClient(m, db.masters[m]).of = m
         /\ OfRow(MasterClient(m, db.masters[m]))
<1>1. ASSUME NEW row \in MasterRows
      PROVE  /\ MasterClient(m, row) \in MasterClients
             /\ MasterClient(m, row).of = m
             /\ MasterClient(m, row).lastseen = row.lastseen
             /\ MasterClient(m, row).expire = row.expire
  BY DEF MasterClient, MasterClients, MasterRows
<1>2. db.masters[m] \in MasterRows
  BY DEF IsDatabase
<1> QED
  BY <1>1, <1>2 DEF OfRow

LEMMA SetToSeqsOnce ==
  ASSUME NEW S, IsFiniteSet(S), NEW q \in SetToSeqs(S)
  PROVE  q \in Seq(S) /\ Once(q) /\ DOMAIN q = 1..Len(q)
<1>1. Cardinality(S) \in Nat
  BY FS_CardinalityType
<1>2. /\ q \in [1..Cardinality(S) -> S]
      /\ \A i, j \in 1..Cardinality(S) : i # j => q[i] # q[j]
  BY DEF SetToSeqs
<1>3. q \in Seq(S) /\ Len(q) = Cardinality(S)
  BY <1>1, <1>2
<1> QED
  BY <1>2, <1>3 DEF Once

LEMMA LoadedServers ==
  ASSUME IsDatabase(db), NEW ss \in ServerOrders
  PROVE  /\ ss \in Seq(ServerClients)
         /\ \A i \in 1..Len(ss) : OfRow(ss[i])
         /\ \A i, k \in 1..Len(ss) : ss[i].of = ss[k].of => i = k
<1> DEFINE S == DOMAIN db.servers \cap Resolvable
<1>order. PICK q \in SetToSeqs(S) :
         ss = [i \in DOMAIN q |-> ServerClient(q[i], db.servers[q[i]])]
  BY DEF ServerOrders
<1>1. IsFiniteSet(S)
  <2>1. IsFiniteSet(Servers) /\ S \subseteq Servers
    BY UpdaterAssumption DEF UpdaterAssumption, IsDatabase
  <2> QED
    BY <2>1, FS_Subset
<1>2. q \in Seq(S) /\ Once(q) /\ DOMAIN q = 1..Len(q) /\ Len(q) \in Nat
  BY <1>1, SetToSeqsOnce
<1>4. ASSUME NEW i \in 1..Len(q)
      PROVE  /\ ss[i] \in ServerClients /\ ss[i].of = q[i] /\ OfRow(ss[i])
  <2>1. q[i] \in S /\ ss[i] = ServerClient(q[i], db.servers[q[i]])
    BY <1>order, <1>2
  <2> QED
    BY <2>1, ServerOfRow
<1>5. ss \in Seq(ServerClients) /\ Len(ss) = Len(q)
  BY <1>order, <1>2, <1>4
<1> QED
  BY <1>2, <1>4, <1>5 DEF Once

LEMMA LoadedMasters ==
  ASSUME IsDatabase(db), NEW ms \in MasterOrders
  PROVE  /\ ms \in Seq(MasterClients)
         /\ \A i \in 1..Len(ms) : OfRow(ms[i])
         /\ \A i, k \in 1..Len(ms) : ms[i].of = ms[k].of => i = k
<1>choice. PICK M \in SUBSET Masters :
         \E q \in SetToSeqs(M) :
            ms = [i \in DOMAIN q |-> MasterClient(q[i], db.masters[q[i]])]
  BY DEF MasterOrders
<1>1. PICK q \in SetToSeqs(M) :
         ms = [i \in DOMAIN q |-> MasterClient(q[i], db.masters[q[i]])]
  BY <1>choice
<1>2. IsFiniteSet(M)
  <2>1. IsFiniteSet(Masters)
    BY UpdaterAssumption DEF UpdaterAssumption
  <2> QED
    BY <2>1, FS_Subset
<1>3. q \in Seq(M) /\ Once(q) /\ DOMAIN q = 1..Len(q) /\ Len(q) \in Nat
  BY <1>2, SetToSeqsOnce
<1>4. ASSUME NEW i \in 1..Len(q)
      PROVE  /\ ms[i] \in MasterClients /\ ms[i].of = q[i] /\ OfRow(ms[i])
  <2>1. q[i] \in M /\ ms[i] = MasterClient(q[i], db.masters[q[i]])
    BY <1>1, <1>3
  <2> QED
    BY <2>1, MasterOfRow
<1>5. ms \in Seq(MasterClients) /\ Len(ms) = Len(q)
  BY <1>1, <1>3, <1>4
<1> QED
  BY <1>3, <1>4, <1>5 DEF Once

LEMMA Loaded ==
  ASSUME IsDatabase(db), NEW all \in LoadOrders
  PROVE  /\ all \in Seq(Clients)
         /\ \A i \in 1..Len(all) : OfRow(all[i])
         /\ \A i, k \in 1..Len(all) : all[i].type = all[k].type /\ all[i].of = all[k].of => i = k
<1>1. PICK ss \in ServerOrders, ms \in MasterOrders : all = ss \o ms
  BY DEF LoadOrders
<1>4. /\ ss \in Seq(ServerClients)
      /\ \A i \in 1..Len(ss) : OfRow(ss[i])
      /\ \A i, k \in 1..Len(ss) : ss[i].of = ss[k].of => i = k
  BY LoadedServers
<1>5. /\ ms \in Seq(MasterClients)
      /\ \A i \in 1..Len(ms) : OfRow(ms[i])
      /\ \A i, k \in 1..Len(ms) : ms[i].of = ms[k].of => i = k
  BY LoadedMasters
<1>6. /\ Len(ss) \in Nat /\ Len(ms) \in Nat
      /\ \A i \in 1..Len(ss) : ss[i] \in Clients /\ ss[i].type = "server"
      /\ \A i \in 1..Len(ms) : ms[i] \in Clients /\ ms[i].type = "master"
  <2>1. Len(ss) \in Nat /\ \A i \in 1..Len(ss) : ss[i] \in ServerClients
    BY <1>4, LenProperties
  <2>2. Len(ms) \in Nat /\ \A i \in 1..Len(ms) : ms[i] \in MasterClients
    BY <1>5, LenProperties
  <2>3. /\ \A r \in ServerClients : r \in Clients /\ r.type = "server"
        /\ \A r \in MasterClients : r \in Clients /\ r.type = "master"
    BY DEF Clients, ServerClients, MasterClients
  <2> QED
    BY <2>1, <2>2, <2>3
<1>7. /\ all = ss \o ms /\ Len(all) = Len(ss) + Len(ms)
      /\ all \in Seq(Clients)
      /\ \A i \in 1..Len(all) :
           \/ i \in 1..Len(ss) /\ all[i] = ss[i]
           \/ i - Len(ss) \in 1..Len(ms) /\ all[i] = ms[i - Len(ss)]
  <2>1. all = ss \o ms
    BY <1>1
  <2>2. ss \in Seq(Clients) /\ ms \in Seq(Clients)
    BY <1>4, <1>5 DEF Clients
  <2> QED
    BY <1>6, <2>1, <2>2, ConcatProperties
<1>8. \A i \in 1..Len(all) : OfRow(all[i])
  BY <1>4, <1>5, <1>7
<1>9. ASSUME NEW i \in 1..Len(all), NEW k \in 1..Len(all),
             all[i].type = all[k].type, all[i].of = all[k].of
      PROVE  i = k
  <2>1. CASE i \in 1..Len(ss) /\ all[i] = ss[i] /\ k \in 1..Len(ss) /\ all[k] = ss[k]
    BY <1>4, <1>9, <2>1
  <2>2. CASE /\ i - Len(ss) \in 1..Len(ms) /\ all[i] = ms[i - Len(ss)]
             /\ k - Len(ss) \in 1..Len(ms) /\ all[k] = ms[k - Len(ss)]
    <3>1. i - Len(ss) = k - Len(ss)
      BY <1>5, <1>9, <2>2
    <3> QED
      BY <1>6, <1>7, <3>1
  <2>3. CASE /\ i \in 1..Len(ss) /\ all[i] = ss[i]
             /\ k - Len(ss) \in 1..Len(ms) /\ all[k] = ms[k - Len(ss)]
    BY <1>6, <1>9, <2>3
  <2>4. CASE /\ i - Len(ss) \in 1..Len(ms) /\ all[i] = ms[i - Len(ss)]
             /\ k \in 1..Len(ss) /\ all[k] = ss[k]
    BY <1>6, <1>9, <2>4
  <2> QED
    BY <1>7, <2>1, <2>2, <2>3, <2>4
<1> QED
  BY <1>7, <1>8, <1>9

LEMMA StartKeeps ==
  ASSUME IInv, Start PROVE IInv'
<1>1. PICK all \in LoadOrders :
         LET n == IF Len(all) < MaxNetclients THEN Len(all) ELSE MaxNetclients IN
         /\ n > 0
         /\ client' = [c \in Slots |-> IF c <= n THEN all[c] ELSE NoClient]
         /\ free' = [i \in 1..(MaxNetclients - n) |-> n + i]
         /\ waiting' = {Recompute} \cup 1..n
         /\ date' = [j \in Jobs |-> IF j = Recompute THEN now + FirstRecompute
                                    ELSE IF j <= n THEN all[j].expire ELSE 0]
  BY DEF Start
<1>2. /\ pc = "down" /\ pc' = "loop"
      /\ UNCHANGED <<recompute, list, tx, db, now, tries, awaiting, ret>>
  BY DEF Start, poolVars
<1>3. TypeOK /\ IsDatabase(db) /\ MaxNetclients \in Nat
  BY Bounds DEF IInv, TypeOK
<1>4. /\ all \in Seq(Clients) /\ Len(all) \in Nat
      /\ \A i \in 1..Len(all) : all[i] \in Clients /\ OfRow(all[i])
      /\ \A i, k \in 1..Len(all) :
           all[i].type = all[k].type /\ all[i].of = all[k].of => i = k
  BY <1>3, Loaded, LenProperties
<1>size. PICK n : n = IF Len(all) < MaxNetclients THEN Len(all) ELSE MaxNetclients
  OBVIOUS
<1>5. /\ n \in 1..Len(all) /\ n <= MaxNetclients
      /\ client' = [c \in Slots |-> IF c <= n THEN all[c] ELSE NoClient]
      /\ free' = [i \in 1..(MaxNetclients - n) |-> n + i]
      /\ waiting' = {Recompute} \cup 1..n
      /\ date' = [j \in Jobs |-> IF j = Recompute THEN now + FirstRecompute
                                 ELSE IF j <= n THEN all[j].expire ELSE 0]
  <2>1. n > 0
    BY <1>size, <1>1
  <2>2. n \in 1..Len(all) /\ n <= MaxNetclients
    BY <1>size, <1>3, <1>4, <2>1
  <2> QED
    BY <1>size, <1>1, <2>2
<1>6. /\ Slots = 1..MaxNetclients /\ Recompute = 0 /\ Jobs = {0} \cup Slots
      /\ 1..n \subseteq Slots /\ 1..n \subseteq 1..Len(all)
  BY <1>3, <1>4, <1>5 DEF Slots, Recompute, Jobs
<1>7. /\ \A c \in 1..n : client'[c] = all[c] /\ client'[c] \in Clients /\ OfRow(client'[c])
      /\ \A c \in Slots \ (1..n) : client'[c] = NoClient
  BY <1>4, <1>5, <1>6
<1>8. client' \in [Slots -> Clients \cup {NoClient}]
  BY <1>5, <1>6, <1>7
<1>9. InUse' = 1..n
  <2>1. \A r \in Clients : r.type # "none"
    BY DEF Clients, ServerClients, MasterClients
  <2>2. NoClient.type = "none"
    BY DEF NoClient
  <2> QED
    BY <1>6, <1>7, <2>1, <2>2 DEF InUse
<1>10. Pool!Held' = {} /\ Busy' = {} /\ Handled' = {} /\ awaiting' = {}
  <2>1. Busy = {}
    BY <1>2 DEF IInv, Stopped
  <2>2. Pool!Held = {} /\ Handled = {}
    BY <2>1 DEF Busy
  <2>3. Pool!Held' = Pool!Held /\ Handled' = Handled /\ awaiting' = awaiting
    BY <1>2 DEF Pool!Held, Handled
  <2> QED
    BY <1>3, <2>2, <2>3 DEF Busy, TypeOK
<1>11. /\ \A r \in Clients : r.expire \in Nat
       /\ \A r \in Clients : OfRow(r) => r.expire <= now + MaxDelay
  BY <1>3 DEF OfRow, Clients, ServerClients, MasterClients, IInv, RowsSoon
<1>12. now \in Nat /\ now + FirstRecompute \in Nat /\ now + FirstRecompute <= now + MaxDelay
  BY <1>3, Bounds DEF TypeOK
<1>13. /\ waiting' \subseteq Jobs /\ date' \in [Jobs -> Nat]
       /\ \A c \in 1..n : date'[c] = client'[c].expire
       /\ date'[Recompute] = now + FirstRecompute
  <2>1. \A j \in 1..n : all[j].expire \in Nat
    BY <1>4, <1>6, <1>11
  <2> QED
    BY <1>5, <1>6, <1>7, <1>12, <2>1
<1>14. /\ free' \in Seq(Slots) /\ Once(free') /\ ToSet(free') = Slots \ (1..n)
  <2>1. MaxNetclients - n \in Nat /\ \A i \in 1..(MaxNetclients - n) : n + i \in Slots
    BY <1>3, <1>5, <1>6
  <2>2. free' \in Seq(Slots) /\ Len(free') = MaxNetclients - n
    BY <1>5, <2>1
  <2>3. Once(free')
    BY <1>5, <2>1, <2>2 DEF Once
  <2>4. ToSet(free') = {free'[i] : i \in 1..(MaxNetclients - n)}
    BY <2>2, ElementsIn
  <2>5. \A c \in Slots \ (1..n) : c - n \in 1..(MaxNetclients - n) /\ free'[c - n] = c
    BY <1>3, <1>5, <1>6
  <2>6. \A i \in 1..(MaxNetclients - n) : free'[i] \in Slots \ (1..n)
    BY <1>3, <1>5, <1>6
  <2> QED
    <3>1. ToSet(free') \subseteq Slots \ (1..n)
      BY <2>4, <2>6
    <3>2. Slots \ (1..n) \subseteq ToSet(free')
      BY <2>4, <2>5
    <3> QED
      BY <2>2, <2>3, <3>1, <3>2
<1>15. TypeOK'
  BY <1>2, <1>3, <1>8, <1>10, <1>13, <1>14 DEF TypeOK
<1>16. Returned' /\ Stopped'
  <2>1. ret' = Pool!None
    BY <1>10 DEF Handled
  <2> QED
    BY <1>2, <2>1 DEF Returned, Stopped
<1>17. NoClientLost'
  <2>1. ~ recompute'
    BY <1>2 DEF IInv, Stopped
  <2> QED
    <3>1. Recompute \in waiting' /\ waiting' \ {Recompute} = 1..n
      BY <1>5, <1>6
    <3> QED
      BY <1>9, <1>10, <1>14, <2>1, <3>1 DEF NoClientLost, Once
<1>18. tx' = db /\ db' = db
  BY <1>2 DEF IInv, Committed
<1>19. OneClientEach'
  <2>1. \A a, b \in 1..n :
           client'[a].type = client'[b].type /\ client'[a].of = client'[b].of => a = b
    BY <1>4, <1>6, <1>7
  <2>2. \A c \in 1..n : client'[c].type = "server" => client'[c].of \in DOMAIN tx'.servers
    BY <1>7, <1>18 DEF OfRow, MasterClients
  <2> QED
    BY <1>9, <2>1, <2>2 DEF OneClientEach
<1>20. Agreed'
  <2>1. ASSUME NEW c \in 1..n
        PROVE  /\ Row(tx, c)'.lastseen = client'[c].lastseen
               /\ Row(tx, c)'.expire = client'[c].expire
    BY <1>7, <1>18 DEF Row, OfRow, ServerClients, MasterClients
  <2> QED
    BY <1>5, <1>6, <1>9, <1>13, <2>1 DEF Agreed
<1>21. PolledSoon' /\ RowsSoon(tx)' /\ RowsSoon(db)'
  <2>1. \A j \in waiting' : date'[j] <= now + MaxDelay
    BY <1>5, <1>6, <1>7, <1>11, <1>12, <1>13
  <2> QED
    BY <1>2, <1>18, <2>1 DEF IInv, PolledSoon, RowsSoon
<1>22. Committed'
  BY <1>10, <1>18 DEF Committed
<1> QED
  BY <1>15, <1>16, <1>17, <1>19, <1>20, <1>21, <1>22 DEF IInv

LEMMA Initially == Init => IInv
<1> SUFFICES ASSUME Init PROVE IInv
  OBVIOUS
<1>1. /\ pc = "down" /\ recompute = FALSE
      /\ client = [c \in Slots |-> NoClient] /\ free = <<>> /\ list = {}
      /\ db = [servers |-> <<>>,
               masters |-> [m \in Masters |-> [lastseen |-> NeverSeen, expire |-> ExpireNow]]]
      /\ tx = db
      /\ waiting = {} /\ date = [j \in Jobs |-> 0] /\ now = StartTime
      /\ tries = Pool!None /\ awaiting = {} /\ ret = Pool!None
  BY DEF Init, Sched!Init, Pool!Init
<1>2. Pool!Held = {} /\ Busy = {} /\ InUse = {}
  BY <1>1 DEF Pool!Held, Pool!None, Busy, Handled, InUse, NoClient
<1>3. /\ DOMAIN db.servers = {} /\ db.servers \in [{} -> ServerRows]
      /\ db = [servers |-> db.servers, masters |-> db.masters]
  BY <1>1
<1>4. \A m \in Masters : db.masters[m] \in MasterRows /\ db.masters[m].expire = 0
  BY <1>1 DEF MasterRows, NeverSeen, ExpireNow
<1>5. IsDatabase(db)
  <2>1. db.masters = [m \in Masters |-> [lastseen |-> NeverSeen, expire |-> ExpireNow]]
    BY <1>1
  <2>2. db.masters \in [Masters -> MasterRows]
    BY <1>4, <2>1
  <2> QED
    BY <1>3, <2>2 DEF IsDatabase
<1>6. TypeOK
  <2>1. /\ client \in [Slots -> Clients \cup {NoClient}]
        /\ free \in Seq(Slots)
        /\ waiting \subseteq Jobs /\ date \in [Jobs -> Nat]
    BY <1>1
  <2> QED
    BY <1>1, <1>2, <1>5, <2>1, Bounds DEF TypeOK
<1>7. Returned /\ Stopped /\ NoClientLost /\ OneClientEach
  BY <1>1, <1>2 DEF Returned, Stopped, NoClientLost, OneClientEach
<1>8. Agreed /\ PolledSoon
  BY <1>1, <1>2 DEF Agreed, PolledSoon
<1>9. RowsSoon(tx) /\ RowsSoon(db)
  <2>1. 0 <= now + MaxDelay
    BY <1>1, Bounds
  <2> QED
    BY <1>1, <1>3, <1>4, <2>1 DEF RowsSoon
<1>10. Committed
  BY <1>1, <1>2 DEF Committed
<1> QED
  BY <1>6, <1>7, <1>8, <1>9, <1>10 DEF IInv

LEMMA Inductive == IInv /\ [Next]_vars => IInv'
<1> SUFFICES ASSUME IInv, [Next]_vars PROVE IInv'
  OBVIOUS
<1>1. CASE Start
  BY <1>1, StartKeeps
<1>2. CASE Loop \/ Sleep \/ WakeUp \/ Begin \/ Signal \/ Tick \/ UNCHANGED vars
  BY <1>2, WalksQuietly
<1>3. CASE Exit \/ Crash
  BY <1>3, DeadKeeps DEF Exit, Crash
<1>4. CASE TakeRecompute
  BY <1>4, TakeRecomputeKeeps
<1>5. CASE PollPool
  BY <1>5, PollPoolKeeps
<1>6. CASE Commit
  BY <1>6, CommitKeeps
<1>7. CASE ListEnds
  BY <1>7, MasterListKeeps
<1>8. ASSUME NEW s \in Servers, ReferenceServer(s) PROVE IInv'
  BY <1>8, ReferenceKnownKeeps, ReferenceNewKeeps
<1>9. ASSUME NEW c \in Slots, AddToPool(c) PROVE IInv'
  BY <1>9, AddToPoolKeeps
<1>10. ASSUME NEW c \in Slots, Handle(c) PROVE IInv'
  BY <1>10, ServerPacketKeeps, RemoveServerKeeps, ServerTimeoutKeeps,
     MasterListKeeps, MasterTimeoutKeeps DEF Handle
<1> QED
  BY <1>1, <1>2, <1>3, <1>4, <1>5, <1>6, <1>7, <1>8, <1>9, <1>10 DEF Next

-----------------------------------------------------------------------------

\* The inductive invariant: every property below is read off it.
THEOREM Invariance == Spec => []IInv
  BY Initially, Inductive, PTL DEF Spec

(***************************************************************************)
(* Whatever servers answer and masters list, and wherever the process is   *)
(* stopped, a slot is exactly one of free, scheduled, in the pool or being *)
(* handled for the last time.                                              *)
(***************************************************************************)
THEOREM NeverLost == Spec => []NoClientLost
<1>1. IInv => NoClientLost
  BY DEF IInv
<1> QED
  BY <1>1, Invariance, PTL

\* reference_server() makes no second client of a server, from any two masters.
THEOREM AlwaysOneEach == Spec => []OneClientEach
<1>1. IInv => OneClientEach
  BY DEF IInv
<1> QED
  BY <1>1, Invariance, PTL

\* The dates of the scheduler are those a restart would read.
THEOREM AlwaysSaved == Spec => []DatesSaved
<1>1. IInv => DatesSaved
  <2> SUFFICES ASSUME IInv, NEW c \in waiting \ {Recompute} PROVE date[c] = Row(tx, c).expire
    BY DEF DatesSaved
  <2>1. c \in InUse
    BY DEF IInv, NoClientLost, Stopped
  <2> QED
    BY <2>1 DEF IInv, Agreed
<1> QED
  BY <1>1, Invariance, PTL

\* No delay the code computes is longer than two hours, restarts included.
THEOREM AlwaysSoon == Spec => []PolledSoon
<1>1. IInv => PolledSoon
  BY DEF IInv
<1> QED
  BY <1>1, Invariance, PTL

(***************************************************************************)
(* The rows the CGI reads lose a server only a day after the date in them: *)
(* remove_server() decides on the date in memory, COMMIT publishes it.     *)
(***************************************************************************)
THEOREM RemovedOnlySilent == Spec => RemovedSilent
<1>1. ASSUME IInv, [Next]_vars
      PROVE  [\A s \in DOMAIN db.servers \ DOMAIN db'.servers :
                 db.servers[s].lastseen \in 1..(now - Day)]_vars
  <2>1. CASE Commit
    <3>1. db' = tx
      BY <2>1 DEF Commit
    <3> QED
      BY <1>1, <3>1 DEF IInv, Committed
  <2>2. ASSUME NEW c \in Slots, AddToPool(c) PROVE DOMAIN db'.servers = DOMAIN db.servers
    <3>1. tx = db /\ IsDatabase(db)
      BY <1>1, <2>2 DEF AddToPool, IInv, Committed, TypeOK
    <3>2. CASE client[c].type = "master"
      BY <2>2, <3>1, <3>2, UnreferencedDates DEF AddToPool, DatesKept
    <3>3. CASE client[c].type # "master"
      BY <2>2, <3>3 DEF AddToPool
    <3> QED
      BY <3>2, <3>3
  <2>3. CASE ~ Commit /\ ~ \E c \in Slots : AddToPool(c)
    <3>1. db' = db
      BY <1>1, <2>3
         DEF Next, Start, Loop, Exit, Crash, Dead, Sleep, WakeUp, TakeRecompute, Begin, Handle,
             HandleServerPacket, RemoveServer, HandleServerTimeout, HandleMasterPacket,
             HandleMasterTimeout, PollPool, ReferenceServer, ListEnds, Signal, Tick, vars
    <3> QED
      BY <3>1
  <2> QED
    BY <2>1, <2>2, <2>3
<1> QED
  BY <1>1, Invariance, PTL DEF Spec, RemovedSilent
=============================================================================
