# A formal model of teerank

teerank polls the master servers and the game servers of Teeworlds, rates
players with an Elo-like formula, and shows the result on web pages.  This
directory holds TLA+ specifications translated from its source, TLC
configurations that check them on small instances, and TLAPS proofs about them.
Line numbers refer to the files of the repository.

## 1. The system

Three programs share one SQLite database.

* `teerank-update` (`update/`) is a single process, with a single thread.  Its
  loop (`update/main.c:317-376`) sleeps until a job is due, puts every due
  client in the pool, opens a transaction, drains the pool, maybe recomputes the
  ranks, and commits.
* `teerank.cgi` (`cgi/`) is started once per request and only reads.  It sees
  what was last committed.
* `teerank-upgrade` (`upgrade/`) is run by hand, maybe several times, maybe while
  the others run, to copy the files of the previous release into the database.

| Component | State | Operations | Talks to |
|---|---|---|---|
| scheduler (`update/scheduler.c`) | a list of jobs sorted by date | `schedule`, `next_schedule`, `wait_until_next_schedule` | called by the update loop; clock, signals |
| pool (`update/pool.c`) | lists idle, pending, failed; a counter | `add_pool_entry`, `remove_pool_entry`, `poll_pool` | called by the update loop; sockets, clock |
| sockets, packets (`update/packet.c`) | two UDP sockets | `send_packet`, `recv_packet` | network |
| netclients (`update/netclient.c`) | a fixed array of slots, one per polled server or master | `add_netclient`, `remove_netclient` | each slot embeds a job and a pool entry |
| unpacker (`update/unpacker.c`) | a cursor in a packet | `unpack_server_info`, `unpack_server_addr` | called by handlers |
| update loop (`update/main.c`) | in-memory copies of servers and masters | handlers of answers and timeouts, references | all of the above, database |
| ranking (`update/rank.c`) | tables `pending`, `players`, `player_historic` | `rank_players`, `recompute_ranks` | called by the update loop; database |
| database (`core/`) | the SQLite file, prepared queries | `init_database`, `exec`, rows of players, servers, masters | every program |
| CGI requests (`cgi/cgi.c`, `cgi/route.c`) | none | URLs, routes, redirections, errors | pages, web server |
| pages (`cgi/page/`, `cgi/html.c`, `cgi/json.c`) | none | one function per page, links, navigation, the graph | database |
| upgrade (`upgrade/main.c`) | none | one copy of all players and servers, in a transaction | files of the previous release, database |

### What is hard in it

* **Network.**  UDP: requests and answers are lost, late, duplicated, or come
  from somebody who was not asked; `sendto()` may fail; several servers may
  share an address.  Lists are modified while they are walked.
* **Time.**  The process sleeps to a date computed from the first job only;
  ratings use the time between two answers; signals shorten sleeps.
* **Atomicity.**  The CGI reads between any two commits.  Elo scores, ranks and
  records are written by different statements, at different times, from a table
  of pending scores.
* **Crashes and errors.**  The in-memory copies and the database diverge within a
  round, and the process may be killed in any of its steps.  Most results of
  `exec()` are ignored, those of BEGIN and COMMIT among them.
* **Arithmetic.**  Truncated averages, signed totals divided by unsigned counts,
  clamped curves, page numbers, axes.
* **Names.**  A player or a clan may have any characters in its name; it goes
  through a link or a form, a URL, a route, a query or a pattern, and old URLs
  still have to work.

### What makes each component correct

* scheduler: the list is sorted, no job is lost or linked twice, no sleep passes
  a date, the job taken is due and none is more overdue.
* pool: an entry is in one list at most, the counter is right, requests
  outstanding are bounded, an entry is asked `MAX_RETRIES + 1` times before it
  is given up, what is returned is in the right list, a round ends.
* elo: who does better than a stronger player gains at least as much; points are
  conserved up to rounding; a winner never gains nothing; a new game is told
  from the current one.
* ranking: what is committed has ranks that follow elos, records that end with
  the elo shown; no gain is lost, none counted twice; no time of play is rated
  twice, not even after a crash.
* update loop: a client in use is either scheduled or polled, dates of the next
  polls stay bounded, references to masters follow their lists, the database
  agrees with the memory between rounds.
* database: it holds nothing or everything, is created once, is used only by
  programs of its version, and statements do not leak.
* upgrade: the database gets all of the files or nothing of them, players come with
  their historic, running it again takes back nothing, the indices are there.
* CGI: links lead where they say, old URLs too; every row of a list can be
  reached, who is searched is found; numbers agree with what is beside them.
* graph: both curves fit the axes they share, and labels stay off the curves.

## 2. The modules

| Module | Models | Kind |
|---|---|---|
| `SchedulerSpec` | what `scheduler.h` promises | abstract |
| `Scheduler` | `update/scheduler.c` | detailed, implements `SchedulerSpec` |
| `PoolSpec` | what `pool.h` promises | abstract |
| `Pool` | `update/pool.c`, and the loop and the network around it | detailed, implements `PoolSpec` |
| `Words` | what C makes of negative ints, unsigned operands and floats | operators |
| `Elo` | the arithmetic of `update/rank.c` | operators, uses `Words` |
| `Games` | `update_elos()` and `is_new_game()` on the answers of a server | uses `Elo` |
| `Ranking` | `update/rank.c` and its callers, on the database | uses `Elo` |
| `Updater` | `update/main.c`, `update/netclient.c`, rows of servers and masters | composes `SchedulerSpec` and `PoolSpec` |
| `Database` | `core/database.c`, `core/teerank.c`: creation, versions, statements | detailed |
| `Upgrade` | `upgrade/main.c`, and what it calls of `core/` | detailed, extends `Database` |
| `Selection` | rows of a query: some of a table, in an order | operators |
| `Addresses` | `update/unpacker.c` and `core/server.c`: addresses printed and parsed | operators, uses `Selection` |
| `Routes` | `cgi/cgi.c`, `cgi/route.c`, `cgi/routes.def` | operators, uses `Addresses` |
| `Pages` | `cgi/page/`, `cgi/html.c`, searches, and a reader | uses `Routes` |
| `Graph` | `cgi/page/graph.html.c` and the records it reads | detailed, uses `Words` |
| `MC*` | constants and symmetry for TLC; `MCFigures` puts `Games` and `Graph` side by side | |
| `ListLemmas` | lemmas on least elements, on lists, and on what folds make of them | proofs |
| `SchedulerProofs`, `PoolProofs`, `UpdaterProofs` | theorems about the module of that name | proofs |
| `RankingProofs` | theorems about `Ranking`, and about `Games` and `Graph`, with lemmas on sums | proofs |
| `RoutesProofs` | theorems about `Routes` and `Addresses`: what is encoded, printed and routed is read again | proofs |
| `PagesProofs` | theorems about `Pages`, upon `RoutesProofs` | proofs |
| `DatabaseProofs` | theorems about `Database` and about `Upgrade`, which extends it | proofs |

### Scheduler

`jobs` is the linked list, head first, and `date` the field of each `struct
job`.  `Schedule` is `schedule()`: `Position` is the loop that advances `pp`.
`NextSchedule` is a call of `next_schedule()` that returns a job;
`WaitUntilNextSchedule` computes the date the `sleep()` ends and sets `wake`, and
the process does nothing until the clock reaches it or `Interrupt` (a signal)
ends it.  Scheduling a job that is already in the list would link it twice; the
callers never do and the guard of `Schedule` says so.

### Pool

`idle`, `pending` and `failed` are the three lists, head first: an entry is
inserted at the head and taken for sending from the tail.  `poll_pool()` is cut
where it looks at the clock or the socket: `pc` says where it is, so that `Tick`,
`Arrive` and `Stray` happen between any two steps.  A step is one turn of a loop
(`AddPendingEntry` and `SendFails` for `fill_pending_list()`, `CleanExpired` and
`CleanSkip` for `clean_expired_pending_entries()`), or one return.  `clean` and
`refill` are the calls made by `next_failed_entry()`, `fill` and `cleanup` those of
`poll_pool()`.  `HandleServerPacket` and `HandleOther` are what `main.c` does
with what it is given, as far as the pool is concerned.  Packets are reduced to
their source address.

### Words, Elo, Games

`ComputeEloDelta` is the product `K * (W - p(delta))` converted to an `int`.  The
logistic curve is given by the differences at which the truncated product
changes (`WinSteps`, `DrawSteps`), which makes it exact for integer elos.
`Average` is a division of a signed total by an unsigned count, of which the
quotient is put in a float: `Unsigned` and `Float` of `Words` are the two
conversions, for a word of any size and a float that has 8 bits of precision less.
`Quotient` and `Remainder` are those of C for a positive divisor, truncated toward zero.
`Answer` of `Games` is one answer of a server whose players stay: either a new
game, or one rated.

### Ranking

A database is a record: the known players, their `elo`, `rank` and last date
`seen`, the tables `pending` and `historic` (the last record of each player), the
rows of the servers with their clients.  `db` is what is committed, `tx` what the
process sees and writes, `mem` its in-memory servers.  `HandleServerPacket` is
the whole of `handle_server_packet()` for an answer that can be unpacked:
`UpdatePlayers`, `RankPlayers` (with `LoadPlayers`, `RankablePlayers` and
`UpdateElos`), then the clients and the date written to memory and table.
`HandleBadPacket` is the same handler when unpacking fails.  `RecomputeRanks` is
`recompute_ranks()`: pending elos applied, ranks written in order, records
added, `pending` emptied.  `Restart` is a crash or an exit, and the start that
follows.  The fields that start with `_` do not exist in the program; they remember
the gains (`_ledger`, and `_applied` at the last recomputation), the games
(`_rated`), when the clients were captured, and who a walk did not reach (`_late`).

Two errors may happen at the end of a round.  `exec("COMMIT")` fails
(`CommitFails`): the transaction stays open and the next round goes on in it, its
`Begin` without effect, or SQLite has rolled it back, while `mem` keeps what the
round has learned.  Or the walk of `record_changes()` ends early, or its DELETE
fails (`RecomputeUnrecorded`): ranks and elos are committed, some records too, and
`pending` stays, to be walked by the next recomputation.

`is_already_loaded()` reads beyond the array it is given (it receives the first
free element): which entries it is fooled into dropping is any subset of those
after the first (`GarbageSets`).

### Updater

The loop of `update()`, upon what the scheduler and the pool promise: its actions
are conjunctions with those of `SchedulerSpec` (instance `Sched`) and `PoolSpec`
(instance `Pool`), which `Scheduler` and `Pool` are proved to implement.
`client` is what the slots of `netclients[]` hold, `free` the list `nextfree`; jobs and
pool entries are named by their slot.  `tx` and `db` are the rows of servers
and masters, as the process sees them and as committed.  `pc` is the place in
the loop: the test of `stop`, the call of `wait_until_next_schedule()` that follows it
(`"wait"`), the sleep, the inner loop that takes jobs, the loop that polls, and the loop of `handle_master_packet()`, of which
`ReferenceServer` is one turn.  `Start` is `main()` up to the loop, with the
clients in the order in which they get their slots, while there are any; `Crash` may strike anywhere
and leaves only `db`.  `AddToPool` changes `db` at once, because it runs before
BEGIN.  `Signal` may strike anywhere too: it interrupts a sleep that was entered, but at `"wait"`,
after the test, it only sets `stop`, and the whole sleep is slept (`Sleep`, `WakeUp`).
A master's packet lists any servers.  `HandleServerPacket` leaves out what
`Ranking` models of the same handler.

### Database

Several programs open the same file.  `exists`, `wal` and `db` are the file, `tx`
and `writer` the transaction of the one that creates it, `pc[p]` the place of a
program in `init_teerank()`.  Each statement is a step, since another program or
a crash may come between any two; the loops over tables and masters go one turn
at a time, with `done[p]` their index.  `stmt[p]` is the pair `prevquery` and `res`
of `exec()`, with a count of the statements SQLite still holds.  A statement ends
as expected or by an error of the system (a full disk, say), which with crashes
are the `troubles`.  SQLite itself is external: `Finalize`, `Prepare`, and who waits
for a lock (`Locked`).

### Upgrade

`Upgrade` extends `Database`: its program is one of `Programs`, the start of which
`Database` models, and another one is teerank-update, of which `Round` is a round
that writes a player.  `stage` is the place in `main()`; each statement is a step
(`Statement`) that succeeds, fails, or waits for the lock of the other writer and
then fails.  `data` is what everybody sees of the tables, `work` what the upgrade
sees in its transaction, `inside` whether BEGIN has opened one: when it has not, every
statement commits by itself, as in the code.  `ReadPlayer` and `WriteServer` take the
next file in any order, `UpgradeHistoric` is one record, and `KillUpgrade`, `NoDirectory`
and `EndUpgrade` are the ways it ends; it may then be started again.  `failed`
remembers what a statement was lost of.  The files are read by the library of the
previous release, which is not in the repository: `Players` and `Servers` are what it
reads.

### Addresses, Routes, Pages

`Select` and `SortedBy` of `Selection` stand for WHERE and ORDER BY.  Rows with
equal keys keep the order they have in the table; names have no alphabetical order here, so
clans of as many members come in the order of their first players.

A text is a sequence of symbols, of which the constant `Byte` gives the bytes, and
`UnsafeForUrls` is what `safe_for_urls()` refuses.  `ByteAssumption` says that two symbols
have two bytes, that only the end of a string is a zero, and that a blank is the byte 32,
as what browsers send for it.  `Addresses` follows an address from its bytes
(`IpText`) to a link (`BuildAddr`) and back (`ParseAddr`).  `Routes` has the coding of
names in URLs (`UrlEncode`, `JsonHexstring`) and its inverses, the cutting of a
path, and the tree of `routes.def` walked by `FindRoute`, extensions cut on the way
as the code cuts them in place.

In `Pages` a request is a process of its own.  `Request` takes the database of its
first query, `Generate` answers with `Serve` from that one and from the one of
its later queries, and `Commit` may come in between.  The page of a server makes three
kinds of queries: the server, its clients (`ReadClients`), and what the table of players
says of each of them (`show_client_list()`), with a commit between any two.
`Browse` is what a browser makes of a link before it asks for it: it resolves the directories
"." and "..", and sends blanks as "%20".  More than 8 directories or arguments are
answered by an error 414 (`MaxDirs`, `MaxArgs`).  An answer says what it is
about, its rows, the number it prints, and its links, each with the page it is
meant to lead to.  The reader starts from the URLs of `Typed`, searches among them,
and follows links; `walk` remembers the rows she saw by following Next from page 1.
`Search` is `main_html_search()`: `Found` is its query, `Like` the patterns of SQL,
`Relevance` the order, and `SearchCount` the query of the tab.
`IsDatabase` is what the tables are: rows with one name, or one address and port, are one
row, and the address of a server is one of `Hosts` as it was printed: `HostsAssumption` says that
those are 16 bytes and a port.  `DatabasesAssumption` and `TypedAssumption` say that the databases
are such tables, and that what is typed is an URL.  `MaxPage` stands for `UINT_MAX`, the greatest page number that is
parsed: far below it, the offset of a page, `(pnum - 1) * 100` (`player-list.html.c:64`), no longer fits
an unsigned, and what is shown are the rows of another page.

### Graph

`historic` is the table of records of one player, and `SvgGraph` the graph drawn
from it: `AddCurve` for the elos, then for the ranks, with `BestAxesGap`,
`NumberOfAxes` and `ScaleCurve` as in the code.  `YCoord` and `XCoord` are where
things are drawn, as exact fractions instead of floats; `AxeData` is the value of an
axis, and `PointLabelPos` the corner the label of a point is in.  Ratings put no floor under an
elo (`rank.c:306-308`), so elos of both signs are drawn: the minimum of a curve is rounded by the
remainder of C, which is negative for a negative minimum (`Rounded`, `graph.html.c:221`), while
`number_of_axes()` rounds it beside an unsigned (`CountedFrom`, `graph.html.c:146`).
`LIMIT` keeps the oldest 48 records.

## 3. What is checked

| Run | Instance | Shows |
|---|---|---|
| `scheduler` | 3 jobs, dates 0 to 3 | `SortedList`, `NoOversleep`, refinement `AbstractSpec` |
| `pool` | a master and two servers behind one address, window 2, 1 retry, 1 stray packet, 2 packets of buffer | `ListsExclusive`, `ReturnedEntry`, refinement `AbstractSpec`, liveness `RoundEnds` |
| `figures` | 3 players, 4 elos, 4 scores (one negative, one whose totals no float holds exactly), one answer after another; then 12 elos (2 negative), 5 ranks, 3 records of which 2 are drawn | `ConservedUpToRounding`, `BetterUnderdogGainsMore`, `DropIsNewGame`, `LabelsOnAxes`, `PointsInside`, `LabelsReadable` |
| `ranking` | 3 players, 2 servers, 3 kinds of answers, 4 packets, 3 dates, one failure | `RanksFollowElo`, `HistoricIsCurrent`, `NoGainLost`, `RatedOnce`, `PendingAppliedWhole` |
| `ranking_twins` | two clients of one name | violates `EnoughPlayers` |
| `updater` | 3 servers, a master, 3 slots, dates 3 to 5 | `NoClientLost`, `OneClientEach`, `DatesSaved`, `PolledSoon`, `RemovedSilent` |
| `updater_live` | a server, a master, dates 3 to 6 | liveness `EveryoneIsPolled`, `StopIsObeyed`, for signals caught anywhere, between the test of `stop` and `sleep()` too |
| `updater_reference` | a server, a master | violates `ReferencedByMaster` |
| `database` | 3 programs of two versions and a CGI, 2 tables, 2 masters, 2 errors or crashes | `CreatedWhole`, `OneStatement`, `CreatedOnce`, liveness `FirstRun` |
| `database_wait` | the same programs, no error | violates `WaitsForCreation` |
| `upgrade` | an updater and an upgrade, 2 players (one with 2 valid records of 4), a server with 2 clients, 2 errors or kills, 2 rounds | `UpgradedWhole`, `HistoricWhole`, `IndicesBack`, `KeepsNewer`, liveness `UpgradeEnds` |
| `pages` | 12 databases of up to 7 players and 4 servers, pages and searches of 2 rows (23,186 states) | `LinksLead`, `OldLinksLead`, `NextShowsAll`, `SearchFinds`, `ResultsCounted`, `ClientsCounted` |

**Bounds.**  Three jobs show every order of insertion, ties included, and dates
before, at and after the clock.  Three entries with a window of two make one
entry wait for the window, and two of them share an address, so that an answer
may be taken for another's; one retry shows the first and the last request; the
clock is the age of a request in ticks, and one tick is the whole second after
which it expires.  Three players make averages that are truncated; two elos near each other
and two far apart reach both ends of the curve.  Four packets are enough for two
games on one server, or one on each of two after their first answers, before and
after a recomputation and a crash.  `Word` is 2^16 instead of 2^32; it has to
exceed twice the totals of the scores, and a float is then exact up to 2^8, which the average of
three scores of 800 is beyond.  `MinRankable` is 2 instead of 4 and the intervals are one
unit, so that the interesting cases fit.  For `Updater`, delays are 1 or 2 and a
day is 2, which keeps their order; the clock starts beyond the longest delay,
as it does when it counts from 1970; a server can be created, seen, silent,
removed and created again within the dates of a run.  One try and one request
at a time are enough, since the retries and the window are checked in `Pool`.
Three slots for four clients leave somebody without one, at the start or in the
middle of a list, and are enough for a server to get two by mistake; all addresses
resolve.  One failure of `Ranking` is followed by crashes and rounds without any.
Two tables and two masters let a loop stop before, in and after its middle; two
troubles let a program fail while another is killed, or an upgrade be killed and fail
when it is run again.  The elos and ranks of `Graph` lie on both sides of the ranges
where the gap or the number of axes changes, up to 4000 apart, and two elos are below
zero, of which one is no multiple of the gaps.  Lists of `Pages` have no row, a full page, a partial
one, and up to three pages with one link on each side of the current one
(`Extra`, 3 in the code), so that first, last and neighbours are distinct; what is
searched is found in no name, in one, or in more than are shown.  Names
have a separator, an escape, an extension, blanks, a control character, only dots, or
nothing; addresses are of both kinds, with a port and bytes that do not survive.

**Fairness.**  `Pool` states its liveness property under `WF_vars(Poller)`: the
process is scheduled by the operating system and each of its steps ends,
`poll()` because it is given a timeout of a second.  Nothing is assumed of the
network or of the clock.  The bounds on unasked-for packets and on the packets
an answer is made of are what makes a round end; without them a flood of packets
could keep a master in the pool for ever.
`Database` assumes that a program that was started is run (weak fairness of
`Step(p)`, its own steps); that somebody starts one, or restarts it, is not
assumed.  `Upgrade` adds weak fairness of its own steps, `UpgradeStep`: its statements
return, with success or not, because those that wait for a lock have a busy timeout;
nothing is assumed of kills and errors, and of the rounds of the updater.
`Updater` assumes that the process runs and time passes (weak fairness), and that
each entry is sent and given up when that is possible again and again (strong
fairness): a master may answer any number of times, and `RoundEnds` of `Pool`
says that a round ends all the same.  Its properties speak of dates early
enough for the last delay to fit before `MaxTime`, and allow for crashes.

### Disagreements

* `updater_reference`: `write_server()` (called at `main.c:133` and `main.c:157`)
  writes the whole row from memory, with the master the server was loaded or
  created with.  What `unreference_servers()` has just removed, so that no
  dangling reference is kept (`main.c:283-286`), comes back with the next poll of
  the server.
* `database_wait`: `create_database()` returns at once when BEGIN EXCLUSIVE is
  refused (`database.c:260-261`; the busy timeout is set later), and in WAL mode
  nobody is kept from reading: the second program finds no table and exits,
  where the comment (`database.c:255-258`) says that it will quietly wait.
* `ranking_twins`: `load_players()` (`rank.c:139-140`) advances its pointer before
  it gives it to `is_already_loaded()`, so that duplicates are never found.
  Clients with the same name count several times, against the minimum of
  rankable players of `rank.c:232`.

Others were met while modelling.  They have no run of their own; each is part of
the model, and is a condition of the property named here, which holds only with
it.

* `is_new_game()` (`rank.c:186-187`) divides signed totals by an unsigned count, so
  that a negative total (a suicide costs a point) becomes a huge average, against
  `rank.c:165`: `DropIsNewGame` speaks of totals that are not negative.
* The averages are floats (`rank.c:186-189`), which are not exact from 2^24 on: there a drop of
  exactly three may be told as a new game, and a larger one not (`DropIsNewGame` speaks of
  averages below).
* `add_curve()` (`graph.html.c:221`) subtracts `ymin % gap`, which is negative for a negative
  minimum, so that the scale begins above it, although "We round down the minimum"
  (`graph.html.c:218`): with a gap of 2 an elo of -7 is drawn as one of -6, on the border.
  No elo has a floor (`rank.c:306-308`).  `PointsInside` says how far that goes: only an elo that is
  negative may be below its scale, by less than a gap.
* `number_of_axes()` (`graph.html.c:146`) takes the remainder of a negative minimum beside
  an unsigned, so it counts from what is no multiple of the gap, and may count one axis more than
  the scale that `add_curve()` makes needs (`NumberOfAxes`; the maximum is never beyond it, `PointsInside`).
* `handle_server_packet()` (`main.c:118-120`) refreshes the date of a server
  before it knows whether the packet is right, so that a later game may be rated
  over more than the time of `rank.c:210` (`HandleBadPacket` of `Ranking`).
* `raw_addr_to_strings()` (`unpacker.c:200`) pads the bytes of an IPv6 address with
  blanks: such a server is created and never polled (`Resolvable` in `Updater`), and
  its page cannot be asked, against `server.h:109`, "Adress can be parsed back with
  parse_addr()"; nor can that of a server on port 65535 (`LosesAddress` in `Pages`).
* `is_valid_ip()` accepts an IPv6 address that is cut short, against the comment
  above it (`server.c:107-110`).
* A page number too many is linked when the last page is full (`count / 100 + 1`),
  names that end with ".html" lose it, an empty name has no page, the links to one that is "." or ".." are
  resolved by the browser, since `url_encode()` leaves dots as they are, and a player
  seen once links to a server without an address (`DeadLink` in `Pages`).
* The number of clients of the JSON page of a server is read before the clients
  (`server.json.c:75`), so that a commit in between makes it wrong
  (`ClientsCounted` asks it only of pages read whole).
* A program killed between the creation of the file and the end of the
  transaction leaves an empty file, on which no program starts any more
  (`FirstRun` speaks of undisturbed starts).
* A second run of the upgrade overwrites the players that have no valid record, and
  all servers, whatever the rounds have made of them (`KeepsNewer` asks for a record);
  and a player whose records were inserted in part, outside of a transaction, is
  never upgraded, because the first record is then refused.
* The upgrade prints "Success" and exits with success whatever has failed
  (`upgrade/main.c:235`); when BEGIN has failed, a kill leaves half of the files in the
  database (`UpgradedWhole` speaks of runs where it has not).
* The tab of a search may announce more results than the 50 that are shown: the LIMIT
  of the count query (`search.html.c:78`) limits its only row (`ResultsCounted`).  Results
  of equal relevance come by the least elo first, so the best players are the ones
  left out; and a name with "%" or "_" in it is a pattern, which other names may match
  as well as itself (`SearchFinds`).
* The label of a single point is put on its right: `ndata - 1` is 0 then, so that its
  x is 0, although `graph.html.c:432` means to put the label of a point without a
  next one on the left.  `print_name()` (`graph.html.c:620`) reads the element after the
  last for the height of the name of the second curve.

## 4. What is proved

All theorems hold for every value of the constants that satisfies the named
assumptions.

* `SchedulerProofs`: `TypeCorrect`, `AlwaysSorted`, `NeverOversleeps`, and
  `Implements`, that every behaviour of `Scheduler` is one of `SchedulerSpec`.
  The invariant is the conjunction of the three; it is inductive as it stands,
  because the date of the first job is the least of a sorted list.  The place of
  insertion exists because a set of naturals has a least element
  (`LeastNatural`).
* `PoolProofs`: `TypeCorrect`, `AlwaysExclusive`, `AlwaysReturnedEntry`, and
  `Implements`, that every behaviour of `Pool` is one of `PoolSpec`.  The
  invariant adds to the properties that a failed entry has used all its
  retries, that `ret` is set exactly where the caller holds an entry, that
  nothing is pending or failed between two rounds, and that `Full` holds where
  `poll_pool()` may return NULL.  The proof is by lists first (one lemma for each
  step that moves an entry, upon `ListLemmas`), then by control.
* `RankingProofs`: `RanksAlwaysFollowElo`, `HistoricAlwaysCurrent`,
  `GainsNeverLost`, `PendingAlwaysAppliedWhole`.  None of the properties is
  inductive: a commit copies `tx` to `db`, so each must hold of `tx` too, also
  when a commit fails and the round goes on, or is rolled back: `IInv` is
  `Good(db) /\ Good(tx)`.  `Good(d)` puts together the shape of the tables, `Ranks`,
  `Historic`, `Ledger` and `Applied` (the table of elos is that of the last
  recomputation); one lemma for each operation on the database shows that it keeps it.  The proof does not look inside
  `ComputeNewElo`.  The end of a round is one lemma for every way it may go, upon a
  database that is `Good`.  `HistoricAlwaysCurrent` needs to know that who is late is
  still pending, and that a pending elo is the applied one unless a game came since.
* `AlwaysRatedOnce` needs a second invariant, `PInv`: the clients of a server,
  in memory, in the transaction and in the committed table, are never older
  than the last game rated on it there.  Memory is never behind the tables, but may be
  ahead of them after a rollback, which is harmless: the next game then starts later.

* `UpdaterProofs`: `NeverLost`, `AlwaysOneEach`, `AlwaysSaved`, `AlwaysSoon` and the action
  property `RemovedOnlySilent`, for any number of servers, masters, slots and dates.  They
  are upon what `SchedulerSpec` and `PoolSpec` promise, which `Scheduler` and `Pool` are proved
  to keep.  `UpdaterAssumption` says that servers and masters are finitely many, so that the
  rows can be put in an order, and that the clock starts beyond the longest delay.  One
  invariant, `IInv`, holds all of it (`Invariance`).  `NoClientLost` needs to know where the
  entry is that the pool has returned (`Returned`), and that a process that is not there
  holds nothing (`Stopped`).  `DatesSaved` is about the end of a round: `Agreed` says of any
  state that a client in memory has the dates of its row in the transaction.  `PolledSoon` must hold of
  the rows too, which a restart reads (`RowsSoon`).  `RemovedSilent` compares two committed
  databases, while `remove_server()` decides upon the client in memory: `Committed` says that the
  committed row of a server that waits for an answer has the date of its client, and that
  what a round has removed so far was silent for a day.
* `DatabaseProofs`: `AlwaysCreatedWhole`, `AlwaysCreatedOnce` and `AlwaysOneStatement`,
  for any number of programs, tables and masters (`DatabaseAssumption`: there is a table
  and a master, and no program or query is called "none").  `CreatedWhole` is not
  inductive: a commit makes of the file what the transaction holds.  `CInv` adds what
  that is at each place of `create_database()` (`Made`): the tables of the turns made so
  far, then the version, then the masters; that the file is empty once a table was created
  in it; and that a program that is creating has the lock (a running upgrade may have it too).  Four
  lemmas on the kinds of moves (`Moves`, `Writes`, `Ends`, `Turn`) leave to each action
  what is its own.  `CreatedOnce` is then a matter of `Commit` alone.  `SInv` is
  `OneStatement` with the shape of a statement, that the static result is NULL exactly
  when no query is kept, and needs `CInv` for the table that a turn of the loop names.

* `DatabaseProofs`, the upgrade: `AlwaysUpgradedWhole`, `AlwaysHistoricWhole`, `AlwaysIndicesBack` and the
  action property `NewerStays`, for any files, beside any number of programs that create, open or
  lose the database.  `CInv` is kept by what a running program does
  (`Beside`), and nobody else writes to a database in use (`UsedIsKept`).  Upon that, `PInv` is
  where the upgrade is: its transaction is the one of `main()`, unless BEGIN or
  COMMIT has failed, and the loops are within their bounds.  The rest is about rows.  `HInv`
  (for `HistoricWhole`): what everybody sees and what the transaction holds are both backed by
  records, and the records of the file the upgrade is at were inserted up to the current one.
  `NInv` (for `KeepsNewer`): a record that could be inserted was not in the database, so the
  player is not one that a round was about.  `WInv` (for `UpgradedWhole`): the database is
  untouched or copied, and in the transaction all files that `readdir()` has returned are
  done; the hard case is a record that is refused, which is then shown to be of an earlier
  upgrade (`Fresh`, `RefusedIsCopied`), so that its player is there already.
  `UpgradeAssumption` says what hexnames and files are: no two files give one name, since a hexname
  encodes a name that is shorter than NAME_LENGTH; a file has one record for a time; the valid
  records are a sequence of those of the file.
* `RankingProofs`, the elos: `AlwaysConserved`, `AlwaysGainsMore` and `AlwaysNewGame`, for any
  number of players.  A total is a recursive function of the community modules.  A lemma
  cannot have the property of an induction as its parameter, but it can have the set of the
  subsets that have it: `SmallerSets` is induction over a finite set in that form.  With it,
  the recursive definition has a value (`SumsExist`), which does not depend on the order of the
  elements (`SumOfAny`), is linear, and grows with what is added.  What two players
  take from each other cancels in the sum over all (`SumExchanged`), and only
  what each average loses by truncation remains (`QuotientIs`): less than a point per player.
  For `BetterUnderdogGainsMore`, a win is worth less the higher the winner was (`WinFalls`),
  never less than a draw (`WinOverDraw`), and it follows that the better underdog gains at
  least as much against every third player (`NeverLess`) and against each other (`NeverLoses`).  The invariant, `GamesInv`,
  says that an answer has left the elos alone, or has computed all of them from those before it.
  `AlwaysNewGame` is about totals that are not negative and averages that are below what a float
  holds exactly, as the property says: there the two conversions change nothing.
  `WordsAssumption` says that a word has values, and `GamesAssumption` that the totals are ints, of which
  one that is positive is less than half of a word; negative ones remain possible.
* `RankingProofs`, the graph: `AlwaysInside`, `AlwaysOnAxes` and `AlwaysReadable`, for any records.
  The invariant, `HistoricOk`, only says what records are; what is proved is about the two
  calls of `add_curve()`.  A curve `Spans` its axes when it has a gap between any two of
  them, one below the first and one above the last, and its values in between, but negative ones less
  than a gap below: the gap and the number of axes
  that are chosen for a curve make it so, and `ScaleCurve` keeps it so when the other curve wants
  more (`ScaledSpans`).  An axis is then at the same share of the height on both curves
  (`AxesMeet`), and clamping a value to the border (`HeightOf`, `Clamped`) keeps heights in order, so
  that a greater value is never drawn below a lesser one, which `CurveLabels` is upon.  `GraphAssumption` says that elos and ranks are ints, of either sign for elos, and
  bounds them and their differences by `MaxRange`: soon after, the product of `does_fit()` would not fit a
  word.  For a minimum that is negative, the rounded one may be above it and the one that
  axes are counted from below it, each by less than a gap; the axes are enough for the maximum all the same.

* `PagesProofs`, what is read: `ClientsCountedHolds`, `ResultsCountedHolds` and
  `SearchFindsHolds`, for any databases, URLs that are typed, sizes of pages and numbers of results.
  The invariant, `Reading`, says where an answer comes from: some URL was asked, and `Serve`
  made the answer of two databases: the one of its first query, and the one still committed, whose
  servers may be those of a database in between, when the clients were read from it.
  To keep it, every link of every page must be an URL again when it was sent and decoded, so a
  good part of the proof follows the texts that links are made of.  Texts and rows go
  through folds, which are recursive functions: `FoldExists` says, once, that a fold over the
  first numbers is the last of a series of values, each made of the one before it, and what is
  selected, sorted, joined, split, decoded or matched is then known step by step (`SelectedList`,
  `ListSorted`, `FlattenedList`, `SplitSteps`, `DecodeSteps`, `MatchSteps`).  `RouteFound` says that whatever
  path is asked, the walk through the tree of routes ends at one of its pages.
  `SearchFindsHolds` is upon the order of what is found (`FoundRanked`): a name matches itself as a
  pattern, whatever wildcards are in it (`LikeItself`), is then of the first relevance
  (`RelevantItself`), and no more than those of this relevance can come before it (`NamedFirst`).
* `PagesProofs`, the walk: `NextShowsAllHolds`.  The invariant, `Following`, says that who follows the
  links to the next pages, with no commit on the way, has seen the first `p * PageSize` rows of
  the list, and looks at the page whose next link is that of page `p + 1`.  It needs every such
  link to be answered by that page of that list (`ListServed`): the number is printed in decimal
  and read again (`DecimalRead`, `DecimalDecoded`), the path is cut at its slashes, decoded (`OneDir`,
  `TwoDirs`), and found among the routes before any route that would take it for a name
  (`SectionFound`, `LastSeenFound`).  At the end (`LastPage`) the page after the last one is not found only
  when its first row would be beyond the list.
* `RoutesProofs`: `NameDecoded`, `NameConverted` and `AddressRoundTrip`, for any names that `Byte`
  allows and any addresses.  Coding is a fold over symbols that remembers the escape it is in
  (`DecodesBy`), so a text is cut into pieces, each read as one character whatever comes before it
  (`Piece`), and a text made of pieces is read piece by piece (`DecodedFlat`).  An escaped byte is such
  a piece (`EscapedPiece`) because the digits are those of the byte (`HexRead`) and a byte has
  one symbol (`ByteSymbol`).  In hexadecimal a byte below 16 is padded with a blank, but a blank is
  read as the digit 0 (`HexPadding`).  An IPv4 text is told by its first dot, and `strtok()` cuts
  it into the four numbers it was printed from (`DottedRead`); of an IPv6 text only the form is
  known (`Pattern`), which is all that `is_valid_ip()` looks at (`PatternRead`).
* `PagesProofs`, the old links: `OldLinksLeadHolds`, for any databases, names and addresses that
  `LosesName` and `LosesAddress` do not except.  No invariant but `Reading` is needed, that what is
  committed is a database: what an old link is about is then a row of it, so its name is a
  name, and its address one of `Hosts`.  The proof follows the link twice.  What is sent is cut into the
  directories it was made of (`TwoSent`, `ThreeSent`, `OneName` to `ThreeNames`); no route before the right one takes
  them, neither the lists nor the pages in JSON (`RootInside`, `OldPlayerLeaf`, `OldPlayerInside` and their
  like); the page that is found redirects to the path of today (`OldPlayerServed`, `OldGraphServed`,
  `OldClanServed`, `OldServerServed`); and that path is served for the same name or address
  (`PlayerServed`, `GraphServed`, `ClanServed`, `ServerServed`).

No run repeats the type invariants that `TypeCorrect` proves of both components; the
other modules state none, and their runs ask the properties below of the state.

Model-checked only: `LinksLead` of `Pages`, and liveness (`RoundEnds`, `EveryoneIsPolled`, `StopIsObeyed`, `FirstRun`, `UpgradeEnds`), which is out of the prover's reach.
`LinksLead` says of each kind of link just when it is dead, so a proof would also be one of what a
lost name or address leads to instead; the links to the lists (`ListServed`), and those to a player,
a graph, a clan and a server that are not lost (`PlayerServed` and its like), are proved to lead.

## 5. What is assumed, and what is left out

* Inside a transaction of the update loop the statements that insert or update a
  single row succeed, and so do the reads (`get_latest_elo()`, the walk of
  `apply_pending_elo()`, and the two statements of `remove_server()`); SQLite
  does not roll back in the middle of a round.  COMMIT, the walk of the pending changes
  and their deletion fail in `Ranking`; every statement fails in `Database` and `Upgrade`.
* The files of the previous release can be read: what its library makes of a broken one
  is not in the repository.  A round of teerank-update is one step of `Upgrade`.
* A handler of `Updater` takes no time: `time(NULL)` gives one date in it.
* A browser resolves the directories "." and ".." of a link and sends its blanks as "%20", and changes
  nothing else in it; the web server gives the path as it was sent (`REQUEST_URI`).
* The queries of `show_client_list()`, one for each client, read one database.  A page of a list after
  the last one is shown only when rows are removed between the query that reads them and the one that
  counts them: its links, for which `print_page_nav()` subtracts below zero
  (`html.c:746`), are modelled (`After`), but no property is asked of a page that was not read whole.
* Servers of `Pages` are all vanilla ones, which the list shows; names fit their
  buffers.
* Left out: the bytes of packets, sockets, formatting and logging, the pages for
  status, sitemap and documentation (a constant text, but for the status of the masters),
  the counts in the tabs of lists, the zones, names and colours of the graph, and the
  configuration from the environment.

## 6. Plan

1. Done: scheduler, pool, elo, ranking, the update loop, creation of the database, the upgrade,
   and the theorems of each; addresses, routes and pages, with searches; the graph
   and what is drawn of it; commits and walks that fail.
2. Pages: `LinksLead`, for any names and addresses.
3. `Unpacker`: fields of a server info, headers and lengths of packets, and the
   list of addresses of a master.
4. Partial failures of `remove_server()` and of single rows inside a round.
5. The status page, and `foreach_row()` with two cursors.
