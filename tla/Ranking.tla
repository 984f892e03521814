-------------------------------- MODULE Ranking --------------------------------
(***************************************************************************)
(* update/rank.c and its callers in update/main.c, on the database.  The   *)
(* update process works in one SQL transaction per round of polling; the   *)
(* CGI reads what is committed at any time.  db is the committed database, *)
(* tx is what the update process sees, mem is its own copy of the servers. *)
(* The fields of the database that start with _ do not exist in it: they   *)
(* record history the properties are about.                                *)
(***************************************************************************)
EXTENDS Elo, Sequences, Functions

CONSTANTS Names,        \* player names, ordered as SQL orders them
          Servers,
          Infos,        \* what a server may answer: see InfosAssumption
          DefaultElo,   \* DEFAULT_ELO
          MinRankable,  \* fewest players of a rated game, 4
          MinElapsed,   \* 1 minute, in units of the model's clock
          MaxElapsed,   \* 30 minutes
          MaxTime,      \* bound on the clock
          MaxPackets,   \* bound on the packets handled
          MaxFailures   \* bound on the statements that fail

ASSUME InfosAssumption ==
    Infos \subseteq [clients : Seq([name : Names, score : Int, ingame : BOOLEAN]),
                     vanilla : BOOLEAN]

ASSUME RankingAssumption ==
    /\ Names \subseteq Nat
    /\ IsFiniteSet(Names)
    /\ DefaultElo \in Int
    /\ MinRankable \in Nat /\ MinRankable > 1
    /\ MinElapsed \in Nat \ {0} /\ MaxElapsed \in Nat
    /\ MaxTime \in Nat /\ MaxPackets \in Nat /\ MaxFailures \in Nat

VARIABLES db, tx, mem,
          open,     \* a transaction is open: the process is polling
          now,      \* time(NULL)
          packets,  \* packets handled so far
          failures  \* statements that failed so far

vars == <<db, tx, mem, open, now, packets, failures>>

Unranked == 0
Empty    == <<>>      \* the function with no argument: an empty table

-----------------------------------------------------------------------------

\* A server just created: NEVER_SEEN, without clients.
NewServer == [seen |-> 0, clients |-> Empty, _captured |-> 0]

EmptyDatabase ==
    [known    |-> {},
     elo      |-> [n \in Names |-> DefaultElo],
     rank     |-> [n \in Names |-> Unranked],
     seen     |-> [n \in Names |-> 0],
     pending  |-> Empty,
     historic |-> Empty,
     server   |-> [s \in Servers |-> NewServer],
     _ledger  |-> [n \in Names |-> DefaultElo],
     _applied |-> [n \in Names |-> DefaultElo],
     _late    |-> {},
     _rated   |-> {}]

\* get_latest_elo()
LatestElo(d, n) == IF n \in DOMAIN d.pending THEN d.pending[n] ELSE d.elo[n]

NamesOf(clients) == {clients[i].name : i \in 1..Len(clients)}
Nth(clients, n, last) ==
    LET at == {i \in 1..Len(clients) : clients[i].name = n}
    IN  IF last THEN Max(at) ELSE Min(at)

\* find_client() takes the first client of a name; the rows of server_clients
\* are inserted or replaced by name, so the last one stays.
FindClients(clients)  == [n \in NamesOf(clients) |-> clients[Nth(clients, n, FALSE)]]
WriteClients(clients) == [n \in NamesOf(clients) |-> clients[Nth(clients, n, TRUE)]]

-----------------------------------------------------------------------------

\* update_players(): unknown players are created, all are seen now.
UpdatePlayers(d, clients) ==
    [d EXCEPT !.known = @ \cup NamesOf(clients),
              !.seen  = [n \in Names |-> IF n \in NamesOf(clients) THEN now ELSE d.seen[n]]]

(***************************************************************************)
(* load_players(): the entries of new the array is made of.                *)
(* is_already_loaded() is given the first free element instead of the      *)
(* array: it never sees what is loaded, so duplicates are.  Past the first *)
(* element it also reads beyond the array, where anything may be found:    *)
(* garbage is the set of entries it is fooled into dropping.               *)
(***************************************************************************)
LoadPlayers(clients, garbage) == (1..Len(clients)) \ garbage

GarbageSets(clients) == SUBSET (2..Len(clients))

GetElapsedTime(old) == IF old.seen = 0 THEN 0 ELSE now - old.seen

\* mark_rankable_players(), for the loaded entries.
RankablePlayers(old, new, loaded) ==
    LET ingame == {i \in loaded : new.clients[i].name \in DOMAIN old.clients}
        scores == [i \in ingame |-> old.clients[new.clients[i].name].score]
        marked == {i \in ingame : new.clients[i].ingame}
    IN  IF /\ new.vanilla
           /\ ~IsNewGame(ingame, scores, [i \in ingame |-> new.clients[i].score])
           /\ GetElapsedTime(old) <= MaxElapsed
           /\ GetElapsedTime(old) >= MinElapsed
           /\ Cardinality(marked) >= MinRankable
          THEN marked
          ELSE {}

(***************************************************************************)
(* update_elos(): every gain is computed from the elos loaded, then the    *)
(* new elo scores are inserted or replaced in pending, in array order.     *)
(***************************************************************************)
UpdateElos(d, old, new, rankable, s) ==
    LET C       == new.clients
        elo     == [i \in rankable |-> LatestElo(d, C[i].name)]
        diff    == [i \in rankable |-> C[i].score - old.clients[C[i].name].score]
        rated   == {C[i].name : i \in rankable}
        last(n) == Max({i \in rankable : C[i].name = n})
    IN  [d EXCEPT
          !.pending = [n \in DOMAIN d.pending \cup rated |->
                         IF n \in rated
                           THEN ComputeNewElo(last(n), rankable, elo, diff)
                           ELSE d.pending[n]],
          !._ledger = [n \in Names |->
                         IF n \in rated
                           THEN d._ledger[n] + EloGain(last(n), rankable, elo, diff)
                           ELSE d._ledger[n]],
          !._rated  = IF rankable = {} THEN @ ELSE
                        @ \cup {[server |-> s, since |-> old._captured,
                                 to |-> now, names |-> rated]}]

RankPlayers(d, old, new, garbage, s) ==
    UpdateElos(d, old, new,
               RankablePlayers(old, new, LoadPlayers(new.clients, garbage)), s)

-----------------------------------------------------------------------------

\* Mutant of ApplyPendingElo: players without a rank yet are forgotten.
ApplyPendingEloRanked(d) ==
    [d EXCEPT !.elo      = [n \in Names |-> IF d.rank[n] = Unranked THEN d.elo[n]
                                                                  ELSE LatestElo(d, n)],
              !._applied = d._ledger]

\* apply_pending_elo()
ApplyPendingElo(d) == [d EXCEPT !.elo      = [n \in Names |-> LatestElo(d, n)],
                                !._applied = d._ledger]

\* Mutant of SortedBefore: the most recently seen first.
SortedBeforeSeen(d, p, q) ==
    \/ d.seen[p] > d.seen[q]
    \/ d.seen[p] = d.seen[q] /\ d.elo[p] > d.elo[q]
    \/ d.elo[p] = d.elo[q] /\ d.seen[p] = d.seen[q] /\ p > q

\* ORDER BY elo DESC, lastseen DESC, name DESC
SortedBefore(d, p, q) ==
    \/ d.elo[p] > d.elo[q]
    \/ d.elo[p] = d.elo[q] /\ d.seen[p] > d.seen[q]
    \/ d.elo[p] = d.elo[q] /\ d.seen[p] = d.seen[q] /\ p > q

\* The rank of a player is its place in that order.
IsRanking(d, r) ==
    /\ r \in Bijection(d.known, 1..Cardinality(d.known))
    /\ \A p, q \in d.known : SortedBefore(d, p, q) => r[p] < r[q]

WriteRanks(d, r) ==
    [d EXCEPT !.rank = [n \in Names |-> IF n \in d.known THEN r[n] ELSE d.rank[n]]]

\* Mutant of RecordChanges: what is pending is deleted although the walk failed.
RecordChangesForget(d, recorded, ended) ==
    [d EXCEPT !.historic = [n \in DOMAIN d.historic \cup recorded |->
                              IF n \in recorded
                                THEN [elo |-> d.elo[n], rank |-> d.rank[n]]
                                ELSE d.historic[n]],
              !.pending  = Empty,
              !._late    = DOMAIN d.pending \ recorded]

(***************************************************************************)
(* record_changes() walks the pending changes and records those players.   *)
(* The walk may be ended by an error: nothing is deleted then, and who was *)
(* not reached is late.  historic holds the last record of each player.    *)
(***************************************************************************)
RecordChanges(d, recorded, ended) ==
    [d EXCEPT !.historic = [n \in DOMAIN d.historic \cup recorded |->
                              IF n \in recorded
                                THEN [elo |-> d.elo[n], rank |-> d.rank[n]]
                                ELSE d.historic[n]],
              !.pending  = IF ended THEN Empty ELSE @,
              !._late    = IF ended THEN {} ELSE DOMAIN d.pending \ recorded]

\* recompute_ranks(), given the order it reads and how far it records.
RecomputeRanks(d, r, recorded, ended) ==
    RecordChanges(WriteRanks(ApplyPendingElo(d), r), recorded, ended)

-----------------------------------------------------------------------------

Init == /\ db = EmptyDatabase
        /\ tx = db
        /\ mem = db.server
        /\ open = FALSE
        /\ now \in 1..MaxTime
        /\ packets = 0
        /\ failures = 0

Tick == /\ now < MaxTime
        /\ now' = now + 1
        /\ UNCHANGED <<db, tx, mem, open, packets, failures>>

\* exec("BEGIN"), which fails and changes nothing when the last commit left
\* its transaction open: the round goes on in that transaction.
Begin == /\ ~open
         /\ open' = TRUE
         /\ UNCHANGED <<db, tx, mem, now, packets, failures>>

(***************************************************************************)
(* handle_server_packet() for an answer that unpack_server_info() accepts. *)
(***************************************************************************)
HandleServerPacket(s, new, garbage) ==
    LET server == [seen      |-> now,
                   clients   |-> FindClients(new.clients),
                   _captured |-> now]
    IN  /\ open
        /\ packets < MaxPackets
        /\ packets' = packets + 1
        /\ mem' = [mem EXCEPT ![s] = server]
        /\ tx' = [RankPlayers(UpdatePlayers(tx, new.clients), mem[s], new, garbage, s)
                    EXCEPT !.server[s] =
                       [server EXCEPT !.clients = WriteClients(new.clients)]]
        /\ UNCHANGED <<db, open, now, failures>>

\* ... and for one it does not: the server is seen, its clients are kept.
HandleBadPacket(s) ==
    /\ open
    /\ packets < MaxPackets
    /\ packets' = packets + 1
    /\ mem' = [mem EXCEPT ![s].seen = now]
    /\ tx' = [tx EXCEPT !.server[s].seen = now]
    /\ UNCHANGED <<db, open, now, failures>>

\* Mutant of Commit: the servers are not part of what is committed.
CommitPlayers(d) == /\ db' = [d EXCEPT !.server = db.server]
                    /\ tx' = d
                    /\ UNCHANGED failures

\* exec("COMMIT") of what the round has made of the database.
Commit(d) == /\ db' = d
             /\ tx' = d
             /\ UNCHANGED failures

\* It fails: the transaction stays open, or SQLite has rolled it back and
\* the servers in memory are ahead of their rows.  Nobody looks at the result.
CommitFails(d) == /\ failures < MaxFailures
                  /\ failures' = failures + 1
                  /\ db' = db
                  /\ tx' \in {d, db}

EndRound(d) == /\ open
               /\ open' = FALSE
               /\ Commit(d) \/ CommitFails(d)
               /\ UNCHANGED <<mem, now, packets>>

\* The end of a round, when recompute_ranks_job was not due ...
EndOfRound == EndRound(tx)

\* ... when it was ...
Recompute(r) == /\ IsRanking(ApplyPendingElo(tx), r)
                /\ EndRound(RecomputeRanks(tx, r, DOMAIN tx.pending, TRUE))

\* ... and when the walk of the pending changes, or their deletion, failed.
RecomputeUnrecorded(r, recorded) ==
    /\ open
    /\ failures < MaxFailures
    /\ failures' = failures + 1
    /\ IsRanking(ApplyPendingElo(tx), r)
    /\ tx' = RecomputeRanks(tx, r, recorded, FALSE)
    /\ db' = tx'
    /\ open' = FALSE
    /\ UNCHANGED <<mem, now, packets>>

\* The process ends anywhere; started again it loads the servers.
Restart == /\ tx' = db
           /\ mem' = db.server
           /\ open' = FALSE
           /\ UNCHANGED <<db, now, packets, failures>>

Next == \/ Tick \/ Begin \/ EndOfRound \/ Restart
        \/ \E s \in Servers : \/ HandleBadPacket(s)
                              \/ \E new \in Infos :
                                   \E garbage \in GarbageSets(new.clients) :
                                     HandleServerPacket(s, new, garbage)
        \/ \E r \in Bijection(tx.known, 1..Cardinality(tx.known)) :
               \/ Recompute(r)
               \/ \E recorded \in SUBSET DOMAIN tx.pending : RecomputeUnrecorded(r, recorded)

Spec == Init /\ [][Next]_vars

-----------------------------------------------------------------------------

(***************************************************************************)
(* What the comment that opens rank.c asks for: at any time a page is      *)
(* built, nobody has a better rank than somebody with more elo points.     *)
(* Ranks are the numbers from 1, given once; players created since the     *)
(* last computation have none.                                             *)
(***************************************************************************)
Ranked(d) == {n \in d.known : d.rank[n] # Unranked}

RanksFollowElo ==
    /\ \A p, q \in Ranked(db) : /\ db.elo[p] > db.elo[q] => db.rank[p] < db.rank[q]
                                /\ p # q => db.rank[p] # db.rank[q]
    /\ {db.rank[n] : n \in Ranked(db)} = 1..Cardinality(Ranked(db))

(***************************************************************************)
(* player_historic is up to date: the last record of a player, which ends  *)
(* the graph of his page, shows the elo shown beside his name, and a       *)
(* player without a record still has the elo he started with.  Whoever a   *)
(* failed walk did not reach is still pending, for the next one to record. *)
(***************************************************************************)
HistoricIsCurrent ==
    \A n \in db.known :
        \/ db.elo[n] = IF n \in DOMAIN db.historic THEN db.historic[n].elo ELSE DefaultElo
        \/ n \in db._late \cap DOMAIN db.pending

(***************************************************************************)
(* The points a player won and lost in every game rated are all in his     *)
(* elo, once: games of several servers between two recomputations build    *)
(* upon each other through pending, and a crash takes back the gains       *)
(* together with the games they come from.                                 *)
(***************************************************************************)
NoGainLost == \A d \in {db, tx} : \A n \in Names : LatestElo(d, n) = d._ledger[n]

(***************************************************************************)
(* No time of play is rated twice: the games rated on one server do not    *)
(* overlap, even after a restart, because the clients, the date they were  *)
(* seen and the points they gained are committed together.                 *)
(***************************************************************************)
RatedOnce == \A a, b \in db._rated :
                a # b /\ a.server = b.server => a.to <= b.since \/ b.to <= a.since

(***************************************************************************)
(* The table of pending changes is applied whole: the elos a page shows    *)
(* are those of one moment, with the points of every game rated until the  *)
(* last recomputation and of none after it, whatever was crashed, rolled   *)
(* back or rated in between.                                               *)
(***************************************************************************)
PendingAppliedWhole == db.elo = db._applied

(***************************************************************************)
(* rank.c:232: "We don't rank games with less than 4 rankable players."    *)
(***************************************************************************)
EnoughPlayers == \A g \in tx._rated : Cardinality(g.names) >= MinRankable
=============================================================================
