-------------------------------- MODULE Upgrade ---------------------------------
(***************************************************************************)
(* upgrade/main.c: teerank-upgrade copies the files of the previous        *)
(* release into the database, beside the start of the other programs       *)
(* (Database) and the rounds of teerank-update.  It is run again at will.  *)
(* The files are read by the library of the previous release, which is not *)
(* in the repository: Players and Servers are what it reads from them.     *)
(***************************************************************************)
EXTENDS Database, Selection

CONSTANTS Upgrader,    \* teerank-upgrade, one of Programs
          Updater,     \* teerank-update
          Players,     \* hexname |-> [elo, records], for every file of players/
          Servers,     \* address |-> clients, for every file of servers/
          InvalidElo,  \* TEERANK6_INVALID_ELO
          DefaultElo,  \* DEFAULT_ELO
          UpdateElo,   \* the elo a round gives
          NameLength,  \* NAME_LENGTH
          MaxRounds    \* bound on the rounds

VARIABLES stage,   \* where the upgrade is
          inside,  \* it is in the transaction BEGIN has opened
          left,    \* files readdir() has not returned yet
          at,      \* the file it is at
          data,    \* the rows every program sees
          work,    \* the rows in its transaction
          rounds,  \* rounds of teerank-update so far
          failed   \* history: what the upgrade lost a statement of

upgradeVars == <<stage, inside, left, at, data, work, rounds, failed>>
allVars == <<vars, upgradeVars>>

NoRows == [player   |-> <<>>,   \* name |-> [elo, by], by the program that wrote it
           historic |-> {},
           server   |-> {},     \* addresses of the upgraded servers
           clients  |-> {}]     \* rows of server_clients: <<address, name>>

(***************************************************************************)
(* hexname_to_name() decodes every pair of digits, up to NAME_LENGTH, and  *)
(* puts the end of the string over the last one: hexnames encode it too.   *)
(* A hexname is the sequence of the characters its pairs stand for.        *)
(***************************************************************************)
HexnameToName(hex) ==
    SubSeq(hex, 1, (IF Len(hex) < NameLength THEN Len(hex) ELSE NameLength) - 1)

\* The records upgrade_historic() does not skip.
ValidRecords(f) ==
    LET records == Players[f].records
    IN  Select(records, {i \in DOMAIN records : records[i].elo # InvalidElo /\ records[i].ranked})

UpgradedElo(f) == IF Players[f].elo = InvalidElo THEN DefaultElo ELSE Players[f].elo

\* A hexname encodes a name that is shorter than NAME_LENGTH, so that no two
\* files give one name, and a file has one record for a time.
ASSUME UpgradeAssumption ==
    /\ Upgrader \in Programs /\ Updater \in Programs /\ Upgrader # Updater
    /\ \A f, g \in DOMAIN Players : HexnameToName(f) = HexnameToName(g) => f = g
    /\ \A f \in DOMAIN Players :
         /\ ValidRecords(f) \in Seq(Elements(Players[f].records))
         /\ \A i, j \in DOMAIN ValidRecords(f) :
              ValidRecords(f)[i].time = ValidRecords(f)[j].time => i = j
    /\ \A s \in DOMAIN Servers : Servers[s] \in Seq(Elements(Servers[s]))

-----------------------------------------------------------------------------

UpgradeInit == /\ Init
               /\ stage = "off" /\ inside = FALSE
               /\ left = {} /\ at = <<>>
               /\ data = NoRows /\ work = NoRows
               /\ rounds = 0
               /\ failed = {}

(***************************************************************************)
(* A statement of the upgrade, about subject: it waits for the lock of     *)
(* another writer, or fails when that takes too long; in a transaction it  *)
(* keeps the lock.  One that is bound to fail loses nothing.               *)
(***************************************************************************)
Statement(query, subject, expected, outcome) ==
    /\ RunQuery(Upgrader, query, expected, outcome)
    /\ writer \in {None, Upgrader} \/ outcome = "step"
    /\ writer' = IF inside /\ writer = None /\ outcome = expected THEN Upgrader ELSE writer
    /\ failed' = IF outcome = expected THEN failed ELSE failed \cup {subject}
    /\ UNCHANGED <<exists, wal, tx, pc, rounds>>

\* The rows a statement of the upgrade sees ...
Seen == IF writer = Upgrader THEN work ELSE data

\* ... and those it leaves, for everyone when there is no transaction.
Write(rows, outcome) ==
    LET new == IF outcome = "ok" THEN rows ELSE Seen
    IN  /\ work' = IF writer' = Upgrader THEN new ELSE NoRows
        /\ data' = IF inside THEN data ELSE new

\* INSERT OR REPLACE INTO players: rows, and row for the player of that name.
WithPlayer(rows, name, row) ==
    [rows EXCEPT !.player = [n \in DOMAIN rows.player \cup {name} |->
                                IF n = name THEN row ELSE rows.player[n]]]

\* drop_all_indices(), whose errors are ignored.
DropAllIndices(outcome) ==
    /\ pc[Upgrader] = "running" /\ stage = "off"
    /\ Statement("DROP INDEX", <<"indices">>, IF db.indices THEN "ok" ELSE "prepare", outcome)
    /\ db' = [db EXCEPT !.indices = @ /\ outcome # "ok"]
    /\ done' = [done EXCEPT ![Upgrader] = 0]
    /\ stage' = "begin"
    /\ UNCHANGED <<inside, left, at, data, work>>

\* Mutant of BeginUpgrade: every statement is a transaction of its own.
BeginUpgradeNot(outcome) ==
    /\ stage = "begin"
    /\ Statement("BEGIN", <<"begin">>, "ok", outcome)
    /\ stage' = "players"
    /\ left' = DOMAIN Players
    /\ UNCHANGED <<db, done, inside, at, data, work>>

\* exec("BEGIN"), whose errors are ignored, and opendir().
BeginUpgrade(outcome) ==
    /\ stage = "begin"
    /\ Statement("BEGIN", <<"begin">>, "ok", outcome)
    /\ inside' = (outcome = "ok")
    /\ stage' = "players"
    /\ left' = DOMAIN Players
    /\ UNCHANGED <<db, done, at, data, work>>

\* Mutant of ReadPlayer: the files come back.
ReadPlayerAgain ==
    /\ stage = "players"
    /\ IF left = {}
         THEN /\ stage' = "servers"
              /\ left' = DOMAIN Servers
              /\ UNCHANGED at
         ELSE \E f \in left :
                /\ at' = f
                /\ left' = left
                /\ stage' = IF ValidRecords(f) = <<>> THEN "player" ELSE "historic"
    /\ UNCHANGED <<file, writer, tx, pc, done, stmt, troubles, inside, data, work, rounds, failed>>

\* The loop of upgrade_players(): readdir() returns the files in any order.
ReadPlayer ==
    /\ stage = "players"
    /\ IF left = {}
         THEN /\ stage' = "servers"
              /\ left' = DOMAIN Servers
              /\ UNCHANGED at
         ELSE \E f \in left :
                /\ at' = f
                /\ left' = left \ {f}
                /\ stage' = IF ValidRecords(f) = <<>> THEN "player" ELSE "historic"
    /\ UNCHANGED <<file, writer, tx, pc, done, stmt, troubles, inside, data, work, rounds, failed>>

\* Mutant of UpgradeHistoric: a record that fails is skipped.
UpgradeHistoricSkips(outcome) ==
    LET n == HexnameToName(at)
        r == ValidRecords(at)[done[Upgrader] + 1]
        known == \E h \in Seen.historic : h.name = n /\ h.time = r.time
    IN  /\ stage = "historic"
        /\ Statement("INSERT INTO player_historic", at, IF known THEN "step" ELSE "ok", outcome)
        /\ Write([Seen EXCEPT !.historic = @ \cup {[name |-> n, time |-> r.time, elo |-> r.elo]}],
                 outcome)
        /\ done' = [done EXCEPT ![Upgrader] = (@ + 1) % Len(ValidRecords(at))]
        /\ stage' = IF done'[Upgrader] = 0 THEN "player" ELSE "historic"
        /\ UNCHANGED <<db, inside, left, at>>

\* Mutant of UpgradeHistoric: INSERT OR REPLACE.
UpgradeHistoricReplaces(outcome) ==
    LET n == HexnameToName(at)
        r == ValidRecords(at)[done[Upgrader] + 1]
    IN  /\ stage = "historic"
        /\ Statement("INSERT INTO player_historic", at, "ok", outcome)
        /\ Write([Seen EXCEPT !.historic = @ \cup {[name |-> n, time |-> r.time, elo |-> r.elo]}],
                 outcome)
        /\ done' = [done EXCEPT ![Upgrader] = IF outcome = "ok" THEN (@ + 1) % Len(ValidRecords(at))
                                                                ELSE 0]
        /\ stage' = IF outcome # "ok" THEN "players"
                    ELSE IF done'[Upgrader] = 0 THEN "player" ELSE "historic"
        /\ UNCHANGED <<db, inside, left, at>>

\* One turn of the loop of upgrade_historic(), which ends at the first error:
\* main() does not write the player then.
UpgradeHistoric(outcome) ==
    LET n == HexnameToName(at)
        r == ValidRecords(at)[done[Upgrader] + 1]
        known == \E h \in Seen.historic : h.name = n /\ h.time = r.time
    IN  /\ stage = "historic"
        /\ Statement("INSERT INTO player_historic", at, IF known THEN "step" ELSE "ok", outcome)
        /\ Write([Seen EXCEPT !.historic = @ \cup {[name |-> n, time |-> r.time, elo |-> r.elo]}],
                 outcome)
        /\ done' = [done EXCEPT ![Upgrader] = IF outcome = "ok" THEN (@ + 1) % Len(ValidRecords(at))
                                                                ELSE 0]
        /\ stage' = IF outcome # "ok" THEN "players"
                    ELSE IF done'[Upgrader] = 0 THEN "player" ELSE "historic"
        /\ UNCHANGED <<db, inside, left, at>>

\* write_player(), whatever row the player has already.
WritePlayer(outcome) ==
    LET row == [elo |-> UpgradedElo(at), by |-> Upgrader]
    IN  /\ stage = "player"
        /\ Statement("INSERT INTO players", at, "ok", outcome)
        /\ Write(WithPlayer(Seen, HexnameToName(at), row), outcome)
        /\ stage' = "players"
        /\ UNCHANGED <<db, done, inside, left, at>>

\* The loop of upgrade_servers(), and write_server(), whose errors are ignored.
WriteServer(outcome) ==
    /\ stage = "servers" /\ left # {}
    /\ \E s \in left :
         /\ at' = s
         /\ left' = left \ {s}
         /\ Statement("INSERT INTO servers", s, "ok", outcome)
         /\ Write([Seen EXCEPT !.server = @ \cup {s}], outcome)
    /\ stage' = "flush"
    /\ UNCHANGED <<db, done, inside>>

\* flush_server_clients(): write_server_clients() returns when it fails.
FlushServerClients(outcome) ==
    /\ stage = "flush"
    /\ Statement("DELETE FROM server_clients", at, "ok", outcome)
    /\ Write([Seen EXCEPT !.clients = {c \in @ : c[1] # at}], outcome)
    /\ stage' = IF outcome = "ok" /\ Servers[at] # <<>> THEN "clients" ELSE "servers"
    /\ UNCHANGED <<db, done, inside, left, at>>

\* One turn of the loop of write_server_clients(), which goes on after an error.
WriteServerClient(outcome) ==
    /\ stage = "clients"
    /\ Statement("INSERT INTO server_clients", at, "ok", outcome)
    /\ Write([Seen EXCEPT !.clients = @ \cup {<<at, Servers[at][done[Upgrader] + 1]>>}], outcome)
    /\ done' = [done EXCEPT ![Upgrader] = (@ + 1) % Len(Servers[at])]
    /\ stage' = IF done'[Upgrader] = 0 THEN "servers" ELSE "clients"
    /\ UNCHANGED <<db, inside, left, at>>

\* Mutant of CommitUpgrade: an error ends the program.
CommitUpgradeChecked(outcome) ==
    LET expected == IF inside THEN "ok" ELSE "step"
    IN  /\ stage = "servers" /\ left = {}
        /\ RunQuery(Upgrader, "COMMIT", expected, outcome)
        /\ IF outcome = "ok"
             THEN /\ data' = Seen /\ work' = NoRows /\ inside' = FALSE
                  /\ writer' = IF writer = Upgrader THEN None ELSE writer
             ELSE UNCHANGED <<data, work, inside, writer>>
        /\ failed' = IF outcome = expected THEN failed ELSE failed \cup {<<"commit">>}
        /\ stage' = IF outcome = "ok" THEN "indices" ELSE "ended"
        /\ UNCHANGED <<file, tx, pc, done, left, at, rounds>>

\* exec("COMMIT"), whose errors are ignored: the transaction, if any, stays open.
CommitUpgrade(outcome) ==
    LET expected == IF inside THEN "ok" ELSE "step"
    IN  /\ stage = "servers" /\ left = {}
        /\ RunQuery(Upgrader, "COMMIT", expected, outcome)
        /\ IF outcome = "ok"
             THEN /\ data' = Seen /\ work' = NoRows /\ inside' = FALSE
                  /\ writer' = IF writer = Upgrader THEN None ELSE writer
             ELSE UNCHANGED <<data, work, inside, writer>>
        /\ failed' = IF outcome = expected THEN failed ELSE failed \cup {<<"commit">>}
        /\ stage' = "indices"
        /\ UNCHANGED <<file, tx, pc, done, left, at, rounds>>

\* create_all_indices(), lost with a transaction that is not committed.
CreateAllIndicesAgain(outcome) ==
    /\ stage = "indices"
    /\ Statement("CREATE INDEX", <<"indices">>, IF db.indices THEN "prepare" ELSE "ok", outcome)
    /\ db' = [db EXCEPT !.indices = @ \/ (outcome = "ok" /\ ~inside)]
    /\ stage' = "ended"
    /\ UNCHANGED <<done, inside, left, at, data, work>>

\* The process ends: its transaction is rolled back.
Leave == /\ writer' = IF writer = Upgrader THEN None ELSE writer
         /\ stage' = "off" /\ inside' = FALSE
         /\ left' = {} /\ at' = <<>>
         /\ work' = NoRows
         /\ UNCHANGED <<data, rounds, failed>>

EndUpgrade == /\ stage = "ended"
              /\ Leave
              /\ stmt' = [stmt EXCEPT ![Upgrader] = DestroyQuery(@)]
              /\ Goto(Upgrader, "off")
              /\ UNCHANGED <<file, tx, done, troubles>>

\* A directory of files is missing or cannot be read: exit(EXIT_FAILURE).
NoDirectory == /\ \/ stage = "players" /\ left = DOMAIN Players
                  \/ stage = "servers" /\ left = DOMAIN Servers
               /\ troubles < MaxTroubles
               /\ troubles' = troubles + 1
               /\ Leave
               /\ stmt' = [stmt EXCEPT ![Upgrader] = DestroyQuery(@)]
               /\ Goto(Upgrader, "failed")
               /\ UNCHANGED <<file, tx, done>>

\* The upgrade is killed while it runs.
KillUpgrade == /\ pc[Upgrader] = "running"
               /\ troubles < MaxTroubles
               /\ troubles' = troubles + 1
               /\ Leave
               /\ stmt' = [stmt EXCEPT ![Upgrader] = NoStatement]
               /\ Goto(Upgrader, "off")
               /\ UNCHANGED <<file, tx, done>>

\* A round of teerank-update has rated a player.  The record it makes is
\* later than those of the files, and left out.
Round(n) ==
    /\ pc[Updater] = "running"
    /\ writer = None
    /\ rounds < MaxRounds
    /\ rounds' = rounds + 1
    /\ data' = WithPlayer(data, n, [elo |-> UpdateElo, by |-> Updater])
    /\ UNCHANGED <<vars, stage, inside, left, at, work, failed>>

UpgradeStep ==
    \/ ReadPlayer \/ EndUpgrade
    \/ \E outcome \in {"ok", "prepare", "step"} :
           \/ DropAllIndices(outcome)
           \/ BeginUpgrade(outcome)
           \/ UpgradeHistoric(outcome)
           \/ WritePlayer(outcome)
           \/ WriteServer(outcome)
           \/ FlushServerClients(outcome)
           \/ WriteServerClient(outcome)
           \/ CommitUpgrade(outcome)
           \/ CreateAllIndicesAgain(outcome)

\* The other programs, and the upgrade until it runs.
Start(p) ==
    /\ \/ Open(p) \/ Step(p) \/ BusyTimeout(p) \/ StartAgain(p)
       \/ p # Upgrader /\ CloseDatabase(p)
       \/ (p # Upgrader \/ pc[p] # "running") /\ Crash(p)
    /\ UNCHANGED upgradeVars

UpgradeNext == \/ \E p \in Programs : Start(p)
               \/ UpgradeStep \/ NoDirectory \/ KillUpgrade
               \/ \E f \in DOMAIN Players : Round(HexnameToName(f))

UpgradeSpec ==
    /\ UpgradeInit /\ [][UpgradeNext]_allVars
    /\ \A p \in Programs : WF_allVars(Step(p) /\ UNCHANGED upgradeVars)
    /\ WF_allVars(UpgradeStep)

-----------------------------------------------------------------------------

OldRecords(f) == {[name |-> HexnameToName(f), time |-> r.time, elo |-> r.elo] :
                    r \in Elements(ValidRecords(f))}

\* Nothing of the files is in the database.
Untouched == /\ \A n \in DOMAIN data.player : data.player[n].by # Upgrader
             /\ data.historic = {} /\ data.server = {} /\ data.clients = {}

(***************************************************************************)
(* Wherever the upgrade is killed, and however often it is run again, the  *)
(* database holds nothing of the files or everything, but for the players  *)
(* and servers a statement has failed for.                                 *)
(***************************************************************************)
UpgradedWhole ==
    \/ <<"begin">> \in failed
    \/ Untouched
    \/ /\ \A f \in DOMAIN Players \ failed :
            LET n == HexnameToName(f)
            IN  /\ n \in DOMAIN data.player
                /\ data.player[n].elo \in {UpgradedElo(f), UpdateElo}
                /\ OldRecords(f) \subseteq data.historic
       /\ \A s \in DOMAIN Servers \ failed :
            /\ s \in data.server
            /\ \A c \in Elements(Servers[s]) : <<s, c>> \in data.clients

(***************************************************************************)
(* A player who comes from the files comes with all of his records, even   *)
(* when statements fail and outside of a transaction: upgrade_historic()   *)
(* goes first, and its result decides.                                     *)
(***************************************************************************)
HistoricWhole ==
    \A f \in DOMAIN Players :
        LET n == HexnameToName(f)
        IN  n \in DOMAIN data.player /\ data.player[n].by = Upgrader
              => OldRecords(f) \subseteq data.historic

(***************************************************************************)
(* Once a player with records is in the database, running the upgrade      *)
(* again never takes back what rounds have made of him since: his records  *)
(* are refused, so he is not written.                                      *)
(***************************************************************************)
KeepsNewer ==
    [][\A f \in DOMAIN Players :
         LET n == HexnameToName(f)
         IN  /\ n \in DOMAIN data.player /\ data.player[n].by = Updater
             /\ OldRecords(f) \cap data.historic # {}
             /\ <<"begin">> \notin failed
             => data'.player[n].by = Updater]_allVars

(***************************************************************************)
(* The indices dropped before the transaction are back when an upgrade     *)
(* ends without an error, also the one run after another was killed.       *)
(***************************************************************************)
IndicesBack == stage = "ended" /\ {<<"indices">>, <<"commit">>} \cap failed = {} => db.indices

\* The copy ends, whoever else holds the lock, unless it is killed.
UpgradeEnds == stage = "begin" ~> stage \in {"ended", "off"}
=============================================================================
