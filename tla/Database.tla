------------------------------- MODULE Database --------------------------------
(***************************************************************************)
(* The start of the programs of teerank, core/database.c and core/teerank.c: *)
(* each opens the database, a program that may write creates it when there *)
(* is none, and all compare its version with theirs before they use it.    *)
(* Programs are started at any time, together or again, and are killed     *)
(* anywhere; a statement may fail.                                         *)
(***************************************************************************)
EXTENDS Integers, FiniteSets, Sequences

CONSTANTS Programs,    \* processes: teerank-update, teerank.cgi, teerank-upgrade
          ReadOnly,    \* those that call init_teerank(1)
          Version,     \* DATABASE_VERSION each of them was built with
          Tables,      \* names of the tables, in the order of queries[]
          Masters,     \* names of DEFAULT_MASTERS, in order
          MaxTroubles  \* bound on the statements that fail and processes killed

Elements(seq) == {seq[i] : i \in DOMAIN seq}

\* No program and no query.
None == "none"

ASSUME DatabaseAssumption == /\ ReadOnly \subseteq Programs /\ None \notin Programs
                             /\ Version \in [Programs -> Nat \ {0}]
                             /\ Tables \in Seq(STRING) /\ Masters \in Seq(STRING)
                             /\ Tables # <<>> /\ Masters # <<>>
                             /\ None \notin Elements(Tables)
                             /\ MaxTroubles \in Nat

\* What is in the file; version 0 is an empty table of versions.
EmptyFile == [tables |-> {}, version |-> 0, masters |-> {}, indices |-> FALSE]

VARIABLES exists,    \* whether there is a file
          wal,       \* whether it is in WAL mode
          db,        \* its committed content
          writer,    \* the program in an exclusive transaction
          tx,        \* what that program has made of the content
          pc,        \* where each program is
          done,      \* queries each has run in the loop it is in
          stmt,      \* the statement kept by exec() in each program
          troubles

file == <<exists, wal, db>>
vars == <<exists, wal, db, writer, tx, pc, done, stmt, troubles>>

-----------------------------------------------------------------------------
\* The static variables prevquery and res of _exec(), and the number of
\* statements prepared and not finalized.

NoStatement == [prevquery |-> None, res |-> "NULL", live |-> 0]

\* sqlite3_finalize(), which ignores NULL.
Finalize(s) == [s EXCEPT !.live = IF s.res = "NULL" THEN @ ELSE @ - 1]

\* sqlite3_prepare_v2(), which returns NULL when it fails.
Prepare(s, query, ok) ==
    IF ok THEN [prevquery |-> query, res |-> "ready", live |-> s.live + 1]
          ELSE [prevquery |-> None, res |-> "NULL", live |-> s.live]

\* Mutant of PrepareQuery: the previous statement is forgotten.
PrepareQueryLeaks(s, query, ok) ==
    IF s.prevquery = query /\ s.res # "error" THEN [s EXCEPT !.res = "ready"]
                                              ELSE Prepare(s, query, ok)

\* prepare_query(): the same query is reset and used again, unless its last
\* step failed, which makes sqlite3_reset() fail as well.
PrepareQuery(s, query, ok) ==
    IF s.prevquery = query /\ s.res # "error"
      THEN [s EXCEPT !.res = "ready"]
      ELSE Prepare(IF s.prevquery # None THEN Finalize(s) ELSE s, query, ok)

\* _exec(): its result is outcome = "ok"; it fails to prepare or to step.
Exec(s, query, outcome) ==
    LET prepared == PrepareQuery(s, query, outcome # "prepare")
    IN  IF outcome = "step" THEN [prepared EXCEPT !.res = "error"] ELSE prepared

\* exec(NULL)
DestroyQuery(s) == [Finalize(s) EXCEPT !.prevquery = None, !.res = "NULL"]

-----------------------------------------------------------------------------

Init == /\ exists = FALSE
        /\ wal = FALSE
        /\ db = EmptyFile
        /\ writer = None
        /\ tx = EmptyFile
        /\ pc = [p \in Programs |-> "off"]
        /\ done = [p \in Programs |-> 0]
        /\ stmt = [p \in Programs |-> NoStatement]
        /\ troubles = 0

Goto(p, place) == pc' = [pc EXCEPT ![p] = place]

\* exec(): a query ends as expected, or by an error of the system.
RunQuery(p, query, expected, outcome) ==
    /\ outcome \in {expected, "step"}
    /\ outcome # expected => troubles < MaxTroubles
    /\ troubles' = IF outcome = expected THEN troubles ELSE troubles + 1
    /\ stmt' = [stmt EXCEPT ![p] = Exec(@, query, outcome)]

\* A program starts: sqlite3_open_v2() without SQLITE_OPEN_CREATE.
Open(p) ==
    /\ pc[p] = "off"
    /\ Goto(p, IF exists THEN "opened" ELSE IF p \in ReadOnly THEN "failed" ELSE "create")
    /\ UNCHANGED <<file, writer, tx, done, stmt, troubles>>

\* create_database(): opened again, with SQLITE_OPEN_CREATE this time.
CreateFile(p) ==
    /\ pc[p] = "create"
    /\ exists' = TRUE
    /\ Goto(p, "pragma")
    /\ UNCHANGED <<wal, db, writer, tx, done, stmt, troubles>>

\* The mode cannot be changed under a transaction; nobody looks at the result.
SetWAL(p, outcome) ==
    /\ pc[p] = "pragma"
    /\ RunQuery(p, "PRAGMA", IF wal \/ writer = None THEN "ok" ELSE "step", outcome)
    /\ wal' = (wal \/ outcome = "ok")
    /\ Goto(p, "begin")
    /\ UNCHANGED <<exists, db, writer, tx, done>>

\* Mutant of BeginExclusive: two programs may create at the same time.
BeginExclusiveShared(p) ==
    /\ pc[p] = "begin"
    /\ writer' = p
    /\ tx' = IF writer = None THEN db ELSE tx
    /\ done' = [done EXCEPT ![p] = 0]
    /\ Goto(p, "tables")
    /\ UNCHANGED <<file, stmt, troubles>>

\* Somebody else holds the lock: create_database() returns at once, with 1.
BeginExclusive(p) ==
    /\ pc[p] = "begin"
    /\ IF writer = None
         THEN /\ writer' = p
              /\ tx' = db
              /\ done' = [done EXCEPT ![p] = 0]
              /\ Goto(p, "tables")
         ELSE /\ Goto(p, "opened")
              /\ UNCHANGED <<writer, tx, done>>
    /\ UNCHANGED <<file, stmt, troubles>>

\* One turn of the loop over queries[]; a table that exists is an error.
CreateTable(p, outcome) ==
    LET table == Tables[done[p] + 1]
    IN  /\ pc[p] = "tables"
        /\ RunQuery(p, table, IF table \in tx.tables THEN "prepare" ELSE "ok", outcome)
        /\ IF outcome = "ok"
             THEN /\ tx' = [tx EXCEPT !.tables = @ \cup {table}]
                  /\ done' = [done EXCEPT ![p] = (@ + 1) % Len(Tables)]
                  /\ Goto(p, IF done'[p] = 0 THEN "version" ELSE "tables")
             ELSE /\ Goto(p, "rollback")
                  /\ UNCHANGED <<tx, done>>
        /\ UNCHANGED <<file, writer>>

InitVersionTable(p, outcome) ==
    /\ pc[p] = "version"
    /\ RunQuery(p, "INSERT INTO version", "ok", outcome)
    /\ IF outcome = "ok"
         THEN tx' = [tx EXCEPT !.version = Version[p]] /\ Goto(p, "masters")
         ELSE tx' = tx /\ Goto(p, "rollback")
    /\ UNCHANGED <<file, writer, done>>

\* Mutant of InitMastersTable: only the last insertion is looked at.
InitMastersTableLast(p, outcome) ==
    /\ pc[p] = "masters"
    /\ RunQuery(p, "INSERT INTO masters", "ok", outcome)
    /\ tx' = IF outcome = "ok" THEN [tx EXCEPT !.masters = @ \cup {Masters[done[p] + 1]}]
                               ELSE tx
    /\ done' = [done EXCEPT ![p] = (@ + 1) % Len(Masters)]
    /\ Goto(p, IF done'[p] # 0 THEN "masters"
               ELSE IF outcome = "ok" THEN "indices" ELSE "rollback")
    /\ UNCHANGED <<file, writer>>

\* One turn of the loop of init_masters_table(), which goes on after an
\* error and returns whether there was none.
InitMastersTable(p, outcome) ==
    /\ pc[p] = "masters"
    /\ RunQuery(p, "INSERT INTO masters", "ok", outcome)
    /\ tx' = IF outcome = "ok" THEN [tx EXCEPT !.masters = @ \cup {Masters[done[p] + 1]}]
                               ELSE tx
    /\ done' = [done EXCEPT ![p] = (@ + 1) % Len(Masters)]
    /\ Goto(p, IF done'[p] # 0 THEN "masters"
               ELSE IF tx'.masters = Elements(Masters) THEN "indices" ELSE "rollback")
    /\ UNCHANGED <<file, writer>>

\* create_all_indices(), whose errors are ignored.
CreateAllIndices(p, outcome) ==
    /\ pc[p] = "indices"
    /\ RunQuery(p, "CREATE INDEX", "ok", outcome)
    /\ tx' = [tx EXCEPT !.indices = (outcome = "ok")]
    /\ Goto(p, "commit")
    /\ UNCHANGED <<file, writer, done>>

Commit(p, outcome) ==
    /\ pc[p] = "commit"
    /\ RunQuery(p, "COMMIT", "ok", outcome)
    /\ IF outcome = "ok"
         THEN /\ db' = tx
              /\ tx' = EmptyFile
              /\ writer' = None
              /\ Goto(p, "opened")
         ELSE /\ Goto(p, "rollback")
              /\ UNCHANGED <<db, tx, writer>>
    /\ UNCHANGED <<exists, wal, done>>

\* create_database() returns 0 and the program exits: the file remains.
Rollback(p) ==
    /\ pc[p] = "rollback"
    /\ stmt' = [stmt EXCEPT ![p] = Exec(@, "ROLLBACK", "ok")]
    /\ tx' = EmptyFile
    /\ writer' = None
    /\ Goto(p, "failed")
    /\ UNCHANGED <<file, done, troubles>>

\* Without WAL, the exclusive transaction of a program that creates the
\* database keeps the others from reading.
Locked(p) == ~wal /\ writer \notin {None, p} /\ pc[writer] # "running"

\* database_version() and the checks of init_teerank(): the program exits
\* when there is no table of versions, or when it holds another version.
DatabaseVersion(p) ==
    /\ pc[p] = "opened"
    /\ ~Locked(p)
    /\ Goto(p, IF Head(Tables) \in db.tables /\ db.version = Version[p]
                 THEN "running" ELSE "failed")
    /\ UNCHANGED <<file, writer, tx, done, stmt, troubles>>

\* sqlite3_busy_timeout(): the wait for the lock ends with an error.
BusyTimeout(p) ==
    /\ pc[p] = "opened"
    /\ Locked(p)
    /\ Goto(p, "failed")
    /\ UNCHANGED <<file, writer, tx, done, stmt, troubles>>

\* close_database(), called when the program exits.
CloseDatabase(p) ==
    /\ pc[p] = "running"
    /\ stmt' = [stmt EXCEPT ![p] = DestroyQuery(@)]
    /\ Goto(p, "off")
    /\ UNCHANGED <<file, writer, tx, done, troubles>>

\* A program that has failed may be started again.
StartAgain(p) ==
    /\ pc[p] = "failed"
    /\ Goto(p, "off")
    /\ stmt' = [stmt EXCEPT ![p] = NoStatement]
    /\ UNCHANGED <<file, writer, tx, done, troubles>>

\* A program is killed: SQLite drops its transaction.
Crash(p) ==
    /\ pc[p] \notin {"off", "failed"}
    /\ troubles < MaxTroubles
    /\ troubles' = troubles + 1
    /\ IF writer = p THEN writer' = None /\ tx' = EmptyFile
                     ELSE UNCHANGED <<writer, tx>>
    /\ Goto(p, "off")
    /\ stmt' = [stmt EXCEPT ![p] = NoStatement]
    /\ UNCHANGED <<file, done>>

\* What a started program does until it runs or fails.
Step(p) ==
    \/ CreateFile(p) \/ BeginExclusive(p) \/ Rollback(p) \/ DatabaseVersion(p)
    \/ \E outcome \in {"ok", "prepare", "step"} :
           \/ SetWAL(p, outcome)
           \/ CreateTable(p, outcome)
           \/ InitVersionTable(p, outcome)
           \/ InitMastersTable(p, outcome)
           \/ CreateAllIndices(p, outcome)
           \/ Commit(p, outcome)

Next == \E p \in Programs :
            Open(p) \/ Step(p) \/ BusyTimeout(p) \/ CloseDatabase(p) \/ StartAgain(p) \/ Crash(p)

Spec == Init /\ [][Next]_vars

\* A program that was started is scheduled until it runs or fails.
FairSpec == Spec /\ \A p \in Programs : WF_vars(Step(p))

-----------------------------------------------------------------------------

Whole(d) == /\ d.tables = Elements(Tables)
            /\ d.version # 0
            /\ d.masters = Elements(Masters)

(***************************************************************************)
(* Whoever creates the database, however many try, and wherever they fail  *)
(* or are killed, the file holds nothing or everything; and a program that *)
(* runs has found a database of its own version.                           *)
(***************************************************************************)
CreatedWhole ==
    /\ db = EmptyFile \/ Whole(db)
    /\ \A p \in Programs : pc[p] = "running" => Whole(db) /\ db.version = Version[p]

(***************************************************************************)
(* Once created, the tables, the version and the masters are never touched *)
(* again by the start of a program, even one that had found no database    *)
(* and loses the race to create it.                                        *)
(***************************************************************************)
CreatedOnce ==
    [][db # EmptyFile => [db' EXCEPT !.indices = TRUE] = [db EXCEPT !.indices = TRUE]]_vars

(***************************************************************************)
(* exec() keeps one statement at most, and no other is left unfinalized:   *)
(* sqlite3_close() would refuse to close the database.  The first part is  *)
(* the assertion of prepare_query() (database.c:358).                      *)
(***************************************************************************)
OneStatement ==
    \A p \in Programs :
        /\ stmt[p].prevquery # None => stmt[p].res # "NULL"
        /\ stmt[p].live = IF stmt[p].prevquery = None THEN 0 ELSE 1

(***************************************************************************)
(* As long as no statement fails and nothing is killed, programs that find *)
(* no database do not make each other fail: one of them creates it, and    *)
(* one runs.                                                               *)
(***************************************************************************)
FirstRun ==
    (db = EmptyFile /\ \E p \in Programs : pc[p] = "create")
        ~> (\E p \in Programs : pc[p] = "running") \/ troubles > 0

(***************************************************************************)
(* database.c:254-258: "if someone else try to use the database at the     *)
(* same time, one will quietly wait for the other to create the database": *)
(* nobody fails for lack of tables while they are being created.           *)
(***************************************************************************)
WaitsForCreation ==
    [][\A p \in Programs : pc[p] = "opened" /\ pc'[p] = "failed" => writer = None]_vars
=============================================================================
