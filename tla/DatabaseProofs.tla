---------------------------- MODULE DatabaseProofs -----------------------------
(***************************************************************************)
(* The creation of the database, for any number of programs, of tables and *)
(* of default masters, wherever statements fail and programs are killed.   *)
(* Then the upgrade, for any files of the previous release, beside those   *)
(* programs, wherever it is killed and run again.                          *)
(***************************************************************************)
EXTENDS Upgrade, TLAPS


-----------------------------------------------------------------------------
\* The creation of the tables.

Contents == [tables : SUBSET Elements(Tables), version : Nat, masters : SUBSET Elements(Masters),
             indices : BOOLEAN]

Creating == {"tables", "version", "masters", "indices", "commit", "rollback"}

\* What the transaction of program p holds, where it is.  The first table is
\* created only in an empty file, so that the rest was empty as well.
Made(p) ==
    /\ pc[p] = "tables"  => /\ done[p] \in Nat /\ done[p] < Len(Tables)
                            /\ IF db = EmptyFile THEN tx.tables = {Tables[i] : i \in 1..done[p]}
                                                 ELSE tx = db
    /\ pc[p] = "masters" => done[p] \in Nat /\ done[p] < Len(Masters)
    /\ pc[p] = "version" => done[p] = 0
    /\ pc[p] \in {"version", "masters", "indices", "commit"} =>
           db = EmptyFile /\ tx.tables = Elements(Tables)
    /\ pc[p] \in {"masters", "indices", "commit"} => tx.version = Version[p]
    /\ pc[p] \in {"indices", "commit"} => tx.masters = Elements(Masters)

CInv == /\ db \in Contents /\ tx \in Contents
        /\ CreatedWhole
        /\ pc = [p \in Programs |-> pc[p]] /\ done = [p \in Programs |-> done[p]]
        /\ \A p \in Programs : /\ pc[p] \in Creating => writer = p
                               /\ Made(p)

\* A program that is not creating the database goes to another such place.
LEMMA Moves ==
  ASSUME CInv, NEW p \in Programs, pc[p] \notin Creating,
         NEW place, Goto(p, place), place \notin Creating,
         place = "running" => Whole(db) /\ db.version = Version[p],
         UNCHANGED <<db, tx, writer, done>>
  PROVE  CInv'
<1>1. pc' = [pc EXCEPT ![p] = place]
  BY DEF Goto
<1>2. \A q \in Programs : Made(q)'
  BY <1>1 DEF CInv, Made, Creating
<1>3. CreatedWhole'
  BY <1>1 DEF CInv, CreatedWhole, Whole
<1> QED
  BY <1>1, <1>2, <1>3 DEF CInv

\* A program writes in its transaction, or gives it up.
LEMMA Writes ==
  ASSUME CInv, NEW p \in Programs, pc[p] \in Creating,
         NEW place \in Creating, pc' = [pc EXCEPT ![p] = place],
         done' = [q \in Programs |-> IF q = p THEN done'[p] ELSE done[q]],
         tx' \in Contents, Made(p)', UNCHANGED <<db, writer>>
  PROVE  CInv'
<1>1. \A q \in Programs \ {p} : pc[q] \notin Creating /\ pc'[q] = pc[q]
  BY DEF CInv
<1>2. \A q \in Programs \ {p} : Made(q)'
  BY <1>1 DEF Made, Creating
<1>3. CreatedWhole'
  BY <1>1 DEF CInv, CreatedWhole, Whole, Creating
<1> QED
  BY <1>1, <1>2, <1>3 DEF CInv

\* A transaction ends, and what it made of an empty file may be committed.
LEMMA Ends ==
  ASSUME DatabaseAssumption, CInv, NEW p \in Programs, writer = p,
         NEW place, Goto(p, place), place \notin Creating \cup {"running"},
         writer' = None, tx' = EmptyFile, UNCHANGED done,
         db' = db \/ (db = EmptyFile /\ db' = tx /\ Whole(tx))
  PROVE  CInv'
<1>1. pc' = [pc EXCEPT ![p] = place]
  BY DEF Goto
<1>2. \A q \in Programs : pc'[q] \notin Creating
  BY <1>1 DEF CInv
<1>3. \A q \in Programs : Made(q)'
  BY <1>2 DEF Made, Creating
<1>4. EmptyFile \in Contents
  BY DEF EmptyFile, Contents
<1>5. CreatedWhole'
  <2>1. (db = EmptyFile \/ Whole(db))'
    BY DEF CInv, CreatedWhole, Whole
  <2>2. ASSUME NEW q \in Programs, pc'[q] = "running" PROVE Whole(db)' /\ db'.version = Version[q]
    <3>1. Whole(db) /\ db.version = Version[q]
      BY <1>1, <2>2 DEF CInv, CreatedWhole
    <3>2. db # EmptyFile
      BY <3>1 DEF Whole, EmptyFile
    <3> QED
      BY <3>1, <3>2 DEF Whole
  <2> QED
    BY <2>1, <2>2 DEF CreatedWhole
<1> QED
  BY <1>1, <1>2, <1>3, <1>4, <1>5, DatabaseAssumption DEF CInv

LEMMA CreationInit == ASSUME DatabaseAssumption, Init PROVE CInv
<1>1. EmptyFile \in Contents
  BY DEF EmptyFile, Contents
<1> QED
  BY <1>1, DatabaseAssumption DEF Init, CInv, CreatedWhole, Made, Creating

\* The turns of a loop over n elements.
LEMMA Turn ==
  ASSUME NEW n \in Nat, NEW d \in Nat, d < n
  PROVE  \/ d + 1 = n /\ (d + 1) % n = 0
         \/ d + 1 < n /\ (d + 1) % n = d + 1
  OBVIOUS

LEMMA CreateTableKeeps ==
  ASSUME DatabaseAssumption, CInv, NEW p \in Programs, NEW outcome, CreateTable(p, outcome)
  PROVE  CInv'
<1> DEFINE table == Tables[done[p] + 1]
           n == Len(Tables)
<1>1. /\ pc[p] = "tables" /\ pc[p] \in Creating /\ done[p] \in Nat /\ done[p] < n
      /\ UNCHANGED <<db, writer>>
  BY DEF CreateTable, CInv, Made, Creating, file
<1>2. n \in Nat /\ DOMAIN Tables = 1..n /\ table \in Elements(Tables)
  BY <1>1, DatabaseAssumption DEF Elements
<1>3. CASE outcome # "ok"
  <2>1. pc' = [pc EXCEPT ![p] = "rollback"] /\ UNCHANGED <<tx, done>>
    BY <1>3 DEF CreateTable, Goto
  <2>2. pc'[p] = "rollback"
    BY <2>1 DEF CInv
  <2>3. Made(p)'
    BY <2>2 DEF Made
  <2> QED
    BY <1>1, <2>1, <2>3, Writes DEF CInv, Creating
<1>4. CASE outcome = "ok"
  <2> DEFINE place == IF done'[p] = 0 THEN "version" ELSE "tables"
  <2>1. /\ tx' = [tx EXCEPT !.tables = @ \cup {table}]
        /\ done' = [done EXCEPT ![p] = (@ + 1) % n]
        /\ pc' = [pc EXCEPT ![p] = place]
    BY <1>4 DEF CreateTable, Goto
  <2>2. table \notin tx.tables
    BY <1>4 DEF CreateTable, RunQuery
  <2>3. db = EmptyFile
    BY <1>1, <1>2, <2>2 DEF CInv, CreatedWhole, Whole, Made
  <2>4. tx.tables = {Tables[i] : i \in 1..done[p]}
    BY <1>1, <2>3 DEF CInv, Made
  <2>5. tx' \in Contents /\ tx'.tables = {Tables[i] : i \in 1..(done[p] + 1)}
    <3>1. tx \in Contents
      BY DEF CInv
    <3>2. tx'.tables = tx.tables \cup {table} /\ tx' \in Contents
      BY <1>2, <2>1, <3>1 DEF Contents
    <3>3. 1..(done[p] + 1) = 1..done[p] \cup {done[p] + 1}
      BY <1>1
    <3> QED
      BY <2>4, <3>2, <3>3, ZenonT(30)
  <2>6. done'[p] = (done[p] + 1) % n /\ pc'[p] = place
    BY <2>1 DEF CInv
  <2>7. Made(p)'
    <3>1. CASE done[p] + 1 = n /\ (done[p] + 1) % n = 0
      BY <1>1, <1>2, <2>3, <2>5, <2>6, <3>1 DEF Made, Elements
    <3>2. CASE done[p] + 1 < n /\ (done[p] + 1) % n = done[p] + 1
      BY <1>1, <1>2, <2>3, <2>5, <2>6, <3>2 DEF Made
    <3> QED
      BY <1>1, <1>2, <3>1, <3>2, Turn
  <2> QED
    BY <1>1, <2>1, <2>5, <2>7, Writes DEF CInv, Creating
<1> QED
  BY <1>3, <1>4

LEMMA InitVersionTableKeeps ==
  ASSUME DatabaseAssumption, CInv, NEW p \in Programs, NEW outcome, InitVersionTable(p, outcome)
  PROVE  CInv'
<1> DEFINE place == IF outcome = "ok" THEN "masters" ELSE "rollback"
<1>1. /\ pc[p] = "version" /\ pc[p] \in Creating /\ UNCHANGED <<db, writer, done>>
      /\ pc' = [pc EXCEPT ![p] = place]
  BY DEF InitVersionTable, Goto, Creating, file
<1>2. tx' = IF outcome = "ok" THEN [tx EXCEPT !.version = Version[p]] ELSE tx
  BY DEF InitVersionTable
<1>3. Version[p] \in Nat /\ Len(Masters) \in Nat /\ 0 < Len(Masters)
  BY DatabaseAssumption
<1>4. tx \in Contents /\ db = EmptyFile /\ tx.tables = Elements(Tables) /\ done[p] = 0
  BY <1>1 DEF CInv, Made
<1>5. tx' \in Contents /\ tx'.tables = tx.tables /\ (outcome = "ok" => tx'.version = Version[p])
  BY <1>2, <1>3, <1>4 DEF Contents
<1>6. pc'[p] = place
  BY <1>1 DEF CInv
<1>7. Made(p)'
  BY <1>1, <1>3, <1>4, <1>5, <1>6 DEF Made
<1> QED
  BY <1>1, <1>5, <1>7, Writes DEF CInv, Creating

LEMMA InitMastersTableKeeps ==
  ASSUME DatabaseAssumption, CInv, NEW p \in Programs, NEW outcome, InitMastersTable(p, outcome)
  PROVE  CInv'
<1> DEFINE n == Len(Masters)
           master == Masters[done[p] + 1]
           place == IF done'[p] # 0 THEN "masters"
                    ELSE IF tx'.masters = Elements(Masters) THEN "indices" ELSE "rollback"
<1>1. /\ pc[p] = "masters" /\ pc[p] \in Creating /\ UNCHANGED <<db, writer>>
      /\ pc' = [pc EXCEPT ![p] = place] /\ done' = [done EXCEPT ![p] = (@ + 1) % n]
  BY DEF InitMastersTable, Goto, Creating, file
<1>2. tx' = IF outcome = "ok" THEN [tx EXCEPT !.masters = @ \cup {master}] ELSE tx
  BY DEF InitMastersTable
<1>3. /\ tx \in Contents /\ db = EmptyFile /\ tx.tables = Elements(Tables)
      /\ tx.version = Version[p] /\ done[p] \in Nat /\ done[p] < n
  BY <1>1 DEF CInv, Made
<1>4. n \in Nat /\ master \in Elements(Masters)
  BY <1>3, DatabaseAssumption DEF Elements
<1>5. tx' \in Contents /\ tx'.tables = tx.tables /\ tx'.version = tx.version
  BY <1>2, <1>3, <1>4 DEF Contents
<1>6. pc'[p] = place /\ done'[p] = (done[p] + 1) % n
  BY <1>1 DEF CInv
<1>7. done'[p] \in Nat /\ done'[p] < n
  BY <1>3, <1>4, <1>6, Turn
<1>8. Made(p)'
  BY <1>1, <1>3, <1>5, <1>6, <1>7 DEF Made
<1> QED
  BY <1>1, <1>5, <1>8, Writes DEF CInv, Creating

LEMMA CreateAllIndicesKeeps ==
  ASSUME CInv, NEW p \in Programs, NEW outcome, CreateAllIndices(p, outcome)
  PROVE  CInv'
<1>1. /\ pc[p] = "indices" /\ pc[p] \in Creating /\ UNCHANGED <<db, writer, done>>
      /\ pc' = [pc EXCEPT ![p] = "commit"]
  BY DEF CreateAllIndices, Goto, Creating, file
<1>2. tx' = [tx EXCEPT !.indices = (outcome = "ok")] /\ tx \in Contents
  BY DEF CreateAllIndices, CInv
<1>3. /\ tx' \in Contents /\ tx'.tables = tx.tables
      /\ tx'.version = tx.version /\ tx'.masters = tx.masters
  BY <1>2 DEF Contents
<1>4. pc'[p] = "commit"
  BY <1>1 DEF CInv
<1>5. Made(p)'
  BY <1>1, <1>3, <1>4 DEF CInv, Made
<1> QED
  BY <1>1, <1>3, <1>5, Writes DEF CInv, Creating

\* What is committed is whole, upon an empty file.
LEMMA CommitIsWhole ==
  ASSUME DatabaseAssumption, CInv, NEW p \in Programs, pc[p] = "commit"
  PROVE  db = EmptyFile /\ Whole(tx)
BY DatabaseAssumption DEF CInv, Made, Whole

LEMMA CommitKeeps ==
  ASSUME DatabaseAssumption, CInv, NEW p \in Programs, NEW outcome, Commit(p, outcome)
  PROVE  CInv'
<1>1. pc[p] = "commit" /\ pc[p] \in Creating /\ UNCHANGED done
  BY DEF Commit, Creating
<1>2. CASE outcome = "ok"
  <2>1. db' = tx /\ tx' = EmptyFile /\ writer' = None /\ Goto(p, "opened")
    BY <1>2 DEF Commit
  <2> QED
    BY <1>1, <2>1, CommitIsWhole, Ends DEF CInv, Creating
<1>3. CASE outcome # "ok"
  <2>1. UNCHANGED <<db, tx, writer>> /\ pc' = [pc EXCEPT ![p] = "rollback"]
    BY <1>3 DEF Commit, Goto
  <2>2. Made(p)'
    BY <2>1 DEF CInv, Made
  <2> QED
    BY <1>1, <2>1, <2>2, Writes DEF CInv, Creating
<1> QED
  BY <1>2, <1>3

LEMMA BeginExclusiveKeeps ==
  ASSUME DatabaseAssumption, CInv, NEW p \in Programs, BeginExclusive(p)
  PROVE  CInv'
<1>1. pc[p] = "begin" /\ pc[p] \notin Creating /\ UNCHANGED db
  BY DEF BeginExclusive, Creating, file
<1>2. CASE writer # None
  <2>1. Goto(p, "opened") /\ UNCHANGED <<writer, tx, done>>
    BY <1>2 DEF BeginExclusive
  <2> QED
    BY <1>1, <2>1, Moves DEF Creating
<1>3. CASE writer = None
  <2>1. /\ writer' = p /\ tx' = db /\ done' = [done EXCEPT ![p] = 0]
        /\ pc' = [pc EXCEPT ![p] = "tables"]
    BY <1>3 DEF BeginExclusive, Goto
  <2>2. \A q \in Programs : pc[q] \notin Creating
    BY <1>3, DatabaseAssumption DEF CInv
  <2>3. pc'[p] = "tables" /\ done'[p] = 0
    BY <2>1 DEF CInv
  <2>4. \A q \in Programs \ {p} : pc'[q] = pc[q] /\ pc'[q] \notin Creating
    BY <2>1, <2>2 DEF CInv
  <2>5. Made(p)'
    <3>1. Len(Tables) \in Nat /\ 0 < Len(Tables)
      BY DatabaseAssumption
    <3>2. db = EmptyFile => tx'.tables = {Tables[i] : i \in 1..0}
      BY <2>1 DEF EmptyFile
    <3> QED
      BY <1>1, <2>1, <2>3, <3>1, <3>2 DEF Made
  <2>6. \A q \in Programs : Made(q)'
    BY <2>4, <2>5 DEF Made, Creating
  <2>7. CreatedWhole'
    BY <1>1, <2>3, <2>4 DEF CInv, CreatedWhole, Whole
  <2>8. \A q \in Programs : pc'[q] \in Creating => writer' = q
    BY <2>1, <2>3, <2>4 DEF Creating
  <2> QED
    BY <1>1, <2>1, <2>6, <2>7, <2>8 DEF CInv
<1> QED
  BY <1>2, <1>3

LEMMA DatabaseVersionKeeps ==
  ASSUME CInv, NEW p \in Programs, DatabaseVersion(p)
  PROVE  CInv'
<1> DEFINE place == IF Head(Tables) \in db.tables /\ db.version = Version[p]
                      THEN "running" ELSE "failed"
<1>1. pc[p] = "opened" /\ pc[p] \notin Creating /\ UNCHANGED <<db, tx, writer, done>> /\ Goto(p, place)
  BY DEF DatabaseVersion, Creating, file
<1>2. place = "running" => Whole(db) /\ db.version = Version[p]
  <2>1. Head(Tables) \in db.tables => db # EmptyFile
    BY DEF EmptyFile
  <2> QED
    BY <2>1 DEF CInv, CreatedWhole
<1>3. place \notin Creating
  BY DEF Creating
<1> QED
  BY <1>1, <1>2, <1>3, Moves

LEMMA CrashKeeps ==
  ASSUME DatabaseAssumption, CInv, NEW p \in Programs, Crash(p)
  PROVE  CInv'
<1>1. Goto(p, "off") /\ UNCHANGED <<db, done>>
  BY DEF Crash, file
<1>2. CASE writer = p
  <2>1. writer' = None /\ tx' = EmptyFile
    BY <1>2 DEF Crash
  <2> QED
    BY <1>1, <1>2, <2>1, Ends DEF Creating
<1>3. CASE writer # p
  <2>1. UNCHANGED <<writer, tx>> /\ pc[p] \notin Creating
    BY <1>3 DEF Crash, CInv
  <2> QED
    BY <1>1, <2>1, Moves DEF Creating
<1> QED
  BY <1>2, <1>3

\* One step per action, of any program.
LEMMA CreationStep == ASSUME DatabaseAssumption, CInv, [Next]_vars PROVE CInv'
<1>1. CASE UNCHANGED vars
  BY <1>1 DEF vars, CInv, CreatedWhole, Whole, Made
<1>2. ASSUME NEW p \in Programs, Open(p) PROVE CInv'
  <2> DEFINE place == IF exists THEN "opened" ELSE IF p \in ReadOnly THEN "failed" ELSE "create"
  <2>1. pc[p] \notin Creating /\ Goto(p, place) /\ UNCHANGED <<db, tx, writer, done>>
    BY <1>2 DEF Open, Creating, file
  <2>2. place \notin Creating /\ place # "running"
    BY DEF Creating
  <2> QED
    BY <2>1, <2>2, Moves
<1>3. ASSUME NEW p \in Programs, CreateFile(p) PROVE CInv'
  BY <1>3, Moves DEF CreateFile, Creating
<1>4. ASSUME NEW p \in Programs, NEW outcome, SetWAL(p, outcome) PROVE CInv'
  BY <1>4, Moves DEF SetWAL, Creating
<1>5. ASSUME NEW p \in Programs, BusyTimeout(p) PROVE CInv'
  BY <1>5, Moves DEF BusyTimeout, Creating, file
<1>6. ASSUME NEW p \in Programs, CloseDatabase(p) PROVE CInv'
  BY <1>6, Moves DEF CloseDatabase, Creating, file
<1>7. ASSUME NEW p \in Programs, StartAgain(p) PROVE CInv'
  BY <1>7, Moves DEF StartAgain, Creating, file
<1>8. ASSUME NEW p \in Programs, Rollback(p) PROVE CInv'
  BY <1>8, Ends DEF Rollback, CInv, Creating, file
<1> QED
  BY <1>1, <1>2, <1>3, <1>4, <1>5, <1>6, <1>7, <1>8, BeginExclusiveKeeps, CreateTableKeeps,
     InitVersionTableKeeps, InitMastersTableKeeps, CreateAllIndicesKeeps, CommitKeeps,
     DatabaseVersionKeeps, CrashKeeps
     DEF Next, Step

THEOREM CreationInvariance == Spec => []CInv
<1> USE DatabaseAssumption
<1>1. Init => CInv
  BY CreationInit
<1>2. CInv /\ [Next]_vars => CInv'
  BY CreationStep
<1> QED
  BY <1>1, <1>2, PTL DEF Spec

\* Whatever statements of create_database() fail, and wherever programs are
\* killed, the file holds nothing or everything, and who runs has its version.
THEOREM AlwaysCreatedWhole == Spec => []CreatedWhole
<1>1. CInv => CreatedWhole
  BY DEF CInv
<1> QED
  BY <1>1, CreationInvariance, PTL

\* No action but a commit writes to the file.
LEMMA OnlyCommitWrites ==
  ASSUME Next, db' # db
  PROVE  \E p \in Programs, outcome \in {"ok", "prepare", "step"} : Commit(p, outcome)
BY ZenonT(40) DEF Next, Step, Open, CreateFile, SetWAL, BeginExclusive, CreateTable, InitVersionTable,
       InitMastersTable, CreateAllIndices, Rollback, DatabaseVersion, BusyTimeout, CloseDatabase,
       StartAgain, Crash, file

\* No start of a program touches a database that was created before.
THEOREM AlwaysCreatedOnce == Spec => CreatedOnce
<1>1. ASSUME DatabaseAssumption, CInv, [Next]_vars
      PROVE  [db # EmptyFile => [db' EXCEPT !.indices = TRUE] = [db EXCEPT !.indices = TRUE]]_vars
  <2>1. CASE db' = db
    BY <2>1
  <2>2. CASE db' # db
    <3>1. PICK p \in Programs, outcome \in {"ok", "prepare", "step"} : Commit(p, outcome)
      BY <1>1, <2>2, OnlyCommitWrites DEF vars
    <3>2. db = EmptyFile
      BY <1>1, <3>1, CommitIsWhole DEF Commit
    <3> QED
      BY <3>2
  <2> QED
    BY <2>1, <2>2
<1> QED
  BY <1>1, DatabaseAssumption, CreationInvariance, PTL DEF Spec, CreatedOnce

-----------------------------------------------------------------------------
\* The statements of exec().

IsStatement(s) == s = [prevquery |-> s.prevquery, res |-> s.res, live |-> s.live]

\* OneStatement, of one program.
Kept(s) == /\ IsStatement(s)
           /\ s.prevquery # None <=> s.res # "NULL"
           /\ s.live = IF s.prevquery = None THEN 0 ELSE 1

SInv == /\ stmt = [p \in Programs |-> stmt[p]]
        /\ \A p \in Programs : Kept(stmt[p])

\* A statement that cannot be prepared leaves none, one that fails is kept.
LEMMA ExecKeeps ==
  ASSUME NEW s, Kept(s), NEW query, query # None,
         NEW outcome \in {"ok", "prepare", "step"}
  PROVE  Kept(Exec(s, query, outcome))
<1> DEFINE ok == outcome # "prepare"
           prepared == PrepareQuery(s, query, ok)
<1>1. CASE s.prevquery = query /\ s.res # "error"
  BY <1>1 DEF Exec, PrepareQuery, Kept, IsStatement, None
<1>2. CASE ~(s.prevquery = query /\ s.res # "error")
  <2> DEFINE t == IF s.prevquery # None THEN Finalize(s) ELSE s
  <2>1. IsStatement(t) /\ t.live = 0
    BY DEF Finalize, Kept, IsStatement, None
  <2>2. prepared = Prepare(t, query, ok)
    BY <1>2 DEF PrepareQuery
  <2>3. Kept(prepared) /\ (ok => prepared.prevquery = query)
    <3>1. CASE ok
      <4>1. prepared = [prevquery |-> query, res |-> "ready", live |-> 1]
        BY <2>1, <2>2, <3>1 DEF Prepare
      <4> QED
        BY <4>1 DEF Kept, IsStatement, None
    <3>2. CASE ~ok
      <4>1. prepared = [prevquery |-> None, res |-> "NULL", live |-> 0]
        BY <2>1, <2>2, <3>2 DEF Prepare
      <4> QED
        BY <3>2, <4>1 DEF Kept, IsStatement, None
    <3> QED
      BY <3>1, <3>2
  <2>4. CASE outcome = "step"
    BY <2>3, <2>4 DEF Exec, Kept, IsStatement, None
  <2>5. CASE outcome # "step"
    BY <2>3, <2>5 DEF Exec
  <2> QED
    BY <2>4, <2>5
<1> QED
  BY <1>1, <1>2

LEMMA RunQueryKeeps ==
  ASSUME SInv, NEW p \in Programs, NEW query, query # None, NEW expected,
         NEW outcome \in {"ok", "prepare", "step"}, RunQuery(p, query, expected, outcome)
  PROVE  SInv'
<1>1. stmt' = [stmt EXCEPT ![p] = Exec(stmt[p], query, outcome)]
  BY DEF RunQuery
<1>2. Kept(Exec(stmt[p], query, outcome))
  BY ExecKeeps DEF SInv
<1> QED
  BY <1>1, <1>2 DEF SInv

LEMMA StatementStep == ASSUME DatabaseAssumption, CInv, SInv, [Next]_vars PROVE SInv'
<1>1. Kept(NoStatement)
  BY DEF Kept, IsStatement, NoStatement, None
<1>2. ASSUME NEW s, Kept(s) PROVE Kept(DestroyQuery(s))
  <2>1. Finalize(s) = [prevquery |-> s.prevquery, res |-> s.res, live |-> 0]
    BY <1>2 DEF Kept, IsStatement, Finalize, None
  <2>2. ASSUME NEW null
        PROVE  [[Finalize(s) EXCEPT !.prevquery = None] EXCEPT !.res = null]
               = [prevquery |-> None, res |-> null, live |-> 0]
    <3>1. [Finalize(s) EXCEPT !.prevquery = None] = [prevquery |-> None, res |-> s.res, live |-> 0]
      BY <2>1
    <3>2. [[prevquery |-> None, res |-> s.res, live |-> 0] EXCEPT !.res = null]
          = [prevquery |-> None, res |-> null, live |-> 0]
      OBVIOUS
    <3> QED
      BY <3>1, <3>2
  <2>3. DestroyQuery(s) = [[Finalize(s) EXCEPT !.prevquery = None] EXCEPT !.res = "NULL"]
    BY Zenon DEF DestroyQuery
  <2>4. DestroyQuery(s) = NoStatement
    BY <2>2, <2>3, Zenon DEF NoStatement
  <2> QED
    BY <1>1, <2>4
<1>3. ASSUME NEW p \in Programs, NEW s, Kept(s), stmt' = [stmt EXCEPT ![p] = s] PROVE SInv'
  BY <1>3 DEF SInv
<1>4. ASSUME UNCHANGED stmt PROVE SInv'
  BY <1>4 DEF SInv
<1>5. CASE UNCHANGED vars
  BY <1>4, <1>5 DEF vars
<1>6. ASSUME NEW p \in Programs,
             Open(p) \/ CreateFile(p) \/ BeginExclusive(p) \/ DatabaseVersion(p) \/ BusyTimeout(p)
      PROVE  SInv'
  BY <1>4, <1>6 DEF Open, CreateFile, BeginExclusive, DatabaseVersion, BusyTimeout
<1>7. ASSUME NEW p \in Programs, Rollback(p) PROVE SInv'
  <2>1. Kept(Exec(stmt[p], "ROLLBACK", "ok"))
    BY ExecKeeps DEF SInv, None
  <2> QED
    BY <1>3, <1>7, <2>1 DEF Rollback
<1>8. ASSUME NEW p \in Programs, CloseDatabase(p) PROVE SInv'
  <2>1. Kept(DestroyQuery(stmt[p]))
    BY <1>2 DEF SInv
  <2> QED
    BY <1>3, <1>8, <2>1 DEF CloseDatabase
<1>9. ASSUME NEW p \in Programs, StartAgain(p) \/ Crash(p) PROVE SInv'
  BY <1>1, <1>3, <1>9 DEF StartAgain, Crash
<1>10. ASSUME NEW p \in Programs, NEW outcome \in {"ok", "prepare", "step"}, CreateTable(p, outcome)
       PROVE  SInv'
  <2> DEFINE table == Tables[done[p] + 1]
  <2>1. table # None
    BY <1>10, DatabaseAssumption DEF CreateTable, CInv, Made, Elements
  <2>2. PICK expected : RunQuery(p, table, expected, outcome)
    BY <1>10 DEF CreateTable
  <2> QED
    BY <2>1, <2>2, RunQueryKeeps
<1>11. ASSUME NEW p \in Programs, NEW outcome \in {"ok", "prepare", "step"},
              SetWAL(p, outcome) \/ InitVersionTable(p, outcome) \/ InitMastersTable(p, outcome)
                \/ CreateAllIndices(p, outcome) \/ Commit(p, outcome)
       PROVE  SInv'
  <2>1. PICK query, expected : query # None /\ RunQuery(p, query, expected, outcome)
    BY <1>11 DEF SetWAL, InitVersionTable, InitMastersTable, CreateAllIndices, Commit, None
  <2> QED
    BY <2>1, RunQueryKeeps
<1> QED
  BY <1>5, <1>6, <1>7, <1>8, <1>9, <1>10, <1>11 DEF Next, Step

LEMMA StatementInit == ASSUME Init PROVE SInv
<1>1. Kept(NoStatement)
  BY DEF Kept, IsStatement, NoStatement, None
<1> QED
  BY <1>1 DEF Init, SInv

\* exec() never leaves a statement that nobody finalizes.
THEOREM AlwaysOneStatement == Spec => []OneStatement
<1> USE DatabaseAssumption
<1>1. Init => SInv
  BY StatementInit
<1>2. CInv /\ SInv /\ [Next]_vars => SInv'
  BY StatementStep
<1>3. SInv => OneStatement
  BY DEF SInv, Kept, OneStatement
<1> QED
  BY <1>1, <1>2, <1>3, CreationInvariance, PTL DEF Spec


-----------------------------------------------------------------------------
\* Where the upgrade is.

OfPlayers == {"players", "historic", "player"}
OfServers == {"servers", "flush", "clients"}
Copying == OfPlayers \cup OfServers

\* BEGIN and COMMIT have not failed for an error of the system so far.
Began == <<"begin">> \notin failed
Committed == <<"commit">> \notin failed

IsRows(d) == d = [player |-> d.player, historic |-> d.historic,
                  server |-> d.server, clients |-> d.clients]

\* The transaction is that of main(), and the loops are within their bounds.
Place ==
    /\ stage \in {"off", "begin", "indices", "ended"} \cup Copying
    /\ inside \in BOOLEAN
    /\ stage # "off" => pc[Upgrader] = "running"
    /\ stage \in {"off", "begin"} => ~inside
    /\ writer = Upgrader => pc[Upgrader] \in Creating \/ (stage # "off" /\ inside)
    /\ Began /\ stage \in Copying => inside
    /\ Committed /\ stage \in {"indices", "ended"} => ~inside
    /\ IsRows(data) /\ IsRows(work)

Loops ==
    /\ stage \in OfPlayers => left \subseteq DOMAIN Players
    /\ stage \in OfServers => left \subseteq DOMAIN Servers
    /\ stage \in {"historic", "player"} => at \in DOMAIN Players \ left
    /\ stage \in {"flush", "clients"} => at \in DOMAIN Servers \ left
    /\ stage = "historic" => done[Upgrader] \in Nat /\ done[Upgrader] < Len(ValidRecords(at))
    /\ stage = "clients" => done[Upgrader] \in Nat /\ done[Upgrader] < Len(Servers[at])
    /\ stage \in {"begin", "players", "player", "servers", "flush"} => done[Upgrader] = 0

PInv == CInv /\ Place /\ Loops

-----------------------------------------------------------------------------
\* What is copied.

\* The rows of the first n valid records of a file.
FirstRecords(f, n) ==
    {[name |-> HexnameToName(f), time |-> ValidRecords(f)[i].time, elo |-> ValidRecords(f)[i].elo] :
       i \in 1..n}

\* How many records of the file the upgrade is at were inserted.
Reached == IF stage = "historic" THEN done[Upgrader] ELSE Len(ValidRecords(at))

\* HistoricWhole, of some rows.
Backed(d) ==
    \A f \in DOMAIN Players :
        HexnameToName(f) \in DOMAIN d.player /\ d.player[HexnameToName(f)].by = Upgrader
            => OldRecords(f) \subseteq d.historic

HInv == /\ Backed(data) /\ Backed(work)
        /\ stage \in {"historic", "player"} => FirstRecords(at, Reached) \subseteq Seen.historic

\* A round has rated the player of a file since the upgrade, in some rows.
RatedIn(d, f) ==
    HexnameToName(f) \in DOMAIN d.player /\ d.player[HexnameToName(f)].by = Updater

\* No transaction takes back a round.  The records that have been inserted
\* were not there, so that the player is not one that KeepsNewer is about.
NInv ==
    Began /\ stage \in Copying =>
        /\ data.historic \subseteq Seen.historic
        /\ \A f \in DOMAIN Players :
              RatedIn(data, f) /\ OldRecords(f) \cap data.historic # {} => RatedIn(Seen, f)
        /\ stage \in {"historic", "player"} => FirstRecords(at, Reached) \cap data.historic = {}

PlayerIn(d, f) ==
    /\ HexnameToName(f) \in DOMAIN d.player
    /\ d.player[HexnameToName(f)].elo \in {UpgradedElo(f), UpdateElo}
    /\ OldRecords(f) \subseteq d.historic

ServerIn(d, s) == s \in d.server /\ \A c \in Elements(Servers[s]) : <<s, c>> \in d.clients

Copied(d) == /\ \A f \in DOMAIN Players \ failed : PlayerIn(d, f)
             /\ \A s \in DOMAIN Servers \ failed : ServerIn(d, s)

\* The files that the loops have not done with.
PlayersToCome == IF stage = "players" THEN left
                 ELSE IF stage \in OfPlayers THEN left \cup {at} ELSE {}
ServersToCome == IF stage = "servers" THEN left ELSE left \cup {at}

\* The files a row of player_historic comes from, when there was none before
\* the transaction.
Fresh(h) == \/ \E f \in DOMAIN Players \ PlayersToCome : h.name = HexnameToName(f)
            \/ stage = "historic" /\ h \in FirstRecords(at, done[Upgrader])
            \/ stage = "player" /\ h.name = HexnameToName(at)

\* The players of the files that are read are in the rows of the upgrade, as
\* are those that were in the database.
PlayersDone ==
    stage \in Copying =>
        /\ \A f \in DOMAIN Players : PlayerIn(data, f) => PlayerIn(Seen, f)
        /\ \A f \in DOMAIN Players \ (failed \cup PlayersToCome) : PlayerIn(Seen, f)
        /\ data.historic = {} => \A h \in Seen.historic : Fresh(h)

ServersDone ==
    /\ stage \in OfServers => \A s \in DOMAIN Servers \ (failed \cup ServersToCome) : ServerIn(Seen, s)
    /\ stage \in {"flush", "clients"} /\ at \notin failed => at \in Seen.server
    /\ stage = "clients" /\ at \notin failed =>
          \A i \in 1..done[Upgrader] : <<at, Servers[at][i]>> \in Seen.clients

WInv == Began => (Untouched \/ Copied(data)) /\ PlayersDone /\ ServersDone

-----------------------------------------------------------------------------
\* The database, beside the upgrade.

\* What program p does until it runs, or fails.
Starts(p) == Open(p) \/ Step(p) \/ BusyTimeout(p) \/ CloseDatabase(p) \/ StartAgain(p) \/ Crash(p)

\* A program leaves another where it is, and with its transaction.
LEMMA Apart ==
  ASSUME DatabaseAssumption, CInv, NEW p \in Programs, NEW q \in Programs \ {p}, Starts(p)
  PROVE  /\ pc'[q] = pc[q] /\ done'[q] = done[q]
         /\ writer' = q <=> writer = q
<1>1. q # None
  BY DatabaseAssumption
<1>2. pc = [r \in Programs |-> pc[r]] /\ done = [r \in Programs |-> done[r]]
  BY DEF CInv
<1>3. pc[p] \in Creating => writer = p
  BY DEF CInv
<1>4. CASE Open(p) \/ CreateFile(p) \/ DatabaseVersion(p) \/ BusyTimeout(p) \/ CloseDatabase(p)
             \/ StartAgain(p) \/ \E outcome : SetWAL(p, outcome)
  BY <1>2, <1>4 DEF Open, CreateFile, DatabaseVersion, BusyTimeout, CloseDatabase, StartAgain,
                    SetWAL, Goto
<1>5. CASE BeginExclusive(p)
  BY <1>1, <1>2, <1>5 DEF BeginExclusive, Goto
<1>6. CASE \E outcome : CreateTable(p, outcome) \/ InitVersionTable(p, outcome)
                          \/ InitMastersTable(p, outcome) \/ CreateAllIndices(p, outcome)
  BY <1>2, <1>6 DEF CreateTable, InitVersionTable, InitMastersTable, CreateAllIndices, Goto
<1>7. CASE \E outcome : Commit(p, outcome)
  BY <1>1, <1>2, <1>3, <1>7 DEF Commit, Goto, Creating
<1>8. CASE Rollback(p)
  BY <1>1, <1>2, <1>3, <1>8 DEF Rollback, Goto, Creating
<1>9. CASE Crash(p)
  BY <1>1, <1>2, <1>9 DEF Crash, Goto
<1> QED
  BY <1>4, <1>5, <1>6, <1>7, <1>8, <1>9 DEF Starts, Step

\* A program that is not in a transaction enters one only to create.
LEMMA OwnTransaction ==
  ASSUME DatabaseAssumption, CInv, NEW p \in Programs, writer = p => pc[p] \in Creating, Starts(p)
  PROVE  writer' = p => pc'[p] \in Creating
<1>1. p # None
  BY DatabaseAssumption
<1>2. pc = [r \in Programs |-> pc[r]]
  BY DEF CInv
<1>3. CASE Open(p) \/ CreateFile(p) \/ DatabaseVersion(p) \/ BusyTimeout(p) \/ CloseDatabase(p)
             \/ StartAgain(p) \/ \E outcome : SetWAL(p, outcome)
  <2>1. writer' = writer /\ pc[p] \notin Creating
    BY <1>3 DEF Open, CreateFile, DatabaseVersion, BusyTimeout, CloseDatabase, StartAgain,
                SetWAL, Creating
  <2> QED
    BY <2>1
<1>4. CASE BeginExclusive(p)
  BY <1>1, <1>2, <1>4 DEF BeginExclusive, Goto, Creating
<1>5. CASE \E outcome : CreateTable(p, outcome) \/ InitVersionTable(p, outcome)
                          \/ InitMastersTable(p, outcome) \/ CreateAllIndices(p, outcome)
  BY <1>2, <1>5 DEF CreateTable, InitVersionTable, InitMastersTable, CreateAllIndices, Goto, Creating
<1>6. CASE \E outcome : Commit(p, outcome)
  BY <1>1, <1>2, <1>6 DEF Commit, Goto, Creating
<1>7. CASE Rollback(p) \/ Crash(p)
  BY <1>1, <1>2, <1>7 DEF Rollback, Crash, Goto
<1> QED
  BY <1>3, <1>4, <1>5, <1>6, <1>7 DEF Starts, Step

\* Nobody writes to a database that a program uses.
LEMMA UsedIsKept ==
  ASSUME DatabaseAssumption, CInv, NEW p \in Programs, NEW q \in Programs, pc[q] = "running",
         Starts(p)
  PROVE  db' = db
<1>1. Whole(db) /\ db # EmptyFile
  BY DEF CInv, CreatedWhole, Whole, EmptyFile
<1>2. ASSUME db' # db PROVE FALSE
  <2>1. PICK r \in Programs, outcome \in {"ok", "prepare", "step"} : Commit(r, outcome)
    BY <1>2, OnlyCommitWrites DEF Starts, Next
  <2> QED
    BY <1>1, <2>1, CommitIsWhole DEF Commit
<1> QED
  BY <1>2

\* What a running program does in the database, when others may create it.
LEMMA Beside ==
  ASSUME DatabaseAssumption, CInv, NEW p \in Programs, pc[p] = "running",
         \/ db' = db
         \/ writer \in {None, p} /\ \E b \in BOOLEAN : db' = [db EXCEPT !.indices = b],
         UNCHANGED tx, writer' = writer \/ writer \in {None, p},
         pc' = pc \/ \E place : Goto(p, place) /\ place \notin Creating \cup {"running"},
         done' = [q \in Programs |-> IF q = p THEN done'[p] ELSE done[q]]
  PROVE  CInv'
<1>1. p # None /\ None \notin Programs
  BY DatabaseAssumption
<1>2. /\ pc' = [q \in Programs |-> pc'[q]]
      /\ \A q \in Programs \ {p} : pc'[q] = pc[q]
      /\ pc'[p] \notin Creating
  BY DEF CInv, Goto, Creating
<1>3. db \in Contents /\ Whole(db) /\ db # EmptyFile
  BY DEF CInv, CreatedWhole, Whole, EmptyFile
<1>4. db' \in Contents /\ Whole(db)' /\ db'.version = db.version
  BY <1>3 DEF Contents, Whole
<1>5. CreatedWhole'
  BY <1>2, <1>4 DEF CInv, CreatedWhole
<1>6. ASSUME NEW q \in Programs, pc'[q] \in Creating PROVE writer' = q /\ Made(q)'
  <2>1. q # p /\ pc[q] \in Creating /\ writer = q
    BY <1>2, <1>6 DEF CInv
  <2>2. writer \notin {None, p}
    BY <1>1, <2>1
  <2>3. UNCHANGED <<db, writer>>
    BY <2>2
  <2>4. pc'[q] = pc[q] /\ done'[q] = done[q]
    BY <1>2, <2>1
  <2> QED
    BY <2>1, <2>3, <2>4 DEF CInv, Made
<1>7. \A q \in Programs : pc'[q] \notin Creating => Made(q)'
  BY DEF Made, Creating
<1> QED
  BY <1>2, <1>4, <1>5, <1>6, <1>7 DEF CInv

-----------------------------------------------------------------------------
\* The transaction of the upgrade.

LEMMA UpgradePrograms ==
  ASSUME DatabaseAssumption, UpgradeAssumption
  PROVE  Upgrader \in Programs /\ Updater \in Programs /\ Upgrader # Updater /\ Upgrader # None
BY DEF UpgradeAssumption, DatabaseAssumption

\* The other programs leave the upgrade what it sees.
LEMMA StartFrame ==
  ASSUME DatabaseAssumption, UpgradeAssumption, PInv, NEW p \in Programs, Start(p)
  PROVE  /\ CInv'
         /\ UNCHANGED <<stage, inside, left, at, data, work, rounds, failed>>
         /\ writer' = Upgrader => pc'[Upgrader] \in Creating \/ (stage # "off" /\ inside)
         /\ stage # "off" => /\ Seen' = Seen /\ db' = db
                             /\ pc'[Upgrader] = "running" /\ done'[Upgrader] = done[Upgrader]
<1>1. CInv /\ Place /\ Upgrader \in Programs
  BY UpgradePrograms DEF PInv
<1>2. Starts(p) /\ UNCHANGED <<stage, inside, left, at, data, work, rounds, failed>>
  BY DEF Start, Starts, upgradeVars
<1>3. CInv'
  BY <1>1, <1>2, CreationStep DEF Starts, Next
<1>4. CASE stage = "off"
  <2>1. CASE p = Upgrader
    <3>1. writer = p => pc[p] \in Creating
      BY <1>1, <1>4, <2>1 DEF Place
    <3>2. writer' = p => pc'[p] \in Creating
      BY <1>1, <1>2, <3>1, OwnTransaction
    <3> QED
      BY <1>2, <1>3, <1>4, <2>1, <3>2
  <2>2. CASE p # Upgrader
    BY <1>1, <1>2, <1>3, <1>4, <2>2, Apart DEF Place
  <2> QED
    BY <2>1, <2>2
<1>5. CASE stage # "off"
  <2>1. pc[Upgrader] = "running"
    BY <1>1, <1>5 DEF Place
  <2>2. p # Upgrader
    BY <2>1 DEF Start, Open, Step, BusyTimeout, StartAgain, CreateFile, BeginExclusive, Rollback,
                DatabaseVersion, SetWAL, CreateTable, InitVersionTable, InitMastersTable,
                CreateAllIndices, Commit
  <2>3. /\ pc'[Upgrader] = pc[Upgrader] /\ done'[Upgrader] = done[Upgrader]
        /\ writer' = Upgrader <=> writer = Upgrader
    BY <1>1, <1>2, <2>2, Apart
  <2>4. db' = db
    BY <1>1, <1>2, <2>1, UsedIsKept
  <2>5. Seen' = Seen
    BY <1>2, <2>3 DEF Seen
  <2>6. writer' = Upgrader => pc'[Upgrader] \in Creating \/ (stage # "off" /\ inside)
    BY <1>1, <2>3 DEF Place
  <2> QED
    BY <1>2, <1>3, <2>1, <2>3, <2>4, <2>5, <2>6
<1> QED
  BY <1>4, <1>5

\* A statement of the running upgrade.
LEMMA StatementFrame ==
  ASSUME DatabaseAssumption, UpgradeAssumption, PInv, pc[Upgrader] = "running",
         NEW query, NEW subject, NEW expected, NEW outcome,
         Statement(query, subject, expected, outcome)
  PROVE  /\ outcome \in {expected, "step"}
         /\ outcome # "step" => writer \in {None, Upgrader}
         /\ UNCHANGED <<tx, pc, rounds>>
         /\ writer' = writer \/ (writer = None /\ writer' = Upgrader /\ inside)
         /\ failed \subseteq failed'
         /\ subject \notin failed' => outcome = expected
         /\ writer = Upgrader => inside
         /\ writer' = Upgrader => inside
         /\ inside /\ outcome = expected /\ outcome # "step" => writer' = Upgrader
<1>1. writer = Upgrader => inside
  BY DEF PInv, Place, Creating
<1>2. /\ outcome \in {expected, "step"}
      /\ outcome # "step" => writer \in {None, Upgrader}
      /\ UNCHANGED <<tx, pc, rounds>>
  BY DEF Statement, RunQuery
<1>3. writer' = IF inside /\ writer = None /\ outcome = expected THEN Upgrader ELSE writer
  BY DEF Statement
<1>4. failed' = IF outcome = expected THEN failed ELSE failed \cup {subject}
  BY DEF Statement
<1>5. /\ writer' = writer \/ (writer = None /\ writer' = Upgrader /\ inside)
      /\ inside /\ outcome = expected /\ outcome # "step" => writer' = Upgrader
  BY <1>2, <1>3
<1>6. failed \subseteq failed' /\ (subject \notin failed' => outcome = expected)
  BY <1>4
<1> QED
  BY <1>1, <1>2, <1>5, <1>6

\* The rows after a statement of the upgrade.
LEMMA Written ==
  ASSUME DatabaseAssumption, UpgradeAssumption, PInv, stage \in Copying,
         NEW query, NEW subject, NEW expected, NEW outcome, NEW rows,
         Statement(query, subject, expected, outcome), Write(rows, outcome)
  PROVE  /\ Seen' = IF outcome = "ok" THEN rows ELSE Seen
         /\ data' = IF inside THEN data ELSE Seen'
         /\ work' = Seen' \/ work' = NoRows
<1> DEFINE new == IF outcome = "ok" THEN rows ELSE Seen
<1>1. pc[Upgrader] = "running"
  BY DEF PInv, Place, Copying, OfPlayers, OfServers
<1>2. /\ outcome \in {expected, "step"}
      /\ outcome # "step" => writer \in {None, Upgrader}
      /\ writer' = writer \/ (writer = None /\ writer' = Upgrader /\ inside)
      /\ writer = Upgrader => inside
      /\ writer' = Upgrader => inside
      /\ inside /\ outcome = expected /\ outcome # "step" => writer' = Upgrader
  BY <1>1, StatementFrame
<1>3. /\ work' = IF writer' = Upgrader THEN new ELSE NoRows
      /\ data' = IF inside THEN data ELSE new
  BY DEF Write
<1>4. Seen' = IF writer' = Upgrader THEN work' ELSE data'
  BY DEF Seen
<1>5. CASE writer' = Upgrader
  BY <1>2, <1>3, <1>4, <1>5
<1>6. CASE writer' # Upgrader /\ inside
  <2>1. outcome # "ok" /\ writer # Upgrader
    BY <1>2, <1>6
  <2>2. new = data
    BY <2>1 DEF Seen
  <2> HIDE DEF new
  <2> QED
    BY <1>3, <1>4, <1>6, <2>1, <2>2 DEF new
<1>7. CASE writer' # Upgrader /\ ~inside
  BY <1>3, <1>4, <1>7
<1> QED
  BY <1>5, <1>6, <1>7

LEMMA SomeRows ==
  ASSUME NEW d, IsRows(d), NEW x
  PROVE  /\ IsRows([d EXCEPT !.player = x]) /\ IsRows([d EXCEPT !.historic = x])
         /\ IsRows([d EXCEPT !.server = x]) /\ IsRows([d EXCEPT !.clients = x])
<1> USE DEF IsRows
<1>1. /\ IsRows([d EXCEPT !.player = x]) /\ IsRows([d EXCEPT !.historic = x])
  OBVIOUS
<1>2. /\ IsRows([d EXCEPT !.server = x]) /\ IsRows([d EXCEPT !.clients = x])
  OBVIOUS
<1> QED
  BY <1>1, <1>2

LEMMA SeenRows == ASSUME PInv PROVE IsRows(Seen)
BY DEF PInv, Place, Seen

LEMMA NoRowsAtAll == IsRows(NoRows)
BY DEF IsRows, NoRows

\* The database and the place, after a statement of the copy.
LEMMA CopyKeeps ==
  ASSUME DatabaseAssumption, UpgradeAssumption, PInv, stage \in Copying,
         NEW query, NEW subject, NEW expected, NEW outcome, NEW rows, IsRows(rows),
         Statement(query, subject, expected, outcome), Write(rows, outcome),
         UNCHANGED <<db, inside>>, stage' \in Copying,
         done' = done \/ \E x : done' = [done EXCEPT ![Upgrader] = x]
  PROVE  CInv' /\ Place'
<1>1. /\ CInv /\ Place /\ Upgrader \in Programs
      /\ pc[Upgrader] = "running" /\ stage \notin {"off", "begin", "indices", "ended"}
  BY UpgradePrograms DEF PInv, Place, Copying, OfPlayers, OfServers
<1>2. /\ UNCHANGED <<tx, pc>>
      /\ writer' = writer \/ (writer = None /\ writer' = Upgrader /\ inside)
      /\ failed \subseteq failed'
      /\ writer' = Upgrader => inside
  BY <1>1, StatementFrame
<1>3. CInv'
  <2>1. done' = [q \in Programs |-> IF q = Upgrader THEN done'[Upgrader] ELSE done[q]]
    BY <1>1 DEF CInv
  <2> QED
    BY <1>1, <1>2, <2>1, Beside
<1>4. IsRows(data)' /\ IsRows(work)'
  <2>1. IsRows(Seen)'
    BY Written, SeenRows DEF IsRows
  <2> QED
    BY <1>1, <2>1, Written, NoRowsAtAll DEF Place
<1>5. /\ stage' \notin {"off", "begin", "indices", "ended"}
  BY DEF Copying, OfPlayers, OfServers
<1>6. Began' => Began
  BY <1>2 DEF Began
<1> QED
  BY <1>1, <1>2, <1>3, <1>4, <1>5, <1>6 DEF Place

LEMMA UpgradeHistoricPlace ==
  ASSUME DatabaseAssumption, UpgradeAssumption, PInv, NEW outcome, UpgradeHistoric(outcome)
  PROVE  PInv'
<1> DEFINE n == HexnameToName(at)
           r == ValidRecords(at)[done[Upgrader] + 1]
           rows == [Seen EXCEPT !.historic = @ \cup {[name |-> n, time |-> r.time, elo |-> r.elo]}]
<1>1. /\ stage = "historic" /\ stage \in Copying /\ UNCHANGED <<db, inside, left, at>>
      /\ stage' = IF outcome # "ok" THEN "players"
                  ELSE IF done'[Upgrader] = 0 THEN "player" ELSE "historic"
      /\ done' = [done EXCEPT ![Upgrader] = IF outcome = "ok" THEN (@ + 1) % Len(ValidRecords(at))
                                                              ELSE 0]
  BY DEF UpgradeHistoric, Copying, OfPlayers
<1>2. /\ at \in DOMAIN Players \ left /\ left \subseteq DOMAIN Players
      /\ done[Upgrader] \in Nat /\ done[Upgrader] < Len(ValidRecords(at))
  BY <1>1 DEF PInv, Loops, OfPlayers
<1>3. Len(ValidRecords(at)) \in Nat
  BY <1>2, UpgradeAssumption DEF UpgradeAssumption
<1>4. done'[Upgrader] = IF outcome = "ok" THEN (done[Upgrader] + 1) % Len(ValidRecords(at)) ELSE 0
  BY <1>1, UpgradePrograms DEF PInv, CInv
<1>5. Loops'
  <2>1. done'[Upgrader] \in Nat /\ done'[Upgrader] < Len(ValidRecords(at))
    BY <1>2, <1>3, <1>4, Turn
  <2> QED
    BY <1>1, <1>2, <1>4, <2>1 DEF Loops, OfPlayers, OfServers
<1>6. CInv' /\ Place'
  <2>1. PICK expected : /\ Statement("INSERT INTO player_historic", at, expected, outcome)
                        /\ Write(rows, outcome)
    BY DEF UpgradeHistoric
  <2>2. IsRows(rows)
    BY SeenRows, SomeRows
  <2>3. stage' \in Copying
    BY <1>1 DEF Copying, OfPlayers
  <2> HIDE DEF rows
  <2> QED
    BY <1>1, <2>1, <2>2, <2>3, CopyKeeps
<1> QED
  BY <1>5, <1>6 DEF PInv

LEMMA WithPlayerRows ==
  ASSUME NEW d, IsRows(d), NEW name, NEW row, NEW e, e = WithPlayer(d, name, row)
  PROVE  IsRows(e) /\ e.historic = d.historic /\ e.server = d.server /\ e.clients = d.clients
BY DEF WithPlayer, IsRows

LEMMA WithPlayerPlayers ==
  ASSUME NEW d, IsRows(d), NEW name, NEW row, NEW e, e = WithPlayer(d, name, row)
  PROVE  e.player = [n \in DOMAIN d.player \cup {name} |-> IF n = name THEN row ELSE d.player[n]]
BY DEF WithPlayer, IsRows

LEMMA WritePlayerPlace ==
  ASSUME DatabaseAssumption, UpgradeAssumption, PInv, NEW outcome, WritePlayer(outcome)
  PROVE  PInv'
<1> DEFINE rows == WithPlayer(Seen, HexnameToName(at), [elo |-> UpgradedElo(at), by |-> Upgrader])
<1>1. /\ stage = "player" /\ stage' = "players" /\ UNCHANGED <<db, done, inside, left, at>>
      /\ Statement("INSERT INTO players", at, "ok", outcome)
      /\ Write(rows, outcome)
  BY DEF WritePlayer
<1>2. Loops'
  BY <1>1 DEF PInv, Loops, OfPlayers, OfServers
<1>3. IsRows(rows)
  BY SeenRows, WithPlayerRows
<1>4. stage \in Copying /\ stage' \in Copying
  BY <1>1 DEF Copying, OfPlayers
<1> HIDE DEF rows
<1>5. CInv' /\ Place'
  BY <1>1, <1>3, <1>4, CopyKeeps
<1> QED
  BY <1>2, <1>5 DEF PInv

LEMMA WriteServerPlace ==
  ASSUME DatabaseAssumption, UpgradeAssumption, PInv, NEW outcome, WriteServer(outcome)
  PROVE  PInv'
<1>1. PICK s \in left :
         /\ at' = s /\ left' = left \ {s}
         /\ Statement("INSERT INTO servers", s, "ok", outcome)
         /\ Write([Seen EXCEPT !.server = @ \cup {s}], outcome)
  BY DEF WriteServer
<1>2. stage = "servers" /\ stage' = "flush" /\ UNCHANGED <<db, done, inside>>
  BY DEF WriteServer
<1>3. Loops'
  BY <1>1, <1>2 DEF PInv, Loops, OfPlayers, OfServers
<1>4. stage \in Copying /\ stage' \in Copying
  BY <1>2 DEF Copying, OfServers
<1>5. CInv' /\ Place'
  BY <1>1, <1>2, <1>4, SeenRows, SomeRows, CopyKeeps
<1> QED
  BY <1>3, <1>5 DEF PInv

LEMMA FlushPlace ==
  ASSUME DatabaseAssumption, UpgradeAssumption, PInv, NEW outcome, FlushServerClients(outcome)
  PROVE  PInv'
<1> DEFINE rows == [Seen EXCEPT !.clients = {c \in @ : c[1] # at}]
<1>1. /\ stage = "flush" /\ UNCHANGED <<db, done, inside, left, at>>
      /\ stage' = IF outcome = "ok" /\ Servers[at] # <<>> THEN "clients" ELSE "servers"
      /\ Statement("DELETE FROM server_clients", at, "ok", outcome)
  BY DEF FlushServerClients
<1>write. Write(rows, outcome)
  BY DEF FlushServerClients
<1>2. /\ at \in DOMAIN Servers \ left /\ left \subseteq DOMAIN Servers /\ done[Upgrader] = 0
  BY <1>1 DEF PInv, Loops, OfServers
<1>3. Servers[at] # <<>> => 0 < Len(Servers[at])
  BY <1>2, UpgradeAssumption DEF UpgradeAssumption
<1>4. Loops'
  <2>1. stage' \in {"clients", "servers"}
    BY <1>1
  <2>2. done'[Upgrader] = 0 /\ at' \in DOMAIN Servers \ left' /\ left' \subseteq DOMAIN Servers
    BY <1>1, <1>2
  <2>3. stage' = "clients" => 0 < Len(Servers[at'])
    BY <1>1, <1>3
  <2> QED
    BY <2>1, <2>2, <2>3 DEF Loops, OfPlayers, OfServers
<1>5. stage \in Copying /\ stage' \in Copying
  BY <1>1 DEF Copying, OfServers
<1>6. IsRows(rows)
  BY SeenRows, SomeRows
<1> HIDE DEF rows
<1>7. CInv' /\ Place'
  BY <1>write, <1>1, <1>5, <1>6, CopyKeeps
<1> QED
  BY <1>4, <1>7 DEF PInv

LEMMA WriteServerClientPlace ==
  ASSUME DatabaseAssumption, UpgradeAssumption, PInv, NEW outcome, WriteServerClient(outcome)
  PROVE  PInv'
<1> DEFINE rows == [Seen EXCEPT !.clients = @ \cup {<<at, Servers[at][done[Upgrader] + 1]>>}]
<1>1. /\ stage = "clients" /\ UNCHANGED <<db, inside, left, at>>
      /\ stage' = IF done'[Upgrader] = 0 THEN "servers" ELSE "clients"
      /\ done' = [done EXCEPT ![Upgrader] = (@ + 1) % Len(Servers[at])]
      /\ Statement("INSERT INTO server_clients", at, "ok", outcome)
      /\ Write(rows, outcome)
  BY DEF WriteServerClient
<1>2. /\ at \in DOMAIN Servers \ left /\ left \subseteq DOMAIN Servers
      /\ done[Upgrader] \in Nat /\ done[Upgrader] < Len(Servers[at])
  BY <1>1 DEF PInv, Loops, OfServers
<1>3. Len(Servers[at]) \in Nat
  BY <1>2, UpgradeAssumption DEF UpgradeAssumption
<1>4. done'[Upgrader] = (done[Upgrader] + 1) % Len(Servers[at])
  BY <1>1, UpgradePrograms DEF PInv, CInv
<1>5. done'[Upgrader] \in Nat /\ done'[Upgrader] < Len(Servers[at])
  BY <1>2, <1>3, <1>4, Turn
<1>6. Loops'
  BY <1>1, <1>2, <1>5 DEF Loops, OfPlayers, OfServers
<1>7. stage \in Copying /\ stage' \in Copying
  BY <1>1 DEF Copying, OfServers
<1>8. IsRows(rows)
  BY SeenRows, SomeRows
<1> HIDE DEF rows
<1>9. CInv' /\ Place'
  BY <1>1, <1>7, <1>8, CopyKeeps
<1> QED
  BY <1>6, <1>9 DEF PInv

LEMMA DropAllIndicesPlace ==
  ASSUME DatabaseAssumption, UpgradeAssumption, PInv, NEW outcome, DropAllIndices(outcome)
  PROVE  PInv'
<1> DEFINE expected == IF db.indices THEN "ok" ELSE "prepare"
<1>1. /\ CInv /\ Place /\ Upgrader \in Programs /\ stage = "off" /\ pc[Upgrader] = "running"
      /\ stage' = "begin" /\ UNCHANGED <<inside, left, at, data, work>>
      /\ done' = [done EXCEPT ![Upgrader] = 0]
      /\ Statement("DROP INDEX", <<"indices">>, expected, outcome)
  BY UpgradePrograms DEF DropAllIndices, PInv
<1>2. ~inside /\ writer # Upgrader
  BY <1>1 DEF Place, Creating
<1>3. /\ UNCHANGED <<tx, pc, writer>>
      /\ outcome # "step" => writer \in {None, Upgrader}
  BY <1>1, <1>2, StatementFrame
<1>4. \/ db' = db
      \/ writer \in {None, Upgrader} /\ \E b \in BOOLEAN : db' = [db EXCEPT !.indices = b]
  <2>1. db' = [db EXCEPT !.indices = @ /\ outcome # "ok"] /\ db \in Contents
    BY <1>1 DEF DropAllIndices, CInv
  <2>2. CASE outcome = "ok"
    BY <1>3, <2>1, <2>2
  <2>3. CASE outcome # "ok"
    BY <2>1, <2>3 DEF Contents
  <2> QED
    BY <2>2, <2>3
<1>5. done' = [q \in Programs |-> IF q = Upgrader THEN done'[Upgrader] ELSE done[q]]
      /\ done'[Upgrader] = 0
  BY <1>1 DEF CInv
<1>6. CInv'
  BY <1>1, <1>3, <1>4, <1>5, Beside
<1>7. Place'
  BY <1>1, <1>2, <1>3 DEF Place, Copying, OfPlayers, OfServers, IsRows
<1>8. Loops'
  BY <1>1, <1>5 DEF Loops, OfPlayers, OfServers
<1> QED
  BY <1>6, <1>7, <1>8 DEF PInv

LEMMA BeginUpgradePlace ==
  ASSUME DatabaseAssumption, UpgradeAssumption, PInv, NEW outcome, BeginUpgrade(outcome)
  PROVE  PInv' /\ writer # Upgrader /\ Seen' = data /\ (Began' => Began)
<1>1. /\ CInv /\ Place /\ Upgrader \in Programs /\ stage = "begin" /\ pc[Upgrader] = "running"
      /\ stage' = "players" /\ left' = DOMAIN Players /\ inside' = (outcome = "ok")
      /\ UNCHANGED <<db, done, at, data, work>>
      /\ Statement("BEGIN", <<"begin">>, "ok", outcome)
  BY UpgradePrograms DEF BeginUpgrade, PInv, Place
<1>2. ~inside /\ writer # Upgrader
  BY <1>1 DEF Place, Creating
<1>3. /\ UNCHANGED <<tx, pc, writer>>
      /\ failed \subseteq failed'
      /\ <<"begin">> \notin failed' => outcome = "ok"
  BY <1>1, <1>2, StatementFrame
<1>4. CInv'
  <2>1. done' = [q \in Programs |-> IF q = Upgrader THEN done'[Upgrader] ELSE done[q]]
    BY <1>1 DEF CInv
  <2> QED
    BY <1>1, <1>3, <2>1, Beside
<1>5. Place'
  BY <1>1, <1>2, <1>3 DEF Place, Began, Copying, OfPlayers, OfServers, IsRows
<1>6. Loops'
  BY <1>1 DEF PInv, Loops, OfPlayers, OfServers
<1>7. Seen' = data /\ (Began' => Began)
  BY <1>1, <1>2, <1>3 DEF Seen, Began
<1> QED
  BY <1>2, <1>4, <1>5, <1>6, <1>7 DEF PInv

\* What ReadPlayer leaves to all of the invariant.
LEMMA ReadPlayerPlace ==
  ASSUME DatabaseAssumption, UpgradeAssumption, PInv, ReadPlayer
  PROVE  PInv' /\ UNCHANGED <<done, data, work, failed, Seen>>
<1>1. /\ stage = "players" /\ left \subseteq DOMAIN Players /\ done[Upgrader] = 0
      /\ UNCHANGED <<file, writer, tx, pc, done, stmt, troubles, inside, data, work, rounds, failed>>
  BY DEF ReadPlayer, PInv, Loops, OfPlayers
<1>2. CInv'
  BY <1>1, CreationStep DEF PInv, vars, file
<1>3. /\ stage' \in {"servers", "player", "historic"}
      /\ stage' = "servers" => left' = DOMAIN Servers
      /\ stage' \in {"player", "historic"} => /\ at' \in left /\ left' = left \ {at'}
                                              /\ stage' = IF ValidRecords(at') = <<>>
                                                            THEN "player" ELSE "historic"
  <2>1. CASE left = {}
    BY <2>1 DEF ReadPlayer
  <2>2. CASE left # {}
    BY <2>2 DEF ReadPlayer
  <2> QED
    BY <2>1, <2>2
<1>4. Place'
  BY <1>1, <1>3 DEF PInv, Place, Began, Committed, Copying, OfPlayers, OfServers, IsRows
<1>5. Loops'
  <2>1. CASE stage' = "servers"
    BY <1>1, <1>3, <2>1 DEF Loops, OfPlayers, OfServers
  <2>2. CASE stage' = "player"
    BY <1>1, <1>3, <2>2 DEF Loops, OfPlayers, OfServers
  <2>3. CASE stage' = "historic"
    <3>1. at' \in DOMAIN Players /\ ValidRecords(at') # <<>>
      BY <1>1, <1>3, <2>3
    <3>2. 0 < Len(ValidRecords(at'))
      BY <3>1, UpgradeAssumption DEF UpgradeAssumption
    <3> QED
      BY <1>1, <1>3, <2>3, <3>2 DEF Loops, OfPlayers, OfServers
  <2> QED
    BY <1>3, <2>1, <2>2, <2>3
<1>6. UNCHANGED Seen
  BY <1>1 DEF Seen
<1> QED
  BY <1>1, <1>2, <1>4, <1>5, <1>6 DEF PInv

\* A commit that fails leaves the transaction open.
LEMMA CommitUpgradePlace ==
  ASSUME DatabaseAssumption, UpgradeAssumption, PInv, NEW outcome, CommitUpgrade(outcome)
  PROVE  /\ PInv'
         /\ data' = data \/ data' = Seen
         /\ work' = work \/ work' = NoRows
         /\ Began' => Began
         /\ Began' /\ data' = data => \/ Seen = data
                                      \/ UNCHANGED <<data, work, inside, writer>>
<1> DEFINE expected == IF inside THEN "ok" ELSE "step"
<1>1. /\ CInv /\ Place /\ Upgrader \in Programs /\ stage = "servers" /\ pc[Upgrader] = "running"
      /\ stage' = "indices" /\ UNCHANGED <<db, exists, wal, tx, pc, done, left, at, rounds>>
      /\ outcome \in {expected, "step"}
      /\ failed' = IF outcome = expected THEN failed ELSE failed \cup {<<"commit">>}
  BY UpgradePrograms DEF CommitUpgrade, RunQuery, PInv, Place, file, Copying, OfServers
<1>2. CASE outcome = "ok"
  <2>1. /\ data' = Seen /\ work' = NoRows /\ inside' = FALSE
        /\ writer' = IF writer = Upgrader THEN None ELSE writer
    BY <1>2 DEF CommitUpgrade
  <2>2. done' = [q \in Programs |-> IF q = Upgrader THEN done'[Upgrader] ELSE done[q]]
    BY <1>1 DEF CInv
  <2>3. CInv'
    BY <1>1, <2>1, <2>2, Beside
  <2>4. IsRows(data') /\ IsRows(work')
    BY <2>1, SeenRows, NoRowsAtAll
  <2>5. writer' # Upgrader
    BY <2>1, UpgradePrograms
  <2>6. Place'
    BY <1>1, <2>1, <2>4, <2>5 DEF Place, Copying, OfPlayers, OfServers, IsRows
  <2>7. Loops'
    BY <1>1 DEF Loops, OfPlayers, OfServers
  <2>8. Began' => Began
    BY <1>1 DEF Began
  <2> QED
    BY <2>1, <2>3, <2>6, <2>7, <2>8 DEF PInv
<1>3. CASE outcome # "ok"
  <2>1. UNCHANGED <<data, work, inside, writer>>
    BY <1>3 DEF CommitUpgrade
  <2>2. done' = [q \in Programs |-> IF q = Upgrader THEN done'[Upgrader] ELSE done[q]]
    BY <1>1 DEF CInv
  <2>3. CInv'
    BY <1>1, <2>1, <2>2, Beside
  <2>4. <<"commit">> \notin failed' => ~inside
    BY <1>1, <1>3
  <2>5. Place'
    BY <1>1, <2>1, <2>4 DEF Place, Committed, Creating, Copying, OfPlayers, OfServers, IsRows
  <2>6. Loops'
    BY <1>1 DEF Loops, OfPlayers, OfServers
  <2>7. Began' => Began
    BY <1>1 DEF Began
  <2> QED
    BY <2>1, <2>3, <2>5, <2>6, <2>7 DEF PInv
<1> QED
  BY <1>2, <1>3

LEMMA CreateAllIndicesAgainPlace ==
  ASSUME DatabaseAssumption, UpgradeAssumption, PInv, NEW outcome, CreateAllIndicesAgain(outcome)
  PROVE  PInv' /\ IndicesBack' /\ (Began' => Began)
<1> DEFINE expected == IF db.indices THEN "prepare" ELSE "ok"
<1>1. /\ CInv /\ Place /\ Upgrader \in Programs /\ stage = "indices" /\ pc[Upgrader] = "running"
      /\ stage' = "ended" /\ UNCHANGED <<done, inside, left, at, data, work>>
      /\ Statement("CREATE INDEX", <<"indices">>, expected, outcome)
  BY UpgradePrograms DEF CreateAllIndicesAgain, PInv, Place
<1>2. /\ UNCHANGED <<tx, pc>>
      /\ outcome # "step" => writer \in {None, Upgrader}
      /\ writer' = writer \/ (writer = None /\ writer' = Upgrader /\ inside)
      /\ writer' = Upgrader => inside
  BY <1>1, StatementFrame
<1>11. /\ outcome \in {expected, "step"}
       /\ failed \subseteq failed'
       /\ <<"indices">> \notin failed' => outcome = expected
  BY <1>1 DEF Statement, RunQuery
<1>3. db' = [db EXCEPT !.indices = @ \/ (outcome = "ok" /\ ~inside)] /\ db \in Contents
  BY <1>1 DEF CreateAllIndicesAgain, CInv
<1>4. \/ db' = db
      \/ writer \in {None, Upgrader} /\ \E b \in BOOLEAN : db' = [db EXCEPT !.indices = b]
  <2>1. CASE outcome = "ok" /\ ~inside
    <3>1. db' = [db EXCEPT !.indices = TRUE]
      BY <1>3, <2>1
    <3> QED
      BY <1>2, <2>1, <3>1
  <2>2. CASE ~(outcome = "ok" /\ ~inside)
    BY <1>3, <2>2 DEF Contents
  <2> QED
    BY <2>1, <2>2
<1>5. CInv'
  <2>1. done' = [q \in Programs |-> IF q = Upgrader THEN done'[Upgrader] ELSE done[q]]
    BY <1>1 DEF CInv
  <2> QED
    BY <1>1, <1>2, <1>4, <2>1, Beside
<1>6. Committed' => ~inside
  BY <1>11, <1>1 DEF Place, Committed
<1>7. Place'
  BY <1>1, <1>2, <1>6 DEF Place, Copying, OfPlayers, OfServers, IsRows
<1>8. Loops'
  BY <1>1 DEF Loops, OfPlayers, OfServers
<1>9. IndicesBack'
  <2>1. ASSUME {<<"indices">>, <<"commit">>} \cap failed' = {} PROVE db'.indices
    <3>1. outcome = expected /\ ~inside
      BY <1>11, <1>6, <2>1 DEF Committed
    <3> QED
      BY <1>3, <3>1 DEF Contents
  <2> QED
    BY <2>1 DEF IndicesBack
<1>10. Began' => Began
  BY <1>11 DEF Began
<1> QED
  BY <1>5, <1>7, <1>8, <1>9, <1>10 DEF PInv

\* The upgrade ends, or is killed.
LEMMA LeavePlace ==
  ASSUME DatabaseAssumption, UpgradeAssumption, PInv, stage # "off" \/ pc[Upgrader] = "running",
         Leave, NEW place \in {"off", "failed"}, Goto(Upgrader, place), UNCHANGED <<file, tx, done>>
  PROVE  PInv' /\ stage' = "off" /\ work' = NoRows /\ UNCHANGED <<data, failed>>
<1>1. /\ CInv /\ Place /\ Upgrader \in Programs /\ pc[Upgrader] = "running"
      /\ writer' = IF writer = Upgrader THEN None ELSE writer
      /\ stage' = "off" /\ inside' = FALSE /\ work' = NoRows
      /\ UNCHANGED <<data, rounds, failed, db, tx, done>>
  BY UpgradePrograms DEF Leave, PInv, Place, file
<1>2. place \notin Creating \cup {"running"}
  BY DEF Creating
<1>3. CInv'
  <2>1. done' = [q \in Programs |-> IF q = Upgrader THEN done'[Upgrader] ELSE done[q]]
    BY <1>1 DEF CInv
  <2> QED
    BY <1>1, <1>2, <2>1, Beside
<1>4. writer' # Upgrader
  BY <1>1, UpgradePrograms
<1>5. IsRows(work')
  BY <1>1, NoRowsAtAll
<1>6. Place'
  BY <1>1, <1>4, <1>5 DEF Place, Copying, OfPlayers, OfServers, IsRows
<1>7. Loops'
  BY <1>1 DEF Loops, OfPlayers, OfServers
<1> QED
  BY <1>1, <1>3, <1>6, <1>7 DEF PInv

LEMMA StartPlace ==
  ASSUME DatabaseAssumption, UpgradeAssumption, PInv, NEW p \in Programs, Start(p)
  PROVE  PInv'
<1>1. Place /\ Loops
  BY DEF PInv
<1>2. /\ CInv'
      /\ UNCHANGED <<stage, inside, left, at, data, work, rounds, failed>>
      /\ writer' = Upgrader => pc'[Upgrader] \in Creating \/ (stage # "off" /\ inside)
      /\ stage # "off" => pc'[Upgrader] = "running" /\ done'[Upgrader] = done[Upgrader]
  BY StartFrame
<1>3. Place'
  BY <1>1, <1>2 DEF Place, Began, Committed, IsRows
<1>4. Loops'
  <2>1. stage = "off" => Loops'
    BY <1>2 DEF Loops, OfPlayers, OfServers
  <2>2. stage # "off" => Loops'
    BY <1>1, <1>2 DEF Loops
  <2> QED
    BY <2>1, <2>2
<1> QED
  BY <1>2, <1>3, <1>4 DEF PInv

\* A round leaves all but the player it rates.
LEMMA RoundPlace ==
  ASSUME DatabaseAssumption, UpgradeAssumption, PInv, NEW n, Round(n)
  PROVE  /\ PInv'
         /\ Seen = data /\ Seen' = data'
         /\ data' = WithPlayer(data, n, [elo |-> UpdateElo, by |-> Updater])
         /\ UNCHANGED <<vars, stage, left, at, work, failed>>
<1>1. /\ CInv /\ Place /\ Loops /\ writer = None
      /\ data' = WithPlayer(data, n, [elo |-> UpdateElo, by |-> Updater])
      /\ UNCHANGED <<vars, stage, inside, left, at, work, failed>>
  BY DEF Round, PInv
<1>2. UNCHANGED <<db, writer, tx, pc, done>>
  BY <1>1 DEF vars
<1>3. CInv'
  BY <1>1, CreationStep
<1>4. IsRows(data')
  BY <1>1, WithPlayerRows DEF Place
<1>5. Place'
  BY <1>1, <1>2, <1>4 DEF Place, Began, Committed, IsRows
<1>6. Loops'
  BY <1>1, <1>2 DEF Loops
<1>7. Seen = data /\ Seen' = data'
  BY <1>1, <1>2, UpgradePrograms DEF Seen
<1> QED
  BY <1>1, <1>3, <1>5, <1>6, <1>7 DEF PInv

-----------------------------------------------------------------------------
\* The records of the files.

LEMMA NoRecords == ASSUME NEW f PROVE FirstRecords(f, 0) = {}
BY DEF FirstRecords

LEMMA OneMoreRecord ==
  ASSUME NEW f, NEW n \in Nat
  PROVE  FirstRecords(f, n + 1) = FirstRecords(f, n)
           \cup {[name |-> HexnameToName(f), time |-> ValidRecords(f)[n + 1].time,
                  elo |-> ValidRecords(f)[n + 1].elo]}
<1>1. 1..(n + 1) = 1..n \cup {n + 1}
  OBVIOUS
<1> QED
  BY <1>1 DEF FirstRecords

LEMMA AllRecords ==
  ASSUME UpgradeAssumption, NEW f \in DOMAIN Players
  PROVE  OldRecords(f) = FirstRecords(f, Len(ValidRecords(f)))
<1>1. DOMAIN ValidRecords(f) = 1..Len(ValidRecords(f))
  BY DEF UpgradeAssumption
<1> QED
  BY <1>1 DEF OldRecords, FirstRecords, Elements

LEMMA NamesDiffer ==
  ASSUME UpgradeAssumption, NEW f \in DOMAIN Players, NEW g \in DOMAIN Players, f # g
  PROVE  HexnameToName(f) # HexnameToName(g)
BY DEF UpgradeAssumption

LEMMA NobodyIsBacked == Backed(NoRows)
BY DEF Backed, NoRows

\* The rows of players are the same, and no record is removed.
LEMMA BackedMore ==
  ASSUME NEW d, NEW e, Backed(d), e.player = d.player, d.historic \subseteq e.historic
  PROVE  Backed(e)
BY DEF Backed

LEMMA BackedWith ==
  ASSUME NEW d, IsRows(d), Backed(d), NEW name, NEW row, NEW e, e = WithPlayer(d, name, row),
         row.by = Upgrader => \A f \in DOMAIN Players :
                                 name = HexnameToName(f) => OldRecords(f) \subseteq d.historic
  PROVE  Backed(e)
<1>1. /\ e.player = [n \in DOMAIN d.player \cup {name} |-> IF n = name THEN row ELSE d.player[n]]
      /\ e.historic = d.historic
  BY WithPlayerRows, WithPlayerPlayers
<1> QED
  BY <1>1 DEF Backed

LEMMA SeenIsBacked == ASSUME HInv PROVE Backed(Seen)
BY DEF HInv, Seen

\* What everybody sees is backed, after a statement that leaves backed rows.
LEMMA CopyIsBacked ==
  ASSUME DatabaseAssumption, UpgradeAssumption, PInv, HInv, stage \in Copying,
         NEW query, NEW subject, NEW expected, NEW outcome, NEW rows, Backed(rows),
         Statement(query, subject, expected, outcome), Write(rows, outcome)
  PROVE  Backed(data') /\ Backed(work')
<1>1. /\ Seen' = IF outcome = "ok" THEN rows ELSE Seen
      /\ data' = IF inside THEN data ELSE Seen'
      /\ work' = Seen' \/ work' = NoRows
  BY Written
<1>2. Backed(Seen')
  BY <1>1, SeenIsBacked
<1> QED
  BY <1>1, <1>2, NobodyIsBacked DEF HInv

\* What UpgradeHistoric leaves to all of the invariant: a record is inserted,
\* or it was there, or the statement has failed.
NextRecord == [name |-> HexnameToName(at), time |-> ValidRecords(at)[done[Upgrader] + 1].time,
               elo |-> ValidRecords(at)[done[Upgrader] + 1].elo]

Known == \E h \in Seen.historic : h.name = NextRecord.name /\ h.time = NextRecord.time

LEMMA HistoricStatement ==
  ASSUME PInv, NEW outcome, UpgradeHistoric(outcome)
  PROVE  \E rows, query, expected :
            /\ rows.player = Seen.player /\ rows.server = Seen.server /\ rows.clients = Seen.clients
            /\ rows.historic = Seen.historic \cup {NextRecord}
            /\ expected = IF Known THEN "step" ELSE "ok"
            /\ Statement(query, at, expected, outcome) /\ Write(rows, outcome)
<1> DEFINE record == [name |-> HexnameToName(at), time |-> ValidRecords(at)[done[Upgrader] + 1].time,
                      elo |-> ValidRecords(at)[done[Upgrader] + 1].elo]
           known == \E h \in Seen.historic :
                       /\ h.name = HexnameToName(at)
                       /\ h.time = ValidRecords(at)[done[Upgrader] + 1].time
           rows == [Seen EXCEPT !.historic = @ \cup {record}]
<1>1. /\ Statement("INSERT INTO player_historic", at, IF known THEN "step" ELSE "ok", outcome)
      /\ Write(rows, outcome)
  BY DEF UpgradeHistoric
<1>2. known = Known /\ record = NextRecord
  BY DEF Known, NextRecord
<1>3. /\ rows.player = Seen.player /\ rows.server = Seen.server /\ rows.clients = Seen.clients
      /\ rows.historic = Seen.historic \cup {record}
  BY SeenRows DEF IsRows
<1> HIDE DEF known, record, rows
<1> QED
  BY <1>1, <1>2, <1>3

LEMMA HistoricFrame ==
  ASSUME DatabaseAssumption, UpgradeAssumption, PInv, NEW outcome, UpgradeHistoric(outcome)
  PROVE  /\ stage = "historic" /\ stage \in Copying /\ UNCHANGED <<left, at>>
         /\ at \in DOMAIN Players \ left /\ Len(ValidRecords(at)) \in Nat
         /\ done[Upgrader] \in Nat /\ done[Upgrader] < Len(ValidRecords(at))
         /\ outcome # "ok" => stage' = "players"
         /\ outcome = "ok" => /\ stage' \in {"historic", "player"}
                              /\ Reached' = done[Upgrader] + 1
<1> DEFINE n == Len(ValidRecords(at))
<1>1. /\ stage = "historic" /\ stage \in Copying /\ UNCHANGED <<left, at>>
      /\ stage' = IF outcome # "ok" THEN "players"
                  ELSE IF done'[Upgrader] = 0 THEN "player" ELSE "historic"
  BY DEF UpgradeHistoric, Copying, OfPlayers
<1>2. /\ at \in DOMAIN Players \ left
      /\ done[Upgrader] \in Nat /\ done[Upgrader] < n /\ n \in Nat
  BY <1>1, UpgradeAssumption DEF PInv, Loops, OfPlayers, UpgradeAssumption
<1>3. done'[Upgrader] = IF outcome = "ok" THEN (done[Upgrader] + 1) % n ELSE 0
  BY UpgradePrograms DEF PInv, CInv, UpgradeHistoric
<1>4. ASSUME outcome = "ok" PROVE Reached' = done[Upgrader] + 1
  <2>1. CASE done[Upgrader] + 1 = n /\ (done[Upgrader] + 1) % n = 0
    BY <1>1, <1>2, <1>3, <1>4, <2>1 DEF Reached
  <2>2. CASE done[Upgrader] + 1 < n /\ (done[Upgrader] + 1) % n = done[Upgrader] + 1
    BY <1>1, <1>2, <1>3, <1>4, <2>2 DEF Reached
  <2> QED
    BY <1>2, <2>1, <2>2, Turn
<1> QED
  BY <1>1, <1>2, <1>4

LEMMA UpgradeHistoricBacked ==
  ASSUME DatabaseAssumption, UpgradeAssumption, PInv, HInv, NEW outcome, UpgradeHistoric(outcome)
  PROVE  HInv'
<1>1. PICK rows, query, expected :
         /\ rows.player = Seen.player /\ rows.historic = Seen.historic \cup {NextRecord}
         /\ Statement(query, at, expected, outcome) /\ Write(rows, outcome)
  BY HistoricStatement
<1>2. stage = "historic" /\ stage \in Copying /\ UNCHANGED at /\ done[Upgrader] \in Nat
  BY HistoricFrame
<1>3. Backed(rows)
  BY <1>1, SeenIsBacked, BackedMore
<1>4. Backed(data') /\ Backed(work')
  BY <1>1, <1>2, <1>3, CopyIsBacked
<1>5. ASSUME stage' \in {"historic", "player"} PROVE FirstRecords(at, Reached') \subseteq Seen'.historic
  <2>1. outcome = "ok" /\ Reached' = done[Upgrader] + 1
    BY <1>5, HistoricFrame
  <2>2. Seen' = rows
    BY <1>1, <1>2, <2>1, Written
  <2>3. FirstRecords(at, done[Upgrader]) \subseteq Seen.historic
    BY <1>2 DEF HInv, Reached
  <2>4. FirstRecords(at, done[Upgrader] + 1) = FirstRecords(at, done[Upgrader]) \cup {NextRecord}
    BY <1>2, OneMoreRecord DEF NextRecord
  <2> QED
    BY <1>1, <2>1, <2>2, <2>3, <2>4
<1> QED
  BY <1>2, <1>4, <1>5 DEF HInv

LEMMA WritePlayerBacked ==
  ASSUME DatabaseAssumption, UpgradeAssumption, PInv, HInv, NEW outcome, WritePlayer(outcome)
  PROVE  HInv'
<1> DEFINE rows == WithPlayer(Seen, HexnameToName(at), [elo |-> UpgradedElo(at), by |-> Upgrader])
<1>1. /\ stage = "player" /\ stage' = "players" /\ stage \in Copying
      /\ Statement("INSERT INTO players", at, "ok", outcome)
      /\ Write(rows, outcome)
  BY DEF WritePlayer, Copying, OfPlayers
<1>2. at \in DOMAIN Players
  BY <1>1 DEF PInv, Loops
<1>3. OldRecords(at) \subseteq Seen.historic
  BY <1>1, <1>2, AllRecords DEF HInv, Reached
<1>4. \A f \in DOMAIN Players :
         HexnameToName(at) = HexnameToName(f) => OldRecords(f) \subseteq Seen.historic
  BY <1>2, <1>3, NamesDiffer
<1>5. Backed(rows)
  BY <1>4, SeenRows, SeenIsBacked, BackedWith
<1> HIDE DEF rows
<1>6. Backed(data') /\ Backed(work')
  BY <1>1, <1>5, CopyIsBacked
<1> QED
  BY <1>1, <1>6 DEF HInv

\* The statements about servers.
LEMMA ServersBacked ==
  ASSUME DatabaseAssumption, UpgradeAssumption, PInv, HInv, stage \in OfServers, stage' \in OfServers,
         NEW query, NEW subject, NEW expected, NEW outcome, NEW rows,
         rows.player = Seen.player, rows.historic = Seen.historic,
         Statement(query, subject, expected, outcome), Write(rows, outcome)
  PROVE  HInv'
<1>1. Backed(rows)
  BY SeenIsBacked, BackedMore
<1>2. Backed(data') /\ Backed(work')
  BY <1>1, CopyIsBacked DEF Copying
<1> QED
  BY <1>2 DEF HInv, OfServers

LEMMA ServerRows ==
  ASSUME NEW d, IsRows(d), NEW x
  PROVE  /\ [d EXCEPT !.server = x].player = d.player
         /\ [d EXCEPT !.server = x].historic = d.historic
         /\ [d EXCEPT !.server = x].server = x
         /\ [d EXCEPT !.server = x].clients = d.clients
         /\ [d EXCEPT !.clients = x].player = d.player
         /\ [d EXCEPT !.clients = x].historic = d.historic
         /\ [d EXCEPT !.clients = x].server = d.server
         /\ [d EXCEPT !.clients = x].clients = x
BY DEF IsRows

\* All statements about servers leave the players as they are.
LEMMA ServerSteps ==
  ASSUME PInv, NEW outcome,
         WriteServer(outcome) \/ FlushServerClients(outcome) \/ WriteServerClient(outcome)
  PROVE  /\ stage \in OfServers /\ stage' \in OfServers
         /\ \E query, rows : /\ rows.player = Seen.player /\ rows.historic = Seen.historic
                             /\ Statement(query, at', "ok", outcome) /\ Write(rows, outcome)
<1>1. CASE WriteServer(outcome)
  <2>1. PICK s \in left :
           /\ at' = s
           /\ Statement("INSERT INTO servers", s, "ok", outcome)
           /\ Write([Seen EXCEPT !.server = @ \cup {s}], outcome)
    BY <1>1 DEF WriteServer
  <2> DEFINE rows == [Seen EXCEPT !.server = @ \cup {s}]
  <2>2. rows.player = Seen.player /\ rows.historic = Seen.historic
    BY SeenRows, ServerRows
  <2> HIDE DEF rows
  <2>3. Statement("INSERT INTO servers", at', "ok", outcome) /\ Write(rows, outcome)
    BY <2>1 DEF rows
  <2> QED
    BY <1>1, <2>2, <2>3 DEF WriteServer, OfServers
<1>2. CASE FlushServerClients(outcome)
  <2> DEFINE rows == [Seen EXCEPT !.clients = {c \in @ : c[1] # at}]
  <2>1. rows.player = Seen.player /\ rows.historic = Seen.historic
    BY SeenRows, ServerRows
  <2>2. /\ Statement("DELETE FROM server_clients", at, "ok", outcome) /\ at' = at
        /\ Write(rows, outcome)
    BY <1>2 DEF FlushServerClients
  <2>3. stage \in OfServers /\ stage' \in OfServers
    BY <1>2 DEF FlushServerClients, OfServers
  <2> HIDE DEF rows
  <2> QED
    BY <2>1, <2>2, <2>3
<1>3. CASE WriteServerClient(outcome)
  <2> DEFINE rows == [Seen EXCEPT !.clients = @ \cup {<<at, Servers[at][done[Upgrader] + 1]>>}]
  <2>1. rows.player = Seen.player /\ rows.historic = Seen.historic
    BY SeenRows, ServerRows
  <2>2. /\ Statement("INSERT INTO server_clients", at, "ok", outcome) /\ at' = at
        /\ Write(rows, outcome)
    BY <1>3 DEF WriteServerClient
  <2>3. stage \in OfServers /\ stage' \in OfServers
    BY <1>3 DEF WriteServerClient, OfServers
  <2> HIDE DEF rows
  <2> QED
    BY <2>1, <2>2, <2>3
<1> QED
  BY <1>1, <1>2, <1>3

-----------------------------------------------------------------------------
\* The steps of all programs together.

LEMMA LeaveSteps ==
  ASSUME DatabaseAssumption, UpgradeAssumption, PInv, EndUpgrade \/ NoDirectory \/ KillUpgrade
  PROVE  PInv' /\ stage' = "off" /\ work' = NoRows /\ UNCHANGED <<data, failed>>
<1>1. CASE EndUpgrade
  BY <1>1, LeavePlace DEF EndUpgrade
<1>2. CASE NoDirectory
  BY <1>2, LeavePlace DEF NoDirectory
<1>3. CASE KillUpgrade
  BY <1>3, LeavePlace DEF KillUpgrade
<1> QED
  BY <1>1, <1>2, <1>3

LEMMA UpgradeStutter ==
  ASSUME UNCHANGED allVars
  PROVE  UNCHANGED <<db, writer, tx, pc, done, stage, inside, left, at, data, work, failed>>
BY DEF allVars, vars, upgradeVars

\* One step per action.
LEMMA PlaceStep ==
  ASSUME DatabaseAssumption, UpgradeAssumption, PInv, [UpgradeNext]_allVars PROVE PInv'
<1>1. CASE UNCHANGED allVars
  <2>1. CInv'
    BY <1>1, CreationStep DEF PInv, allVars, vars
  <2>2. Place' /\ Loops'
    BY <1>1, UpgradeStutter DEF PInv, Place, Loops, Began, Committed, IsRows
  <2> QED
    BY <2>1, <2>2 DEF PInv
<1>2. CASE UpgradeStep
  BY <1>2, ReadPlayerPlace, LeaveSteps, DropAllIndicesPlace, BeginUpgradePlace,
     UpgradeHistoricPlace, WritePlayerPlace, WriteServerPlace, FlushPlace, WriteServerClientPlace,
     CommitUpgradePlace, CreateAllIndicesAgainPlace DEF UpgradeStep
<1>3. CASE NoDirectory \/ KillUpgrade
  BY <1>3, LeaveSteps
<1> QED
  BY <1>1, <1>2, <1>3, StartPlace, RoundPlace DEF UpgradeNext

LEMMA PlaceInit == ASSUME DatabaseAssumption, UpgradeAssumption, UpgradeInit PROVE PInv
<1>1. CInv
  BY CreationInit DEF UpgradeInit
<1>2. writer # Upgrader
  BY UpgradePrograms DEF UpgradeInit, Init
<1>3. Place /\ Loops
  BY <1>2, NoRowsAtAll DEF UpgradeInit, Place, Loops, Copying, OfPlayers, OfServers
<1> QED
  BY <1>1, <1>3 DEF PInv

THEOREM UpgradePlaces == UpgradeSpec => []PInv
<1> USE DatabaseAssumption, UpgradeAssumption
<1>1. UpgradeInit => PInv
  BY PlaceInit
<1>2. PInv /\ [UpgradeNext]_allVars => PInv'
  BY PlaceStep
<1> QED
  BY <1>1, <1>2, PTL DEF UpgradeSpec

\* Only create_all_indices() ends the upgrade, and nobody drops them after.
LEMMA IndicesStep ==
  ASSUME DatabaseAssumption, UpgradeAssumption, PInv, IndicesBack, [UpgradeNext]_allVars
  PROVE  IndicesBack'
<1>1. CASE UNCHANGED allVars
  BY <1>1, UpgradeStutter DEF IndicesBack
<1>2. CASE stage' # "ended"
  BY <1>2 DEF IndicesBack
<1>3. ASSUME NEW p \in Programs, Start(p) PROVE IndicesBack'
  BY <1>3, StartFrame DEF IndicesBack
<1>4. ASSUME NEW n, Round(n) PROVE IndicesBack'
  BY <1>4, RoundPlace DEF IndicesBack, vars
<1>5. CASE NoDirectory \/ KillUpgrade \/ EndUpgrade
  BY <1>5, <1>2, LeaveSteps
<1>6. CASE ReadPlayer
  BY <1>6, <1>2 DEF ReadPlayer
<1>7. ASSUME NEW outcome, CreateAllIndicesAgain(outcome) PROVE IndicesBack'
  BY <1>7, CreateAllIndicesAgainPlace
<1>8. ASSUME NEW outcome, \/ DropAllIndices(outcome) \/ BeginUpgrade(outcome)
                          \/ UpgradeHistoric(outcome) \/ WritePlayer(outcome)
                          \/ WriteServer(outcome) \/ FlushServerClients(outcome)
                          \/ WriteServerClient(outcome) \/ CommitUpgrade(outcome)
      PROVE  IndicesBack'
  <2>1. stage' # "ended"
    BY <1>8 DEF DropAllIndices, BeginUpgrade, UpgradeHistoric, WritePlayer, WriteServer,
                FlushServerClients, WriteServerClient, CommitUpgrade
  <2> QED
    BY <1>2, <2>1
<1> QED
  BY <1>1, <1>3, <1>4, <1>5, <1>6, <1>7, <1>8 DEF UpgradeNext, UpgradeStep

\* The indices dropped before the transaction are back when an upgrade ends
\* without an error, whatever was killed before.
THEOREM AlwaysIndicesBack == UpgradeSpec => []IndicesBack
<1> USE DatabaseAssumption, UpgradeAssumption
<1>1. UpgradeInit => IndicesBack
  BY DEF UpgradeInit, IndicesBack
<1>2. PInv /\ IndicesBack /\ [UpgradeNext]_allVars => IndicesBack'
  BY IndicesStep
<1> QED
  BY <1>1, <1>2, UpgradePlaces, PTL DEF UpgradeSpec

\* No record of the next file has been inserted.
LEMMA ReadPlayerReached ==
  ASSUME DatabaseAssumption, UpgradeAssumption, PInv, ReadPlayer, stage' \in {"historic", "player"}
  PROVE  FirstRecords(at', Reached') = {}
<1>1. UNCHANGED done
  BY ReadPlayerPlace
<1>2. CASE stage' = "player"
  <2>1. ValidRecords(at') = <<>>
    BY <1>2 DEF ReadPlayer
  <2> QED
    BY <1>2, <2>1, NoRecords DEF Reached
<1>3. CASE stage' = "historic"
  <2>1. done[Upgrader] = 0
    BY DEF ReadPlayer, PInv, Loops
  <2> QED
    BY <1>1, <1>3, <2>1, NoRecords DEF Reached
<1> QED
  BY <1>2, <1>3

\* One step per action.
LEMMA HistoricStep ==
  ASSUME DatabaseAssumption, UpgradeAssumption, PInv, HInv, [UpgradeNext]_allVars
  PROVE  HInv'
<1>1. ASSUME UNCHANGED <<data, work>>, stage' \notin {"historic", "player"} PROVE HInv'
  BY <1>1 DEF HInv
<1>2. CASE UNCHANGED allVars
  BY <1>2, UpgradeStutter DEF HInv, Reached, Seen
<1>3. ASSUME NEW p \in Programs, Start(p) PROVE HInv'
  <2>1. /\ UNCHANGED <<stage, at, data, work>>
        /\ stage # "off" => Seen' = Seen /\ done'[Upgrader] = done[Upgrader]
    BY <1>3, StartFrame
  <2> QED
    BY <2>1 DEF HInv, Reached
<1>4. ASSUME NEW name, Round(name) PROVE HInv'
  <2>1. /\ Seen = data /\ Seen' = data' /\ UNCHANGED <<stage, at, work, done>>
        /\ data' = WithPlayer(data, name, [elo |-> UpdateElo, by |-> Updater])
    BY <1>4, RoundPlace DEF vars
  <2>2. IsRows(data) /\ Upgrader # Updater
    BY UpgradePrograms DEF PInv, Place
  <2>3. Backed(data') /\ data'.historic = data.historic
    <3>1. PICK row : row = [elo |-> UpdateElo, by |-> Updater]
      OBVIOUS
    <3>2. row.by # Upgrader
      BY <2>2, <3>1
    <3>3. PICK new : new = WithPlayer(data, name, row)
      OBVIOUS
    <3>4. data' = new /\ Backed(data)
      BY <2>1, <3>1, <3>3 DEF HInv
    <3>5. Backed(new)
      BY <2>2, <3>2, <3>3, <3>4, BackedWith
    <3>6. new.historic = data.historic
      BY <2>2, <3>3, WithPlayerRows
    <3> QED
      BY <3>4, <3>5, <3>6
  <2> QED
    BY <2>1, <2>3 DEF HInv, Reached
<1>5. CASE NoDirectory \/ KillUpgrade \/ EndUpgrade
  BY <1>5, LeaveSteps, NobodyIsBacked DEF HInv
<1>6. CASE ReadPlayer
  BY <1>6, ReadPlayerPlace, ReadPlayerReached DEF HInv
<1>7. ASSUME NEW outcome, CommitUpgrade(outcome) PROVE HInv'
  BY <1>7, CommitUpgradePlace, SeenIsBacked, NobodyIsBacked DEF CommitUpgrade, HInv
<1>8. ASSUME NEW outcome, \/ DropAllIndices(outcome) \/ BeginUpgrade(outcome)
                          \/ CreateAllIndicesAgain(outcome)
      PROVE  HInv'
  BY <1>1, <1>8 DEF DropAllIndices, BeginUpgrade, CreateAllIndicesAgain
<1>9. ASSUME NEW outcome,
             WriteServer(outcome) \/ FlushServerClients(outcome) \/ WriteServerClient(outcome)
      PROVE  HInv'
  <2>1. PICK query, rows : /\ rows.player = Seen.player /\ rows.historic = Seen.historic
                           /\ Statement(query, at', "ok", outcome) /\ Write(rows, outcome)
    BY <1>9, ServerSteps
  <2> QED
    BY <1>9, <2>1, ServerSteps, ServersBacked
<1> QED
  BY <1>2, <1>3, <1>4, <1>5, <1>6, <1>7, <1>8, <1>9, UpgradeHistoricBacked, WritePlayerBacked
     DEF UpgradeNext, UpgradeStep

\* The rows of the database and of the transaction are backed by their records.
THEOREM AlwaysBacked == UpgradeSpec => []HInv
<1> USE DatabaseAssumption, UpgradeAssumption
<1>1. UpgradeInit => HInv
  BY NobodyIsBacked DEF UpgradeInit, HInv
<1>2. PInv /\ HInv /\ [UpgradeNext]_allVars => HInv'
  BY HistoricStep
<1> QED
  BY <1>1, <1>2, UpgradePlaces, PTL DEF UpgradeSpec

\* A player who comes from the files comes with all of his records, whatever
\* statements fail, in a transaction or not.
THEOREM AlwaysHistoricWhole == UpgradeSpec => []HistoricWhole
<1>1. HInv => HistoricWhole
  BY DEF HInv, Backed, HistoricWhole
<1> QED
  BY <1>1, AlwaysBacked, PTL

-----------------------------------------------------------------------------
\* Rounds that come after the upgrade.

\* A statement in the transaction.
LEMMA InTransaction ==
  ASSUME DatabaseAssumption, UpgradeAssumption, PInv, stage \in Copying, Began',
         NEW query, NEW subject, NEW expected, NEW outcome, NEW rows,
         Statement(query, subject, expected, outcome), Write(rows, outcome)
  PROVE  /\ Began
         /\ data' = data
         /\ Seen' = IF outcome = "ok" THEN rows ELSE Seen
         /\ failed \subseteq failed'
         /\ outcome \in {expected, "step"}
         /\ subject \notin failed' => outcome = expected
<1>1. pc[Upgrader] = "running"
  BY DEF PInv, Place, Copying, OfPlayers, OfServers
<1>2. /\ failed \subseteq failed' /\ outcome \in {expected, "step"}
      /\ subject \notin failed' => outcome = expected
  BY <1>1, StatementFrame
<1>3. Began
  BY <1>2 DEF Began
<1>4. inside
  BY <1>3 DEF PInv, Place
<1> QED
  BY <1>2, <1>3, <1>4, Written

LEMMA UpgradeHistoricNewer ==
  ASSUME DatabaseAssumption, UpgradeAssumption, PInv, NInv, NEW outcome, UpgradeHistoric(outcome)
  PROVE  NInv'
<1> SUFFICES ASSUME Began' PROVE NInv'
  BY DEF NInv
<1>1. PICK rows, query, expected :
         /\ rows.player = Seen.player /\ rows.historic = Seen.historic \cup {NextRecord}
         /\ expected = IF Known THEN "step" ELSE "ok"
         /\ Statement(query, at, expected, outcome) /\ Write(rows, outcome)
  BY HistoricStatement
<1>2. stage = "historic" /\ stage \in Copying /\ UNCHANGED at /\ done[Upgrader] \in Nat
  BY HistoricFrame
<1>3. /\ Began /\ data' = data
      /\ Seen' = IF outcome = "ok" THEN rows ELSE Seen
      /\ outcome \in {expected, "step"}
  BY <1>1, <1>2, InTransaction
<1>4. /\ data.historic \subseteq Seen.historic
      /\ \A f \in DOMAIN Players :
            RatedIn(data, f) /\ OldRecords(f) \cap data.historic # {} => RatedIn(Seen, f)
      /\ FirstRecords(at, done[Upgrader]) \cap data.historic = {}
  BY <1>2, <1>3 DEF NInv, Reached
<1>5. Seen'.player = Seen.player /\ Seen.historic \subseteq Seen'.historic
  BY <1>1, <1>3
<1>6. \A f \in DOMAIN Players : RatedIn(Seen, f) => RatedIn(Seen', f)
  BY <1>5 DEF RatedIn
<1>7. ASSUME stage' \in {"historic", "player"} PROVE FirstRecords(at, Reached') \cap data.historic = {}
  <2>1. outcome = "ok" /\ Reached' = done[Upgrader] + 1
    BY <1>7, HistoricFrame
  <2>2. ~Known
    BY <1>1, <1>3, <2>1
  <2>3. NextRecord \notin data.historic
    BY <1>4, <2>2 DEF Known
  <2>4. FirstRecords(at, done[Upgrader] + 1) = FirstRecords(at, done[Upgrader]) \cup {NextRecord}
    BY <1>2, OneMoreRecord DEF NextRecord
  <2> QED
    BY <1>4, <2>1, <2>3, <2>4
<1> QED
  BY <1>2, <1>3, <1>4, <1>5, <1>6, <1>7 DEF NInv

LEMMA PlayerStatement ==
  ASSUME PInv, NEW outcome, WritePlayer(outcome)
  PROVE  /\ stage = "player" /\ stage \in Copying /\ stage' = "players" /\ UNCHANGED <<left, at>>
         /\ at \in DOMAIN Players \ left
         /\ \E rows, query, expected :
               /\ rows.player = [n \in DOMAIN Seen.player \cup {HexnameToName(at)} |->
                                   IF n = HexnameToName(at)
                                     THEN [elo |-> UpgradedElo(at), by |-> Upgrader]
                                     ELSE Seen.player[n]]
               /\ rows.historic = Seen.historic
               /\ rows.server = Seen.server /\ rows.clients = Seen.clients
               /\ expected = "ok"
               /\ Statement(query, at, expected, outcome) /\ Write(rows, outcome)
<1>1. /\ stage = "player" /\ stage \in Copying /\ stage' = "players" /\ UNCHANGED <<left, at>>
      /\ at \in DOMAIN Players \ left
  BY DEF WritePlayer, Copying, OfPlayers, PInv, Loops
<1>2. PICK row : row = [elo |-> UpgradedElo(at), by |-> Upgrader]
  OBVIOUS
<1>3. PICK rows : rows = WithPlayer(Seen, HexnameToName(at), row)
  OBVIOUS
<1>4. Statement("INSERT INTO players", at, "ok", outcome) /\ Write(rows, outcome)
  BY <1>2, <1>3 DEF WritePlayer
<1>5. /\ rows.historic = Seen.historic
      /\ rows.server = Seen.server /\ rows.clients = Seen.clients
  BY <1>3, SeenRows, WithPlayerRows
<1>6. rows.player = [n \in DOMAIN Seen.player \cup {HexnameToName(at)} |->
                       IF n = HexnameToName(at) THEN row ELSE Seen.player[n]]
  BY <1>3, SeenRows, WithPlayerPlayers
<1> QED
  BY <1>1, <1>2, <1>4, <1>5, <1>6

LEMMA WritePlayerNewer ==
  ASSUME DatabaseAssumption, UpgradeAssumption, PInv, NInv, NEW outcome, WritePlayer(outcome)
  PROVE  NInv'
<1> SUFFICES ASSUME Began' PROVE NInv'
  BY DEF NInv
<1>1. /\ stage = "player" /\ stage \in Copying /\ stage' = "players" /\ at \in DOMAIN Players
  BY PlayerStatement
<1>2. PICK rows, query, expected :
         /\ rows.player = [n \in DOMAIN Seen.player \cup {HexnameToName(at)} |->
                             IF n = HexnameToName(at)
                               THEN [elo |-> UpgradedElo(at), by |-> Upgrader]
                               ELSE Seen.player[n]]
         /\ rows.historic = Seen.historic
         /\ Statement(query, at, expected, outcome) /\ Write(rows, outcome)
  BY PlayerStatement
<1>3. /\ Began /\ data' = data
      /\ Seen' = IF outcome = "ok" THEN rows ELSE Seen
  BY <1>1, <1>2, InTransaction
<1>4. /\ data.historic \subseteq Seen.historic
      /\ \A f \in DOMAIN Players :
            RatedIn(data, f) /\ OldRecords(f) \cap data.historic # {} => RatedIn(Seen, f)
      /\ OldRecords(at) \cap data.historic = {}
  BY <1>1, <1>3, AllRecords DEF NInv, Reached
<1>5. ASSUME NEW f \in DOMAIN Players, RatedIn(data, f), OldRecords(f) \cap data.historic # {}
      PROVE  RatedIn(Seen', f)
  <2>1. f # at /\ RatedIn(Seen, f)
    BY <1>4, <1>5
  <2>2. HexnameToName(f) # HexnameToName(at)
    BY <1>1, <2>1, NamesDiffer
  <2>3. CASE outcome = "ok"
    <3>1. Seen' = rows
      BY <1>3, <2>3
    <3>2. rows.player[HexnameToName(f)] = Seen.player[HexnameToName(f)]
          /\ HexnameToName(f) \in DOMAIN rows.player
      BY <1>2, <2>1, <2>2 DEF RatedIn
    <3> QED
      BY <2>1, <3>1, <3>2 DEF RatedIn
  <2>4. CASE outcome # "ok"
    BY <1>3, <2>1, <2>4
  <2> QED
    BY <2>3, <2>4
<1>6. Seen'.historic = Seen.historic
  BY <1>2, <1>3
<1> QED
  BY <1>1, <1>3, <1>4, <1>5, <1>6 DEF NInv

\* One step per action.
LEMMA NewerStep ==
  ASSUME DatabaseAssumption, UpgradeAssumption, PInv, NInv, [UpgradeNext]_allVars
  PROVE  NInv'
<1>1. ASSUME stage' \notin Copying PROVE NInv'
  BY <1>1 DEF NInv
<1>2. CASE UNCHANGED allVars
  BY <1>2, UpgradeStutter DEF NInv, Reached, Seen, Began
<1>3. ASSUME NEW p \in Programs, Start(p) PROVE NInv'
  <2>1. /\ UNCHANGED <<stage, at, data, failed>>
        /\ stage # "off" => Seen' = Seen /\ done'[Upgrader] = done[Upgrader]
    BY <1>3, StartFrame
  <2>2. CASE stage = "off"
    BY <1>1, <2>1, <2>2 DEF Copying, OfPlayers, OfServers
  <2>3. CASE stage # "off"
    BY <2>1, <2>3 DEF NInv, Reached, Began
  <2> QED
    BY <2>2, <2>3
<1>4. ASSUME NEW name, Round(name) PROVE NInv'
  <2>1. /\ Seen = data /\ Seen' = data' /\ UNCHANGED <<stage, at, done, failed>>
        /\ data' = WithPlayer(data, name, [elo |-> UpdateElo, by |-> Updater])
    BY <1>4, RoundPlace DEF vars
  <2>2. IsRows(data)
    BY DEF PInv, Place
  <2>3. PICK row : data' = WithPlayer(data, name, row)
    BY <2>1
  <2>4. data'.historic = data.historic
    <3>1. PICK new : new = data'
      OBVIOUS
    <3> QED
      BY <2>2, <2>3, <3>1, WithPlayerRows
  <2> QED
    BY <2>1, <2>4 DEF NInv, Reached, Began
<1>5. CASE NoDirectory \/ KillUpgrade \/ EndUpgrade
  BY <1>1, <1>5, LeaveSteps DEF Copying, OfPlayers, OfServers
<1>6. CASE ReadPlayer
  BY <1>6, ReadPlayerPlace, ReadPlayerReached DEF NInv, Began, ReadPlayer, Copying, OfPlayers, OfServers
<1>7. ASSUME NEW outcome, BeginUpgrade(outcome) PROVE NInv'
  <2>1. Seen' = data /\ data' = data /\ stage' = "players"
    BY <1>7, BeginUpgradePlace DEF BeginUpgrade
  <2> QED
    BY <2>1 DEF NInv
<1>8. ASSUME NEW outcome, DropAllIndices(outcome) \/ CommitUpgrade(outcome) \/ CreateAllIndicesAgain(outcome)
      PROVE  NInv'
  BY <1>1, <1>8 DEF DropAllIndices, CommitUpgrade, CreateAllIndicesAgain, Copying, OfPlayers, OfServers
<1>9. ASSUME NEW outcome,
             WriteServer(outcome) \/ FlushServerClients(outcome) \/ WriteServerClient(outcome)
      PROVE  NInv'
  <2> SUFFICES ASSUME Began' PROVE NInv'
    BY DEF NInv
  <2>1. PICK query, rows : /\ rows.player = Seen.player /\ rows.historic = Seen.historic
                           /\ Statement(query, at', "ok", outcome) /\ Write(rows, outcome)
    BY <1>9, ServerSteps
  <2>2. stage \in OfServers /\ stage' \in OfServers /\ stage \in Copying
    BY <1>9, ServerSteps DEF Copying
  <2>3. /\ Began /\ data' = data
        /\ Seen' = IF outcome = "ok" THEN rows ELSE Seen
    BY <2>1, <2>2, InTransaction
  <2>4. Seen'.player = Seen.player /\ Seen'.historic = Seen.historic
    BY <2>1, <2>3
  <2> QED
    BY <2>2, <2>3, <2>4 DEF NInv, RatedIn, OfServers
<1> QED
  BY <1>2, <1>3, <1>4, <1>5, <1>6, <1>7, <1>8, <1>9, UpgradeHistoricNewer, WritePlayerNewer
     DEF UpgradeNext, UpgradeStep

\* The rows that everybody sees change by a commit or by a round only.
LEMMA DataChanges ==
  ASSUME DatabaseAssumption, UpgradeAssumption, PInv, Began, [UpgradeNext]_allVars
  PROVE  \/ data' = data
         \/ data' = Seen /\ stage \in Copying
         \/ \E name : data' = WithPlayer(data, name, [elo |-> UpdateElo, by |-> Updater])
<1>1. CASE UNCHANGED allVars
  BY <1>1, UpgradeStutter
<1>2. ASSUME NEW p \in Programs, Start(p) PROVE data' = data
  BY <1>2, StartFrame
<1>3. ASSUME NEW name, Round(name)
      PROVE  \E n : data' = WithPlayer(data, n, [elo |-> UpdateElo, by |-> Updater])
  BY <1>3, RoundPlace
<1>4. CASE NoDirectory \/ KillUpgrade \/ EndUpgrade
  BY <1>4, LeaveSteps
<1>5. CASE ReadPlayer
  BY <1>5, ReadPlayerPlace
<1>6. ASSUME NEW outcome, CommitUpgrade(outcome)
      PROVE  data' = data \/ (data' = Seen /\ stage \in Copying)
  BY <1>6, CommitUpgradePlace DEF CommitUpgrade, Copying, OfServers
<1>7. ASSUME NEW outcome, DropAllIndices(outcome) \/ BeginUpgrade(outcome) \/ CreateAllIndicesAgain(outcome)
      PROVE  data' = data
  BY <1>7 DEF DropAllIndices, BeginUpgrade, CreateAllIndicesAgain
<1>8. stage \in Copying => inside
  BY DEF PInv, Place
<1>9. ASSUME NEW outcome, UpgradeHistoric(outcome) PROVE data' = data
  BY <1>8, <1>9, HistoricStatement, HistoricFrame DEF Write
<1>10. ASSUME NEW outcome, WritePlayer(outcome) PROVE data' = data
  BY <1>8, <1>10, PlayerStatement DEF Write
<1>11. ASSUME NEW outcome,
              WriteServer(outcome) \/ FlushServerClients(outcome) \/ WriteServerClient(outcome)
       PROVE  data' = data
  BY <1>8, <1>11, ServerSteps DEF Write, Copying
<1> QED
  BY <1>1, <1>2, <1>3, <1>4, <1>5, <1>6, <1>7, <1>9, <1>10, <1>11 DEF UpgradeNext, UpgradeStep

\* Who was rated since stays rated.
LEMMA NewerKept ==
  ASSUME DatabaseAssumption, UpgradeAssumption, PInv, NInv, [UpgradeNext]_allVars, Began,
         NEW f \in DOMAIN Players, RatedIn(data, f), OldRecords(f) \cap data.historic # {}
  PROVE  RatedIn(data', f)
<1>1. CASE data' = data
  BY <1>1
<1>2. CASE data' = Seen /\ stage \in Copying
  BY <1>2 DEF NInv
<1>3. ASSUME NEW name, data' = WithPlayer(data, name, [elo |-> UpdateElo, by |-> Updater])
      PROVE  RatedIn(data', f)
  <2>1. PICK row : row = [elo |-> UpdateElo, by |-> Updater]
    OBVIOUS
  <2>2. PICK new : new = WithPlayer(data, name, row)
    OBVIOUS
  <2>3. IsRows(data)
    BY DEF PInv, Place
  <2>4. new.player = [n \in DOMAIN data.player \cup {name} |->
                        IF n = name THEN row ELSE data.player[n]]
    BY <2>2, <2>3 DEF WithPlayer, IsRows
  <2>5. RatedIn(new, f)
    BY <2>1, <2>4 DEF RatedIn
  <2>6. data' = new
    BY <1>3, <2>1, <2>2
  <2> QED
    BY <2>5, <2>6
<1> QED
  BY <1>1, <1>2, <1>3, DataChanges

THEOREM UpgradeNewer == UpgradeSpec => []NInv
<1> USE DatabaseAssumption, UpgradeAssumption
<1>1. UpgradeInit => NInv
  BY DEF UpgradeInit, NInv, Copying, OfPlayers, OfServers
<1>2. PInv /\ NInv /\ [UpgradeNext]_allVars => NInv'
  BY NewerStep
<1> QED
  BY <1>1, <1>2, UpgradePlaces, PTL DEF UpgradeSpec

\* An upgrade that is run again takes back no round.
THEOREM NewerStays == UpgradeSpec => KeepsNewer
<1> USE DatabaseAssumption, UpgradeAssumption
<1> DEFINE Stays(f) ==
             LET n == HexnameToName(f)
             IN  /\ n \in DOMAIN data.player /\ data.player[n].by = Updater
                 /\ OldRecords(f) \cap data.historic # {}
                 /\ <<"begin">> \notin failed
                 => data'.player[n].by = Updater
<1>1. ASSUME PInv, NInv, [UpgradeNext]_allVars PROVE [\A f \in DOMAIN Players : Stays(f)]_allVars
  BY <1>1, NewerKept DEF RatedIn, Began
<1> QED
  BY <1>1, UpgradePlaces, UpgradeNewer, PTL DEF UpgradeSpec, KeepsNewer

-----------------------------------------------------------------------------
\* Nothing, or everything.

\* The rows of the players are the same, and no record is removed.
LEMMA PlayerInMore ==
  ASSUME NEW d, NEW e, e.player = d.player, d.historic \subseteq e.historic,
         NEW f, PlayerIn(d, f)
  PROVE  PlayerIn(e, f)
BY DEF PlayerIn

\* What everybody sees is the same, and no failure is forgotten.
LEMMA StaysWhole ==
  ASSUME WInv, Began' => Began, data' = data, failed \subseteq failed'
  PROVE  Began' => (Untouched \/ Copied(data))'
BY DEF WInv, Untouched, Copied, PlayerIn, ServerIn

\* The upgrade is not at the files.
LEMMA ElsewhereWhole ==
  ASSUME WInv, Began' => Began, data' = data, failed \subseteq failed', stage' \notin Copying
  PROVE  WInv'
<1>1. stage' \notin OfServers /\ stage' \notin {"flush", "clients"} /\ stage' # "clients"
  BY DEF Copying, OfServers
<1>2. PlayersDone' /\ ServersDone'
  BY <1>1 DEF PlayersDone, ServersDone
<1> QED
  BY <1>2, StaysWhole DEF WInv

LEMMA BeginUpgradeWhole ==
  ASSUME DatabaseAssumption, UpgradeAssumption, PInv, WInv, NEW outcome, BeginUpgrade(outcome)
  PROVE  WInv'
<1>1. /\ stage' = "players" /\ left' = DOMAIN Players /\ data' = data /\ pc[Upgrader] = "running"
      /\ Statement("BEGIN", <<"begin">>, "ok", outcome)
  BY DEF BeginUpgrade, PInv, Place
<1>2. failed \subseteq failed' /\ Seen' = data /\ (Began' => Began)
  BY <1>1, StatementFrame, BeginUpgradePlace
<1>3. PlayersDone'
  BY <1>1, <1>2 DEF PlayersDone, PlayersToCome
<1>4. ServersDone'
  BY <1>1 DEF ServersDone, OfServers
<1> QED
  BY <1>1, <1>2, <1>3, <1>4, StaysWhole DEF WInv

LEMMA ReadPlayerWhole ==
  ASSUME DatabaseAssumption, UpgradeAssumption, PInv, WInv, ReadPlayer
  PROVE  WInv'
<1>1. /\ stage = "players" /\ UNCHANGED <<done, data, failed, Seen>>
      /\ left \subseteq DOMAIN Players
  BY ReadPlayerPlace DEF ReadPlayer, PInv, Loops, OfPlayers
<1>2. \/ left = {} /\ stage' = "servers" /\ left' = DOMAIN Servers
      \/ at' \in left /\ left' = left \ {at'} /\ stage' \in {"historic", "player"}
  <2>1. CASE left = {}
    BY <2>1 DEF ReadPlayer
  <2>2. CASE left # {}
    BY <2>2 DEF ReadPlayer
  <2> QED
    BY <2>1, <2>2
<1>3. PlayersToCome' = PlayersToCome
  BY <1>1, <1>2 DEF PlayersToCome, OfPlayers
<1>4. \A h : Fresh(h) => Fresh(h)'
  BY <1>1, <1>3 DEF Fresh
<1>5. Began' = Began
  BY <1>1 DEF Began
<1>6. Began => PlayersDone'
  BY <1>1, <1>3, <1>4 DEF WInv, PlayersDone, PlayerIn, Copying, OfPlayers
<1>7. Began => ServersDone'
  BY <1>1, <1>2 DEF ServersDone, ServersToCome, OfServers
<1> QED
  BY <1>1, <1>5, <1>6, <1>7, StaysWhole DEF WInv

LEMMA RecordsNames ==
  ASSUME NEW f, NEW n, NEW h \in FirstRecords(f, n)
  PROVE  h.name = HexnameToName(f)
BY DEF FirstRecords

\* A record is refused only when it was there before the transaction.
LEMMA RefusedIsCopied ==
  ASSUME UpgradeAssumption, PInv, WInv, Began, stage = "historic", Known, at \notin failed
  PROVE  PlayerIn(Seen, at)
<1>1. /\ at \in DOMAIN Players \ left /\ left \subseteq DOMAIN Players
      /\ done[Upgrader] \in Nat /\ done[Upgrader] < Len(ValidRecords(at))
      /\ stage \in Copying /\ PlayersToCome = left \cup {at}
  BY DEF PInv, Loops, PlayersToCome, Copying, OfPlayers
<1>2. PICK h \in Seen.historic : h.name = NextRecord.name /\ h.time = NextRecord.time
  BY DEF Known
<1>3. h.name = HexnameToName(at) /\ h.time = ValidRecords(at)[done[Upgrader] + 1].time
  BY <1>2 DEF NextRecord
<1>4. ~Fresh(h)
  <2>1. \A f \in DOMAIN Players \ PlayersToCome : h.name # HexnameToName(f)
    BY <1>1, <1>3, NamesDiffer
  <2>2. ASSUME h \in FirstRecords(at, done[Upgrader]) PROVE FALSE
    <3>1. PICK i \in 1..done[Upgrader] : h.time = ValidRecords(at)[i].time
      BY <2>2 DEF FirstRecords
    <3>2. /\ i \in DOMAIN ValidRecords(at) /\ done[Upgrader] + 1 \in DOMAIN ValidRecords(at)
          /\ i # done[Upgrader] + 1
      BY <1>1, UpgradeAssumption DEF UpgradeAssumption
    <3> QED
      BY <1>1, <1>3, <3>1, <3>2, UpgradeAssumption DEF UpgradeAssumption
  <2> QED
    BY <2>1, <2>2 DEF Fresh
<1>5. data.historic # {}
  BY <1>1, <1>4 DEF WInv, PlayersDone
<1>6. PlayerIn(data, at)
  BY <1>1, <1>5 DEF WInv, Untouched, Copied
<1> QED
  BY <1>1, <1>6 DEF WInv, PlayersDone

LEMMA UpgradeHistoricWhole ==
  ASSUME DatabaseAssumption, UpgradeAssumption, PInv, WInv, NEW outcome, UpgradeHistoric(outcome)
  PROVE  WInv'
<1> SUFFICES ASSUME Began' PROVE WInv'
  BY DEF WInv
<1>1. PICK rows, query, expected :
         /\ rows.player = Seen.player /\ rows.historic = Seen.historic \cup {NextRecord}
         /\ expected = IF Known THEN "step" ELSE "ok"
         /\ Statement(query, at, expected, outcome) /\ Write(rows, outcome)
  BY HistoricStatement
<1>2. /\ stage = "historic" /\ stage \in Copying /\ UNCHANGED <<left, at>>
      /\ at \in DOMAIN Players \ left /\ done[Upgrader] \in Nat
  BY HistoricFrame
<1>3. /\ Began /\ data' = data
      /\ Seen' = IF outcome = "ok" THEN rows ELSE Seen
      /\ failed \subseteq failed'
      /\ at \notin failed' => outcome = expected
  BY <1>1, <1>2, InTransaction
<1>4. Seen'.player = Seen.player /\ Seen.historic \subseteq Seen'.historic
  BY <1>1, <1>3
<1>5. \A f : PlayerIn(Seen, f) => PlayerIn(Seen', f)
  BY <1>4 DEF PlayerIn
<1>6. PlayersToCome = left \cup {at}
  BY <1>2 DEF PlayersToCome, OfPlayers
<1>7. /\ \A f \in DOMAIN Players : PlayerIn(data, f) => PlayerIn(Seen, f)
      /\ \A f \in DOMAIN Players \ (failed \cup PlayersToCome) : PlayerIn(Seen, f)
      /\ data.historic = {} => \A h \in Seen.historic : Fresh(h)
  BY <1>2, <1>3 DEF WInv, PlayersDone
<1>8. stage' \notin OfServers /\ stage' \notin {"flush", "clients"} /\ stage' # "clients"
  BY HistoricFrame DEF OfServers
<1>9. CASE outcome = "ok"
  <2>1. stage' \in {"historic", "player"} /\ Reached' = done[Upgrader] + 1
    BY <1>9, HistoricFrame
  <2>2. PlayersToCome' = PlayersToCome
    BY <1>2, <1>6, <2>1 DEF PlayersToCome, OfPlayers
  <2>3. FirstRecords(at, done[Upgrader] + 1) = FirstRecords(at, done[Upgrader]) \cup {NextRecord}
    BY <1>2, OneMoreRecord DEF NextRecord
  <2>4. stage' = "historic" => done'[Upgrader] = done[Upgrader] + 1
    BY <2>1 DEF Reached
  <2>5. ASSUME NEW h, Fresh(h) \/ h = NextRecord PROVE Fresh(h)'
    <3>1. CASE \E f \in DOMAIN Players \ PlayersToCome : h.name = HexnameToName(f)
      BY <2>2, <3>1 DEF Fresh
    <3>2. CASE h \in FirstRecords(at, done[Upgrader] + 1)
      <4>1. h.name = HexnameToName(at)
        BY <3>2, RecordsNames
      <4> QED
        BY <1>2, <2>1, <2>4, <3>2, <4>1 DEF Fresh
    <3> QED
      BY <1>2, <2>3, <2>5, <3>1, <3>2 DEF Fresh
  <2>6. \A h \in Seen'.historic : h \in Seen.historic \/ h = NextRecord
    BY <1>1, <1>3, <1>9
  <2>7. PlayersDone'
    BY <1>3, <1>5, <1>7, <2>2, <2>5, <2>6 DEF PlayersDone
  <2> QED
    BY <1>3, <1>8, <2>7, StaysWhole DEF WInv, ServersDone
<1>10. CASE outcome # "ok"
  <2>1. stage' = "players" /\ Seen' = Seen
    BY <1>3, <1>10, HistoricFrame
  <2>2. PlayersToCome' = left
    BY <1>2, <2>1 DEF PlayersToCome
  <2>3. ASSUME at \notin failed' PROVE PlayerIn(Seen', at)
    <3>1. Known /\ at \notin failed
      BY <1>1, <1>3, <1>10, <2>3
    <3> QED
      BY <1>2, <1>3, <2>1, <3>1, RefusedIsCopied
  <2>4. ASSUME NEW h, Fresh(h) PROVE Fresh(h)'
    <3>1. h.name = HexnameToName(at) \/ \E f \in DOMAIN Players \ PlayersToCome : h.name = HexnameToName(f)
      BY <2>4, RecordsNames DEF Fresh
    <3>2. \E f \in DOMAIN Players \ left : h.name = HexnameToName(f)
      BY <1>2, <1>6, <3>1
    <3> QED
      BY <2>2, <3>2 DEF Fresh
  <2>5. PlayersDone'
    BY <1>3, <1>6, <1>7, <2>1, <2>2, <2>3, <2>4 DEF PlayersDone
  <2> QED
    BY <1>3, <1>8, <2>5, StaysWhole DEF WInv, ServersDone
<1> QED
  BY <1>9, <1>10

LEMMA WritePlayerWhole ==
  ASSUME DatabaseAssumption, UpgradeAssumption, PInv, HInv, WInv, NEW outcome, WritePlayer(outcome)
  PROVE  WInv'
<1> SUFFICES ASSUME Began' PROVE WInv'
  BY DEF WInv
<1>1. /\ stage = "player" /\ stage \in Copying /\ stage' = "players" /\ UNCHANGED <<left, at>>
      /\ at \in DOMAIN Players \ left
  BY PlayerStatement
<1>2. PICK rows, query, expected :
         /\ rows.player = [n \in DOMAIN Seen.player \cup {HexnameToName(at)} |->
                             IF n = HexnameToName(at)
                               THEN [elo |-> UpgradedElo(at), by |-> Upgrader]
                               ELSE Seen.player[n]]
         /\ rows.historic = Seen.historic
         /\ expected = "ok"
         /\ Statement(query, at, expected, outcome) /\ Write(rows, outcome)
  BY PlayerStatement
<1>3. /\ Began /\ data' = data
      /\ Seen' = IF outcome = "ok" THEN rows ELSE Seen
      /\ failed \subseteq failed'
      /\ at \notin failed' => outcome = expected
  BY <1>1, <1>2, InTransaction
<1>4. PlayersToCome = left \cup {at} /\ PlayersToCome' = left
  BY <1>1 DEF PlayersToCome, OfPlayers
<1>5. /\ \A f \in DOMAIN Players : PlayerIn(data, f) => PlayerIn(Seen, f)
      /\ \A f \in DOMAIN Players \ (failed \cup PlayersToCome) : PlayerIn(Seen, f)
      /\ data.historic = {} => \A h \in Seen.historic : Fresh(h)
  BY <1>1, <1>3 DEF WInv, PlayersDone
<1>6. OldRecords(at) \subseteq Seen.historic
  BY <1>1, AllRecords DEF HInv, Reached
<1>7. PlayerIn(rows, at)
  <2>1. /\ HexnameToName(at) \in DOMAIN rows.player
        /\ rows.player[HexnameToName(at)] = [elo |-> UpgradedElo(at), by |-> Upgrader]
    BY <1>2
  <2>2. rows.player[HexnameToName(at)].elo = UpgradedElo(at)
    BY <2>1
  <2> QED
    BY <1>2, <1>6, <2>1, <2>2 DEF PlayerIn
<1>8. ASSUME NEW f \in DOMAIN Players, PlayerIn(Seen, f) PROVE PlayerIn(Seen', f)
  <2>1. CASE outcome # "ok"
    BY <1>3, <1>8, <2>1
  <2>2. CASE outcome = "ok" /\ f = at
    BY <1>3, <1>7, <2>2
  <2>3. CASE outcome = "ok" /\ f # at
    <3>1. HexnameToName(f) # HexnameToName(at)
      BY <1>1, <2>3, NamesDiffer
    <3>2. /\ rows.player[HexnameToName(f)] = Seen.player[HexnameToName(f)]
          /\ HexnameToName(f) \in DOMAIN rows.player
      BY <1>2, <1>8, <3>1 DEF PlayerIn
    <3>3. Seen' = rows
      BY <1>3, <2>3
    <3> QED
      BY <1>2, <1>8, <3>2, <3>3 DEF PlayerIn
  <2> QED
    BY <2>1, <2>2, <2>3
<1>9. at \notin failed' => PlayerIn(Seen', at)
  BY <1>2, <1>3, <1>7
<1>10. Seen'.historic = Seen.historic
  BY <1>2, <1>3
<1>11. ASSUME NEW h, Fresh(h) PROVE Fresh(h)'
  <2>1. \E f \in DOMAIN Players \ left : h.name = HexnameToName(f)
    BY <1>1, <1>4, <1>11 DEF Fresh
  <2> QED
    BY <1>4, <2>1 DEF Fresh
<1>12. PlayersDone'
  BY <1>1, <1>3, <1>4, <1>5, <1>8, <1>9, <1>10, <1>11 DEF PlayersDone
<1> QED
  BY <1>1, <1>3, <1>12, StaysWhole DEF WInv, ServersDone, OfServers

\* The statements about servers leave the players as they are.
LEMMA ServersAside ==
  ASSUME DatabaseAssumption, UpgradeAssumption, PInv, WInv, Began', NEW outcome,
         WriteServer(outcome) \/ FlushServerClients(outcome) \/ WriteServerClient(outcome)
  PROVE  Began /\ (Untouched \/ Copied(data))' /\ PlayersDone'
<1>1. PICK query, rows, expected :
         /\ rows.player = Seen.player /\ rows.historic = Seen.historic
         /\ Statement(query, at', expected, outcome) /\ Write(rows, outcome)
  BY ServerSteps
<1>2. stage \in OfServers /\ stage' \in OfServers /\ stage \in Copying
  BY ServerSteps DEF Copying
<1>3. /\ Began /\ data' = data /\ failed \subseteq failed'
      /\ Seen' = IF outcome = "ok" THEN rows ELSE Seen
  BY <1>1, <1>2, InTransaction
<1>4. Seen'.player = Seen.player /\ Seen'.historic = Seen.historic
  BY <1>1, <1>3
<1>5. \A f : PlayerIn(Seen, f) => PlayerIn(Seen', f)
  BY <1>4 DEF PlayerIn
<1>6. PlayersToCome = {} /\ PlayersToCome' = {}
  BY <1>2 DEF PlayersToCome, OfPlayers, OfServers
<1>7. \A h : Fresh(h) => Fresh(h)'
  BY <1>2, <1>6 DEF Fresh, OfServers
<1>8. PlayersDone'
  BY <1>2, <1>3, <1>4, <1>5, <1>6, <1>7 DEF WInv, PlayersDone
<1> QED
  BY <1>3, <1>8, StaysWhole

LEMMA WriteServerWhole ==
  ASSUME DatabaseAssumption, UpgradeAssumption, PInv, WInv, NEW outcome, WriteServer(outcome)
  PROVE  WInv'
<1> SUFFICES ASSUME Began' PROVE WInv'
  BY DEF WInv
<1>1. /\ Began /\ (Untouched \/ Copied(data))' /\ PlayersDone'
  BY ServersAside
<1>2. stage = "servers" /\ stage \in Copying /\ stage' = "flush"
  BY DEF WriteServer, Copying, OfServers
<1>3. PICK s, query, expected, rows :
         /\ s \in left /\ at' = s /\ left' = left \ {s} /\ expected = "ok"
         /\ Statement(query, s, expected, outcome) /\ Write(rows, outcome)
         /\ rows = [Seen EXCEPT !.server = @ \cup {s}]
  BY DEF WriteServer
<1>4. rows.server = Seen.server \cup {s} /\ rows.clients = Seen.clients
  BY <1>3, SeenRows, ServerRows
<1>5. Statement(query, s, expected, outcome) /\ Write(rows, outcome)
  BY <1>3
<1>6. /\ Seen' = IF outcome = "ok" THEN rows ELSE Seen
      /\ failed \subseteq failed'
      /\ s \notin failed' => outcome = expected
  BY <1>2, <1>5, InTransaction
<1>7. s \in left /\ at' = s /\ left' = left \ {s} /\ expected = "ok"
  BY <1>3
<1>8. Seen.server \subseteq Seen'.server /\ Seen'.clients = Seen.clients
  BY <1>4, <1>6
<1>9. s \notin failed' => s \in Seen'.server
  BY <1>4, <1>6, <1>7
<1>10. ServersToCome = left /\ ServersToCome' = left
  BY <1>2, <1>7 DEF ServersToCome
<1>11. \A t : ServerIn(Seen, t) => ServerIn(Seen', t)
  BY <1>8 DEF ServerIn
<1>12. \A t \in DOMAIN Servers \ (failed' \cup left) : ServerIn(Seen', t)
  BY <1>1, <1>2, <1>6, <1>10, <1>11 DEF WInv, ServersDone, OfServers
<1>13. ServersDone'
  BY <1>2, <1>7, <1>9, <1>10, <1>12 DEF ServersDone
<1> QED
  BY <1>1, <1>13 DEF WInv

LEMMA FlushWhole ==
  ASSUME DatabaseAssumption, UpgradeAssumption, PInv, WInv, NEW outcome, FlushServerClients(outcome)
  PROVE  WInv'
<1> SUFFICES ASSUME Began' PROVE WInv'
  BY DEF WInv
<1>1. /\ Began /\ (Untouched \/ Copied(data))' /\ PlayersDone'
  BY ServersAside
<1>2. /\ stage = "flush" /\ stage \in Copying /\ UNCHANGED <<done, left, at>>
      /\ stage' = IF outcome = "ok" /\ Servers[at] # <<>> THEN "clients" ELSE "servers"
      /\ at \in DOMAIN Servers \ left /\ done[Upgrader] = 0
  BY DEF FlushServerClients, Copying, OfServers, PInv, Loops
<1>3. PICK query, expected, rows :
         /\ expected = "ok"
         /\ Statement(query, at, expected, outcome) /\ Write(rows, outcome)
         /\ rows = [Seen EXCEPT !.clients = {c \in @ : c[1] # at}]
  BY DEF FlushServerClients
<1>4. rows.clients = {c \in Seen.clients : c[1] # at} /\ rows.server = Seen.server
  BY <1>3, SeenRows, ServerRows
<1>5. Statement(query, at, expected, outcome) /\ Write(rows, outcome) /\ expected = "ok"
  BY <1>3
<1>6. /\ Seen' = IF outcome = "ok" THEN rows ELSE Seen
      /\ failed \subseteq failed'
      /\ at \notin failed' => outcome = expected
  BY <1>2, <1>5, InTransaction
<1>7. Seen'.server = Seen.server
  BY <1>4, <1>6
<1>8. ASSUME NEW t, t # at, ServerIn(Seen, t) PROVE ServerIn(Seen', t)
  <2>1. \A c : <<t, c>> \in Seen.clients => <<t, c>> \in Seen'.clients
    BY <1>4, <1>6, <1>8
  <2> QED
    BY <1>7, <1>8, <2>1 DEF ServerIn
<1>9. ServersToCome = left \cup {at}
  BY <1>2 DEF ServersToCome
<1>10. \A t \in DOMAIN Servers \ (failed' \cup left \cup {at}) : ServerIn(Seen', t)
  BY <1>1, <1>2, <1>6, <1>8, <1>9 DEF WInv, ServersDone, OfServers
<1>11. at \notin failed' => at \in Seen'.server
  BY <1>1, <1>2, <1>6, <1>7 DEF WInv, ServersDone
<1>12. CASE stage' = "clients"
  <2>1. ServersToCome' = left \cup {at}
    BY <1>2, <1>12 DEF ServersToCome
  <2>2. 1..done'[Upgrader] = {}
    BY <1>2
  <2> QED
    BY <1>1, <1>2, <1>10, <1>11, <1>12, <2>1, <2>2 DEF WInv, ServersDone
<1>13. CASE stage' = "servers"
  <2>1. ServersToCome' = left
    BY <1>2, <1>13 DEF ServersToCome
  <2>2. ASSUME at \notin failed' PROVE ServerIn(Seen', at)
    <3>1. Servers[at] = <<>>
      BY <1>2, <1>5, <1>6, <1>13, <2>2
    <3> QED
      BY <1>11, <2>2, <3>1 DEF ServerIn, Elements
  <2> QED
    BY <1>1, <1>2, <1>10, <1>13, <2>1, <2>2 DEF WInv, ServersDone
<1> QED
  BY <1>2, <1>12, <1>13

LEMMA WriteServerClientWhole ==
  ASSUME DatabaseAssumption, UpgradeAssumption, PInv, WInv, NEW outcome, WriteServerClient(outcome)
  PROVE  WInv'
<1> DEFINE n == Len(Servers[at])
           d == done[Upgrader]
<1> SUFFICES ASSUME Began' PROVE WInv'
  BY DEF WInv
<1>1. /\ Began /\ (Untouched \/ Copied(data))' /\ PlayersDone'
  BY ServersAside
<1>2. /\ stage = "clients" /\ stage \in Copying /\ UNCHANGED <<left, at>>
      /\ stage' = IF done'[Upgrader] = 0 THEN "servers" ELSE "clients"
      /\ at \in DOMAIN Servers \ left /\ d \in Nat /\ d < n
  BY DEF WriteServerClient, Copying, OfServers, PInv, Loops
<1>3. PICK query, expected, rows :
         /\ expected = "ok"
         /\ Statement(query, at, expected, outcome) /\ Write(rows, outcome)
         /\ rows = [Seen EXCEPT !.clients = @ \cup {<<at, Servers[at][d + 1]>>}]
  BY DEF WriteServerClient
<1>4. rows.clients = Seen.clients \cup {<<at, Servers[at][d + 1]>>} /\ rows.server = Seen.server
  BY <1>3, SeenRows, ServerRows
<1>5. Statement(query, at, expected, outcome) /\ Write(rows, outcome) /\ expected = "ok"
  BY <1>3
<1>6. /\ Seen' = IF outcome = "ok" THEN rows ELSE Seen
      /\ failed \subseteq failed'
      /\ at \notin failed' => outcome = expected
  BY <1>2, <1>5, InTransaction
<1>7. Seen'.server = Seen.server /\ Seen.clients \subseteq Seen'.clients
  BY <1>4, <1>6
<1>8. \A t : ServerIn(Seen, t) => ServerIn(Seen', t)
  BY <1>7 DEF ServerIn
<1>9. ServersToCome = left \cup {at}
  BY <1>2 DEF ServersToCome
<1>10. \A t \in DOMAIN Servers \ (failed' \cup left \cup {at}) : ServerIn(Seen', t)
  BY <1>1, <1>2, <1>6, <1>8, <1>9 DEF WInv, ServersDone, OfServers
<1>11. at \notin failed' => at \in Seen'.server
  BY <1>1, <1>2, <1>6, <1>7 DEF WInv, ServersDone
<1>12. n \in Nat /\ DOMAIN Servers[at] = 1..n
  BY <1>2, UpgradeAssumption DEF UpgradeAssumption
<1>13. ASSUME at \notin failed' PROVE \A i \in 1..(d + 1) : <<at, Servers[at][i]>> \in Seen'.clients
  <2>1. <<at, Servers[at][d + 1]>> \in Seen'.clients
    BY <1>4, <1>5, <1>6, <1>13
  <2>2. \A i \in 1..d : <<at, Servers[at][i]>> \in Seen'.clients
    BY <1>1, <1>2, <1>6, <1>7, <1>13 DEF WInv, ServersDone
  <2>3. \A i \in 1..(d + 1) : i \in 1..d \/ i = d + 1
    BY <1>2
  <2> QED
    BY <2>1, <2>2, <2>3
<1>14. done'[Upgrader] = (d + 1) % n
  BY UpgradePrograms DEF WriteServerClient, PInv, CInv
<1>15. CASE d + 1 = n /\ done'[Upgrader] = 0
  <2>1. stage' = "servers" /\ ServersToCome' = left
    BY <1>2, <1>15 DEF ServersToCome
  <2>2. ASSUME at \notin failed' PROVE ServerIn(Seen', at)
    BY <1>11, <1>12, <1>13, <1>15, <2>2 DEF ServerIn, Elements
  <2> QED
    BY <1>1, <1>2, <1>10, <2>1, <2>2 DEF WInv, ServersDone
<1>16. CASE d + 1 < n /\ done'[Upgrader] = d + 1
  <2>1. stage' = "clients" /\ ServersToCome' = left \cup {at}
    BY <1>2, <1>16 DEF ServersToCome
  <2> QED
    BY <1>1, <1>2, <1>10, <1>11, <1>13, <1>16, <2>1 DEF WInv, ServersDone
<1> QED
  BY <1>2, <1>12, <1>14, <1>15, <1>16, Turn

\* A round makes the elo of a player newer, and leaves the rest.
LEMMA RoundWhole ==
  ASSUME DatabaseAssumption, UpgradeAssumption, PInv, WInv, NEW name, Round(name)
  PROVE  WInv'
<1>1. /\ Seen = data /\ Seen' = data' /\ UNCHANGED <<stage, left, at, done, failed>>
      /\ data' = WithPlayer(data, name, [elo |-> UpdateElo, by |-> Updater])
  BY RoundPlace DEF vars
<1>2. PICK row : row = [elo |-> UpdateElo, by |-> Updater]
  OBVIOUS
<1>3. PICK new : new = data'
  OBVIOUS
<1>4. IsRows(data) /\ new = WithPlayer(data, name, row)
  BY <1>1, <1>2, <1>3 DEF PInv, Place
<1>5. /\ new.historic = data.historic /\ new.server = data.server /\ new.clients = data.clients
  BY <1>4, WithPlayerRows
<1>6. new.player = [n \in DOMAIN data.player \cup {name} |->
                      IF n = name THEN row ELSE data.player[n]]
  BY <1>4 DEF WithPlayer, IsRows
<1>7. row.elo = UpdateElo /\ row.by = Updater
  BY <1>2
<1>8. \A f : PlayerIn(data, f) => PlayerIn(new, f)
  BY <1>5, <1>6, <1>7 DEF PlayerIn
<1>9. \A s : ServerIn(data, s) => ServerIn(new, s)
  BY <1>5 DEF ServerIn
<1>10. Untouched => Untouched'
  BY <1>3, <1>5, <1>6, <1>7, UpgradePrograms DEF Untouched
<1>11. Copied(data) => Copied(data)'
  BY <1>1, <1>3, <1>8, <1>9 DEF Copied, PlayerIn, ServerIn
<1>12. UNCHANGED <<PlayersToCome, ServersToCome, Began>> /\ \A h : Fresh(h)' = Fresh(h)
  BY <1>1 DEF PlayersToCome, ServersToCome, Began, Fresh
<1>13. PlayersDone => PlayersDone'
  BY <1>1, <1>3, <1>5, <1>8, <1>12 DEF PlayersDone
<1>14. ServersDone => ServersDone'
  BY <1>1, <1>3, <1>5, <1>9, <1>12 DEF ServersDone
<1> QED
  BY <1>10, <1>11, <1>12, <1>13, <1>14 DEF WInv

\* What is committed is all of it.
LEMMA CommitWhole ==
  ASSUME DatabaseAssumption, UpgradeAssumption, PInv, WInv, NEW outcome, CommitUpgrade(outcome)
  PROVE  WInv'
<1>1. /\ data' = data \/ data' = Seen
      /\ Began' => Began
  BY CommitUpgradePlace
<1>2. stage = "servers" /\ left = {} /\ stage' = "indices" /\ failed \subseteq failed'
  BY DEF CommitUpgrade
<1>3. stage' \notin Copying
  BY <1>2 DEF Copying, OfPlayers, OfServers
<1>4. CASE data' = data
  BY <1>1, <1>2, <1>3, <1>4, ElsewhereWhole
<1>5. CASE data' = Seen
  <2>1. PlayersToCome = {} /\ ServersToCome = {}
    BY <1>2 DEF PlayersToCome, ServersToCome, OfPlayers
  <2>2. Began => Copied(Seen)
    BY <1>2, <2>1 DEF WInv, PlayersDone, ServersDone, Copied, Copying, OfServers
  <2>3. Began => Copied(data)'
    BY <1>2, <1>5, <2>2 DEF Copied, PlayerIn, ServerIn
  <2>4. PlayersDone' /\ ServersDone'
    BY <1>2 DEF PlayersDone, ServersDone, Copying, OfPlayers, OfServers
  <2> QED
    BY <1>1, <2>3, <2>4 DEF WInv
<1> QED
  BY <1>1, <1>4, <1>5

LEMMA WholeStep ==
  ASSUME DatabaseAssumption, UpgradeAssumption, PInv, HInv, WInv, [UpgradeNext]_allVars
  PROVE  WInv'
<1>1. CASE UNCHANGED allVars
  BY <1>1, UpgradeStutter DEF WInv, Began, Untouched, Copied, PlayerIn, ServerIn, PlayersDone,
                              ServersDone, PlayersToCome, ServersToCome, Fresh, Seen
<1>2. ASSUME NEW p \in Programs, Start(p) PROVE WInv'
  <2>1. /\ UNCHANGED <<stage, left, at, data, failed>>
        /\ stage # "off" => Seen' = Seen /\ done'[Upgrader] = done[Upgrader]
    BY <1>2, StartFrame
  <2>2. CASE stage = "off"
    BY <2>1, <2>2, ElsewhereWhole DEF Began, Copying, OfPlayers, OfServers
  <2>3. CASE stage # "off"
    BY <2>1, <2>3 DEF WInv, Began, Untouched, Copied, PlayerIn, ServerIn, PlayersDone,
                      ServersDone, PlayersToCome, ServersToCome, Fresh
  <2> QED
    BY <2>2, <2>3
<1>3. CASE NoDirectory \/ KillUpgrade \/ EndUpgrade
  BY <1>3, LeaveSteps, ElsewhereWhole DEF Began, Copying, OfPlayers, OfServers
<1>4. ASSUME NEW outcome, DropAllIndices(outcome) \/ CreateAllIndicesAgain(outcome) PROVE WInv'
  <2>1. data' = data /\ stage' \notin Copying
    BY <1>4 DEF DropAllIndices, CreateAllIndicesAgain, Copying, OfPlayers, OfServers
  <2>2. failed \subseteq failed'
    BY <1>4 DEF DropAllIndices, CreateAllIndicesAgain, Statement
  <2> QED
    BY <2>1, <2>2, ElsewhereWhole DEF Began
<1> QED
  BY <1>1, <1>2, <1>3, <1>4, BeginUpgradeWhole, ReadPlayerWhole, UpgradeHistoricWhole,
     WritePlayerWhole, WriteServerWhole, FlushWhole, WriteServerClientWhole, CommitWhole, RoundWhole
     DEF UpgradeNext, UpgradeStep

\* Wherever the upgrade is killed, and however often it is run again, the
\* database holds nothing of the files, or all that no statement has failed for.
THEOREM AlwaysUpgradedWhole == UpgradeSpec => []UpgradedWhole
<1> USE DatabaseAssumption, UpgradeAssumption
<1>1. UpgradeInit => WInv
  BY DEF UpgradeInit, WInv, Untouched, NoRows, PlayersDone, ServersDone, Copying, OfPlayers, OfServers
<1>2. PInv /\ HInv /\ WInv /\ [UpgradeNext]_allVars => WInv'
  BY WholeStep
<1>3. WInv => UpgradedWhole
  BY DEF WInv, Began, UpgradedWhole, Copied, PlayerIn, ServerIn
<1> QED
  BY <1>1, <1>2, <1>3, UpgradePlaces, AlwaysBacked, PTL DEF UpgradeSpec
=============================================================================
