------------------------------ MODULE MCDatabase -------------------------------
(***************************************************************************)
(* Three programs that write, of two versions, and a CGI.  Two tables and  *)
(* two masters are enough for loops that stop in the middle.               *)
(***************************************************************************)
EXTENDS Database

MCVersion == [p \in Programs |-> IF p = "old" THEN 6 ELSE 7]
MCTables  == <<"version", "players">>
MCMasters == <<"master1", "master2">>
=============================================================================
