------------------------------- MODULE MCUpgrade --------------------------------
(***************************************************************************)
(* A player with two valid records among others, one with none, and a      *)
(* server with both: a loop can stop in the middle, a statement can fail   *)
(* between two others.  The longer hexname loses a character.              *)
(***************************************************************************)
EXTENDS MCDatabase, Upgrade, TLC

MCRecord(t, e, ranked) == [time |-> t, elo |-> e, ranked |-> ranked]

MCPlayers ==
    <<"a", "0">> :> [elo |-> 1520, records |-> <<MCRecord(1, 1510, TRUE), MCRecord(2, -1, TRUE),
                                                 MCRecord(3, 1515, FALSE), MCRecord(4, 1520, TRUE)>>]
    @@ <<"a", "b", "c", "0">> :> [elo |-> -1, records |-> <<MCRecord(1, -1, FALSE)>>]

MCInvalidElo == -1

MCServers == <<"server">> :> <<<<"a">>, <<"a", "b">>>>
=============================================================================
