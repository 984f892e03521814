------------------------------- MODULE MCFigures --------------------------------
(***************************************************************************)
(* The two parts of teerank that compute, side by side: a behaviour is one *)
(* of Games for a player without records, or one of Graph while nobody     *)
(* plays.                                                                  *)
(*                                                                         *)
(* Three players; elos far apart, near and equal.  Scores whose totals are *)
(* negative, no multiple of 3 or too large for a float exercise the        *)
(* averages.  Then scores and ranks whose differences lie on both sides of *)
(* the gaps at which the axes change, below zero, near the start, in the   *)
(* middle and far away; one record more than the graph shows.              *)
(***************************************************************************)
EXTENDS Games, Graph

MCStartElos == {1000, 1480, 1500, 1790}
MCScores    == {-1, 0, 8, 800}
MCElos      == {-7, -1, 0, 1200, 1479, 1490, 1499, 1500, 1501, 1510, 1516, 1831}
MCRanks     == {1, 2, 4, 301, 4000}

Idle == \A p, q \in Players : elo[p] = 1500 /\ new[p] = 0 /\ answers = 0

FiguresInit == GamesInit /\ GraphInit
FiguresNext == \/ IsEmpty /\ GamesNext /\ UNCHANGED historic
               \/ Idle /\ GraphNext /\ UNCHANGED gamesVars

FiguresSpec == FiguresInit /\ [][FiguresNext]_<<gamesVars, historic>>
=============================================================================
