--------------------------------- MODULE Games ---------------------------------
(***************************************************************************)
(* The successive answers of one server whose players stay, as they are    *)
(* rated by update/rank.c.  Every answer is compared with the one before:  *)
(* unless is_new_game() finds that the scores dropped, the elo scores are  *)
(* computed from the progress of each player, all of them from the elos    *)
(* loaded before any is written.                                           *)
(***************************************************************************)
EXTENDS Elo

CONSTANTS Players,     \* the rankable entries of the players array
          StartElos,   \* elo scores they may start with
          Scores,      \* scores they may have in a game
          MaxAnswers   \* bound on the number of answers

Total(f) == MapThenSumSet(LAMBDA p : f[p], Players)

\* The totals of is_new_game() are ints: one that is positive is less than half
\* the number of values of a word.
ASSUME GamesAssumption == /\ IsFiniteSet(Players) /\ Cardinality(Players) > 1
                          /\ StartElos \subseteq Int /\ Scores \subseteq Int
                          /\ MaxAnswers \in Nat
                          /\ \A f \in [Players -> Scores] : 2 * Total(f) < Word

VARIABLES elo, before,   \* elo scores now, and when the last answer arrived
          old, new,      \* scores of the last two answers
          rated,         \* whether the last answer was rated
          answers

gamesVars == <<elo, before, old, new, rated, answers>>

\* The server has answered once.
GamesInit == /\ elo \in [Players -> StartElos]
             /\ before = elo
             /\ new \in [Players -> Scores]
             /\ old = new
             /\ rated = FALSE
             /\ answers = 0

NewElos(diff) == [p \in Players |-> ComputeNewElo(p, Players, elo, diff)]

Answer(scores) ==
    /\ answers < MaxAnswers
    /\ answers' = answers + 1
    /\ old' = new
    /\ new' = scores
    /\ rated' = ~IsNewGame(Players, new, scores)
    /\ before' = elo
    /\ elo' = IF rated' THEN NewElos([p \in Players |-> scores[p] - new[p]]) ELSE elo

GamesNext == \E scores \in [Players -> Scores] : Answer(scores)

GamesSpec == GamesInit /\ [][GamesNext]_gamesVars

-----------------------------------------------------------------------------

Gain(p) == elo[p] - before[p]
Progress(p) == new[p] - old[p]
AbsDiff(a, b) == IF a > b THEN a - b ELSE b - a

(***************************************************************************)
(* Although every player's average is truncated on its own and no common   *)
(* pot is kept, an answer creates or destroys less than one point per      *)
(* player.                                                                 *)
(***************************************************************************)
ConservedUpToRounding == AbsDiff(Total(elo), Total(before)) < Cardinality(Players)

(***************************************************************************)
(* Of two players of one game, the one who progressed more and was not     *)
(* rated higher never gains less.                                          *)
(***************************************************************************)
BetterUnderdogGainsMore ==
    \A p, q \in Players :
        Progress(p) >= Progress(q) /\ before[p] <= before[q] => Gain(p) >= Gain(q)

(***************************************************************************)
(* rank.c:165: "It is a new game if the difference between old score       *)
(* average and new score average is greater than 3."  The averages are     *)
(* truncated, so nothing is asked of a difference between 3 and 4; they    *)
(* are unsigned, so nothing holds once a total is negative; and they are   *)
(* floats, so nothing holds of averages a float is not precise enough for. *)
(***************************************************************************)
DropIsNewGame ==
    LET drop       == Total(old) - Total(new)
        n          == Cardinality(Players)
        precise(t) == t >= 0 /\ t < FloatExact * n
    IN  answers > 0 /\ precise(Total(old)) /\ precise(Total(new)) =>
            /\ drop >= 4 * n => ~rated
            /\ drop <= 3 * n => rated
=============================================================================
