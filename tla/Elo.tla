---------------------------------- MODULE Elo ----------------------------------
(***************************************************************************)
(* The arithmetic of update/rank.c, as functions of what was loaded: for   *)
(* each entry of the players array, its elo score and its score in the     *)
(* game before and after.                                                  *)
(***************************************************************************)
EXTENDS Words, FiniteSets

-----------------------------------------------------------------------------

(***************************************************************************)
(* K * (W - p(delta)) converted to an int, where p is a logistic curve of  *)
(* the elo difference, clamped to 400.  The differences below are where    *)
(* the truncated result changes, for K = 25: a win is worth one point more *)
(* for each of them that delta does not exceed, and 2 at the least; a draw *)
(* against a stronger player likewise, from 0; the rest is by symmetry.    *)
(***************************************************************************)
WinSteps  == {346, 288, 240, 200, 164, 130, 99, 70, 41, 13, -14, -42, -71,
              -100, -131, -165, -201, -241, -289, -347}
DrawSteps == {-28, -57, -86, -116, -148, -182, -220, -264, -316, -382}

Win(delta)  == 2 + Quantify(WinSteps, LAMBDA s : delta <= s)
Draw(delta) == Quantify(DrawSteps, LAMBDA s : delta <= s)

\* Mutants of ComputeEloDelta: the loser's delta is taken from the wrong side;
\* the one who was rated higher is the one rewarded.
ComputeEloDeltaOneSided(elo1, d1, elo2, d2) ==
    CASE d1 > d2 -> Win(elo1 - elo2)
      [] d1 < d2 -> -Win(elo1 - elo2)
      [] d1 = d2 -> Draw(elo1 - elo2) - Draw(elo2 - elo1)
ComputeEloDeltaReversed(elo1, d1, elo2, d2) ==
    CASE d1 > d2 -> Win(elo2 - elo1)
      [] d1 < d2 -> -Win(elo1 - elo2)
      [] d1 = d2 -> Draw(elo2 - elo1) - Draw(elo1 - elo2)

\* compute_elo_delta(), for two players with different progress d1 and d2.
ComputeEloDelta(elo1, d1, elo2, d2) ==
    CASE d1 > d2 -> Win(elo1 - elo2)
      [] d1 < d2 -> -Win(elo2 - elo1)
      [] d1 = d2 -> Draw(elo1 - elo2) - Draw(elo2 - elo1)

\* compute_new_elo(): the average over the other rankable players is added.
EloGain(i, rankable, elo, diff) ==
    LET others == rankable \ {i}
        delta  == [k \in others |-> ComputeEloDelta(elo[i], diff[i], elo[k], diff[k])]
        total  == MapThenSumSet(LAMBDA k : delta[k], others)
    IN  Quotient(total, Cardinality(others))

ComputeNewElo(i, rankable, elo, diff) == elo[i] + EloGain(i, rankable, elo, diff)

-----------------------------------------------------------------------------

(***************************************************************************)
(* is_new_game().  The totals are signed but they are divided by an        *)
(* unsigned, and the quotients kept in floats.  Floats that are integers   *)
(* are more than 3 apart if and only if their difference, rounded, is.     *)
(***************************************************************************)
Average(total, n) == Float(Unsigned(total) \div n)

\* Mutant of IsNewGame: a drop of 3 points is enough.
IsNewGameEarly(seen, old, new) ==
    /\ seen # {}
    /\ LET n      == Cardinality(seen)
           oldavg == Average(MapThenSumSet(LAMBDA i : old[i], seen), n)
           newavg == Average(MapThenSumSet(LAMBDA i : new[i], seen), n)
       IN  oldavg - newavg >= 3

IsNewGame(seen, old, new) ==
    /\ seen # {}
    /\ LET n      == Cardinality(seen)
           oldavg == Average(MapThenSumSet(LAMBDA i : old[i], seen), n)
           newavg == Average(MapThenSumSet(LAMBDA i : new[i], seen), n)
       IN  oldavg - newavg > 3
=============================================================================
