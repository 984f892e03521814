------------------------------ MODULE MCRanking ------------------------------
EXTENDS Ranking, TLC

ServerSymmetry == Permutations(Servers)

Client(n, s, i) == [name |-> n, score |-> s, ingame |-> i]
Info(c) == [clients |-> c, vanilla |-> TRUE]

\* Two players whose scores rise in turn; a newcomer and a spectator.
MCInfos == { Info(<<Client(1, 0, TRUE), Client(2, 0, TRUE)>>),
             Info(<<Client(1, 0, TRUE), Client(2, 5, TRUE)>>),
             Info(<<Client(3, 1, TRUE), Client(2, 5, TRUE), Client(1, 0, FALSE)>>) }

\* Two clients of one name, as clients that are connecting have.
TwinInfos == { Info(<<Client(1, 0, TRUE), Client(1, 0, TRUE)>>) }
=============================================================================
