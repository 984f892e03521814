SPECIFICATION Spec
CONSTANTS
    Word = 65536
    Names = {1, 2, 3}
    Servers = {s1, s2}
    Infos <- MCInfos
    DefaultElo = 1500
    MinRankable = 2
    MinElapsed = 1
    MaxElapsed = 1
    MaxTime = 3
    MaxPackets = 4
    MaxFailures = 1
SYMMETRY ServerSymmetry
INVARIANTS
    RanksFollowElo
    HistoricIsCurrent
    NoGainLost
    RatedOnce
    PendingAppliedWhole
