SPECIFICATION Spec
CONSTANTS
    Word = 65536
    Names = {1, 2, 3}
    Servers = {s1}
    Infos <- TwinInfos
    DefaultElo = 1500
    MinRankable = 2
    MinElapsed = 1
    MaxElapsed = 1
    MaxTime = 3
    MaxPackets = 3
    MaxFailures = 0
INVARIANTS
    EnoughPlayers
