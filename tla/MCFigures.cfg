SPECIFICATION FiguresSpec
CONSTANTS
    Word = 65536
    Players = {1, 2, 3}
    StartElos <- MCStartElos
    Scores <- MCScores
    MaxAnswers = 1
    Elos <- MCElos
    Ranks <- MCRanks
    MaxData = 2
    MaxRecords = 3
INVARIANTS
    ConservedUpToRounding
    BetterUnderdogGainsMore
    DropIsNewGame
    LabelsOnAxes
    PointsInside
    LabelsReadable
CHECK_DEADLOCK FALSE
