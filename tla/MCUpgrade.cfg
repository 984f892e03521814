SPECIFICATION UpgradeSpec
CONSTANTS
    Programs = {"update", "upgrade"}
    ReadOnly = {}
    Version <- MCVersion
    Tables <- MCTables
    Masters <- MCMasters
    MaxTroubles = 2
    Upgrader = "upgrade"
    Updater = "update"
    Players <- MCPlayers
    Servers <- MCServers
    InvalidElo <- MCInvalidElo
    DefaultElo = 1500
    UpdateElo = 1600
    NameLength = 3
    MaxRounds = 2
INVARIANTS
    UpgradedWhole
    HistoricWhole
    IndicesBack
PROPERTIES
    KeepsNewer
    UpgradeEnds
