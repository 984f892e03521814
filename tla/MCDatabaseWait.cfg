SPECIFICATION Spec
CONSTANTS
    Programs = {"old", "update", "upgrade", "cgi"}
    ReadOnly = {"cgi"}
    Version <- MCVersion
    Tables <- MCTables
    Masters <- MCMasters
    MaxTroubles = 0
PROPERTIES
    WaitsForCreation
