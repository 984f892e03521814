SPECIFICATION FairSpec
CONSTANTS
    Programs = {"old", "update", "upgrade", "cgi"}
    ReadOnly = {"cgi"}
    Version <- MCVersion
    Tables <- MCTables
    Masters <- MCMasters
    MaxTroubles = 2
INVARIANTS
    CreatedWhole
    OneStatement
PROPERTIES
    CreatedOnce
    FirstRun
