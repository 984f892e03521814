SPECIFICATION Spec
CONSTANTS
    Servers = {s1, s2, s3}
    Resolvable = {s1, s2, s3}
    Masters = {m1}
    MaxNetclients = 3
    MaxPending = 1
    MaxTries = 1
    StartTime = 3
    MaxTime = 5
    ServerDelays = {2}
    MasterDelays = {1}
    MinDelay = 1
    MaxDelay = 2
    FirstRecompute = 1
    NextRecompute = 1
    Day = 2
SYMMETRY Symmetry
INVARIANTS
    NoClientLost
    OneClientEach
    DatesSaved
    PolledSoon
PROPERTIES
    RemovedSilent
