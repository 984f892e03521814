SPECIFICATION FairSpec
CONSTANTS
    Servers = {s1}
    Resolvable = {s1}
    Masters = {m1}
    MaxNetclients = 2
    MaxPending = 1
    MaxTries = 1
    StartTime = 3
    MaxTime = 6
    ServerDelays = {2}
    MasterDelays = {1}
    MinDelay = 1
    MaxDelay = 2
    FirstRecompute = 1
    NextRecompute = 1
    Day = 2
PROPERTIES
    EveryoneIsPolled
    StopIsObeyed
