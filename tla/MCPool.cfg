SPECIFICATION FairSpec
CONSTANTS
    m = m
    s1 = s1
    s2 = s2
    am = am
    a1 = a1
    Entries <- MCEntries
    Masters = {m}
    Addrs = {am, a1}
    Addr <- MCAddr
    MaxPending = 2
    MaxRetries = 1
    Second = 1
    MaxAnswers = 1
    MaxStray = 1
    MaxInbox = 2
INVARIANTS
    ListsExclusive
    ReturnedEntry
PROPERTIES
    RoundEnds
    AbstractSpec
