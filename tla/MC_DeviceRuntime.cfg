CONSTANTS
    Senders = {s1, s2}
    Ids = {i1, i2, i3}
    MaxDepth <- Shallow
    MaxBackpressureRetries = 2
    MaxCalls = 4
SPECIFICATION FairSpec
INVARIANTS
    TypeOK
    StatsConserved
    OneFramePerId
    NewestControlWins
    GapHasFrame
    DrainedAtExit
    IdleMeansDone
    ReadsComplete
PROPERTY
    ShutdownReturns
