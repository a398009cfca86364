CONSTANTS
    Physical = 1
    MaxRaw = 1
    Corrections = {1}
    Refreshed = {"Position", "Enable"}
    MaxReads = 1
    MaxAnswers = 1
    Zeros = {2}
    Switches = {3}
    Persist = TRUE
    MaxSaves = 2
    MaxCalls = 2
SPECIFICATION FairSpec
INVARIANTS
    TypeOK
    ZeroAsTold
PROPERTIES
    ConfiguredDisabled
    EnableStateCatchesUp
