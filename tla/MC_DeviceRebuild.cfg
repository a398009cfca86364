CONSTANTS
    Devices <- MCDevices
    Callers = {c1, c2}
    MaxBuilds = 2
SPECIFICATION FairSpec
INVARIANTS
    TypeOK
    SafeToCall
    Serialised
PROPERTIES
    CutOffOnlyByKeptObject
    LifecycleEnds
    LinkRecovers
