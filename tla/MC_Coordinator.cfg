SPECIFICATION FairSpec
CONSTANTS
    Threads = {t1, t2}
    Writers = {writer}
    Publishers = {publisher}
    NoThread = NoThread
INVARIANTS
    TypeOK
    MutexHeld
    StableUnderAction
    TransientModesOwned
    ActiveWhenUp
PROPERTIES
    RunningOnlyByRelease
    PersistentFaultNoticed
    TransitionEnds
    ImplementsLifecycleModes
