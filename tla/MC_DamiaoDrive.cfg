CONSTANTS
    Velocities = {0, 1}
    MaxDepth = 1
    MaxAnswers = 2
SPECIFICATION FairSpec
INVARIANTS
    TypeOK
    ModeBeforeMotion
PROPERTIES
    NoLateEnable
    StopPrevails
