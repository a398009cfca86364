SPECIFICATION Spec
CONSTANTS
    NumJoints = 2
    DeviceOf <- OneBus
    MayFault = FALSE
    MayReject = TRUE
    MayLoseLink = TRUE
INVARIANTS
    TypeOK
PROPERTIES
    NoReplayAfterHold
    FailedEnableUndone
