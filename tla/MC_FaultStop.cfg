SPECIFICATION Spec
CONSTANTS
    NumJoints = 1
    DeviceOf <- OneBus
    MayFault = TRUE
    MayReject = FALSE
    MayLoseLink = TRUE
INVARIANTS
    StopFlagMeansStopped
