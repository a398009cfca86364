SPECIFICATION Spec
CONSTANTS
    NumJoints = 2
    DeviceOf <- OneBus
    MayFault = TRUE
    MayReject = FALSE
    MayLoseLink = FALSE
INVARIANTS
    StandbyNotEnabled
