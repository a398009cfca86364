SPECIFICATION FairSpec
CONSTANTS
    NumJoints = 1
    DeviceOf <- OneBus
    MayFault = TRUE
    MayReject = FALSE
    MayLoseLink = FALSE
PROPERTIES
    FaultedJointStopped
