SPECIFICATION Spec
CONSTANTS
    NumJoints = 1
    DeviceOf <- OneBus
    MayFault = FALSE
    MayReject = FALSE
    MayLoseLink = FALSE
PROPERTIES
    MotionOnlyInRunning
