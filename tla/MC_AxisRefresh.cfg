CONSTANTS
    Motors = 1
    Feedback <- OneFeedback
    TimeoutCap = 2
    DegradedAt = 2
    MaxDepth = 1
    MaxAnswers = 1
SPECIFICATION FairSpec
INVARIANTS
    TypeOK
    QueuedHasFrame
    RaceCostsOne
PROPERTY AxisComesBack
