SPECIFICATION FairSpec
CONSTANTS
    Requested = 5
    MaxParallel = 3
INVARIANT LaunchInv
INVARIANT FilesHonest
PROPERTY ImplementsLedger
PROPERTY LaunchEnds
CHECK_DEADLOCK FALSE
