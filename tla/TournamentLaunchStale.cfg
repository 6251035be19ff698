SPECIFICATION Spec
CONSTANTS
    Requested = 3
    MaxParallel = 2
INVARIANT RunningMeansRunning
CHECK_DEADLOCK FALSE
