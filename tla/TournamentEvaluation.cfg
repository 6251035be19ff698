SPECIFICATION Spec
CONSTANTS
    Candidates = {1, 2, 3}
    None = None
    MaxTime = 8
    Guard = 1
    EvaluationTime = 3
    ReviewReserve = 2
    PairReserve = 1
    MaxReviews = 1
    CallTimes = {1,2}
    MaxEvaluations = 2
INVARIANT EvaluationInv
INVARIANT ComparedOnce
PROPERTY ModelWorkKept
PROPERTY CoverageEarned
PROPERTY UndefeatedFirst
CHECK_DEADLOCK FALSE
