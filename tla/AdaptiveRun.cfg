SPECIFICATION FairSpec
CONSTANTS
    Candidates = {c1, c2, c3}
    None = None
    RejectAll = RejectAll
    MaxTurns = 4
    MaxRecovery = 2
    MaxCalls = 2
INVARIANT DecisionInv
PROPERTY GoodWorkNotDiscarded
PROPERTY ImplementsOutcome
PROPERTY RunEnds
CHECK_DEADLOCK FALSE
