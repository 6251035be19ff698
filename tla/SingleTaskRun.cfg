SPECIFICATION FairSpec
CONSTANTS
    Results <- TwoResults
    Budget = 2
    MaxTurns = 3
    None = None
    RejectAll = RejectAll
INVARIANT SingleTaskInv
INVARIANT ObservationsHold
INVARIANT UnattendedDelivers
PROPERTY GoodWorkKept
PROPERTY NoBlindRetry
PROPERTY RunEnds
CHECK_DEADLOCK FALSE
