SPECIFICATION Spec
CONSTANTS
    Reports <- FiveReports
    Settings <- Pools
    N = 3
    Older = Older
    None = None
    Absent = Absent
    Torn = Torn
    MaxUser = 2
INVARIANT VerifierInv
INVARIANT AppliedIsJustified
INVARIANT RecordsAgree
INVARIANT WinnerIsFound
PROPERTY Delivers
CHECK_DEADLOCK FALSE
