SPECIFICATION Spec
CONSTANTS
    Strategies <- TwoBackends
    Settings <- Distinguished
    Main = Main
    Target = Target
    Detached = Detached
    None = None
    MaxCalls = 2
INVARIANT ControllerInv
PROPERTY NoAttemptWasted
PROPERTY EscalationMovesOn
PROPERTY WorkKept
PROPERTY OnlyThePatchIsCommitted
CHECK_DEADLOCK FALSE
