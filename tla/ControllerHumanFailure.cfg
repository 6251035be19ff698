SPECIFICATION Spec
CONSTANTS
    Strategies <- TwoBackends
    Settings <- Distinguished
    Main = Main
    Target = Target
    Detached = Detached
    None = None
    MaxCalls = 0
PROPERTY HumanFailureStops
CHECK_DEADLOCK FALSE
