SPECIFICATION Spec
CONSTANTS
    Tasks <- TwoTasks
    Budget = 2
    Results <- ThreeResults
    Opinions <- TwoOpinions
    Findings <- TwoFindings
    Raises <- Interruptions
    Dependencies <- IndependentOrChain
INVARIANT SubtaskInv
INVARIANT FinalIsIntegrated
INVARIANT DeadlockSeen
INVARIANT RecoveryAdvances
PROPERTY AcceptedOnReview
CONSTRAINT FewAttempts
CHECK_DEADLOCK FALSE
