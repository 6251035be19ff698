SPECIFICATION Spec
CONSTANTS
    Tasks <- TwoTasks
    Budget = 2
    Results <- ThreeResults
    Opinions <- TwoOpinions
    Findings <- TwoFindings
    Raises = {"started", "ran"}
    Dependencies <- IndependentOrChain
PROPERTY BuiltOnAccepted
CONSTRAINT FewAttempts
CHECK_DEADLOCK FALSE
