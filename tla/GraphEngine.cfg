SPECIFICATION FairSpec
CONSTANTS
    s1 = s1
    s2 = s2
    small = small
    large = large
    Candidates = {c1, c2}
    Subtasks <- TwoSubtasks
    Strangers = {stranger}
    Proposals <- AnyProposal
    Backends = {small, large}
    MaxParallel <- OneAndTwo
    None = None
    Integrated = Integrated
INVARIANT EngineInv
INVARIANT ReviewSeesValidatedTree
PROPERTY EvidenceFrozen
PROPERTY PlanRunnable
PROPERTY ImplementsGraphRun
PROPERTY RunEnds
CHECK_DEADLOCK FALSE
