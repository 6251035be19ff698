SPECIFICATION Spec
CONSTANTS
    s1 = s1
    s2 = s2
    small = small
    large = large
    Candidates = {c1, c2}
    Subtasks <- TwoSubtasks
    Strangers = {stranger}
    Proposals <- NoOrder
    Backends = {small, large}
    MaxParallel <- OneAndTwo
    None = None
    Integrated = Integrated
SYMMETRY CandidateSymmetry
INVARIANT SoundIsAccepted
CHECK_DEADLOCK FALSE
