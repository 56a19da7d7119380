SPECIFICATION Spec
CONSTANTS
    Threads = {t1, t2, t3}
    Every = 2
    MaxRuns = 8
SYMMETRY Symmetry
INVARIANTS
    TypeOK
    RunsAtRisk
    LossBounded
CHECK_DEADLOCK FALSE
