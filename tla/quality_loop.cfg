SPECIFICATION LoopSpec
CONSTANTS
    A = A
    B = B
    C = C
    D = D
    q1 = q1
    q2 = q2
    q3 = q3
    q4 = q4
    near = near
    off = off
    None = None
    Ranked <- MCRanked
    RATIO = 50
    MIN_WINDOW = 3
    GoldenFiles <- MCGolden
    DEFAULTS <- MCDefaults
    GridPoints <- MCGrid
    FloorsInEnv = {75}
    PromptVersions = {v1, v2}
    Questions = {q1, near, off}
    RequestTopKs = {2}
    MaxWindow = 5
    MaxChanges = 3
SYMMETRY MCSymmetry
INVARIANTS
    LoopTypeOK
    OnlyAnswerableInBaseline
    GroundedByFloorAlone
    KsIsLargestGap
    SteadyTrafficQuiet
    BlackoutNoticed
    BlamedOnlyWithContext
    MoreRefusalsNeverQuieter
PROPERTIES
    TuneKeepsAnswers
CHECK_DEADLOCK FALSE
