SPECIFICATION Spec
CONSTANTS
    i1 = i1
    i2 = i2
    w1 = w1
    w2 = w2
    c1 = c1
    c2 = c2
    c3 = c3
    Instances <- TwoInstances
    Workers <- TwoWorkers
    Host <- OneEach
    Chunks = {c1, c2}
    Batches <- SingleChunks
    MergeAttempts = 3
    MaxGeneration = 3
    Faults = {"restore", "upload", "response", "crash"}
SYMMETRY Symmetry
INVARIANTS
    TypeOK
    SavedIsStored
    RefusedOnlyWhenContended
PROPERTY LossOnlyAfterMerge
