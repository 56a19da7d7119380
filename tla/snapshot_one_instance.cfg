SPECIFICATION FairSpec
CONSTANTS
    i1 = i1
    i2 = i2
    w1 = w1
    w2 = w2
    c1 = c1
    c2 = c2
    c3 = c3
    Instances <- OneInstance
    Workers <- TwoWorkers
    Host <- TwoThreads
    Chunks = {c1, c2}
    Batches <- SingleChunks
    MergeAttempts = 2
    MaxGeneration = 3
    Faults = {"upload", "response", "crash"}
INVARIANT AcknowledgedKept
PROPERTIES
    ImplementsDurableCorpus
    EveryIngestEnds
