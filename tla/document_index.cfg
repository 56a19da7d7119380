SPECIFICATION IndexSpec
CONSTANTS
    Size = 7
    Overlap = 4
    MaxParagraphs = 4
    MaxParagraph = 8
    Docs = {d1}
    MaxVersions = 3
INVARIANTS
    IndexTypeOK
    FactsRetrievable
    ChunksBounded
    NeverDuplicated
    StaleOnlyBehindTheLast
CHECK_DEADLOCK FALSE
