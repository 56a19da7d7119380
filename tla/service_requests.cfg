SPECIFICATION FairSpec
CONSTANTS
    Templates = {t1}
    Texts = {a, b, bad}
    Valid = {a, b}
    Versions = {v1}
    Blank = Blank
    UNVERSIONED = UNVERSIONED
    None = None
    Free = Free
    upload = upload
    query = query
    health = health
    Requests = {upload, query, health}
    Endpoint <- MCEndpoint
    Workers = 1
INVARIANTS
    TypeOK
    DegradedIsDiagnosable
    OnlyAuthorisedSpend
    RunsCleanlyAttributed
PROPERTIES
    EveryRequestAnswered
    StopEnds
