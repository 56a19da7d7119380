SPECIFICATION Spec
CONSTANTS
    Names = {1, 2, 3}
    Legacy = {2}
    MaxShards = 2
    Limit = 1
    Retention = 1
    MaxClock = 2
INVARIANTS
    TypeOK
    WindowIsNewest
PROPERTY ShardsOnlyGrow
CHECK_DEADLOCK FALSE
