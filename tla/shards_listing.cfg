SPECIFICATION Spec
CONSTANTS
    Names = {1, 2, 3, 4, 5}
    Legacy = {}
    MaxShards = 1
    Limit = 1
    Retention = 2
    MaxClock = 1
INVARIANT ListsNewest
CHECK_DEADLOCK FALSE
