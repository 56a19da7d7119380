SPECIFICATION Spec
CONSTANTS
    Threads = {t1, t2}
    Budget = 3
    Window = 5
    MaxEmbedCost = 1
    MaxChatCost = 1
    MaxLost = 2
    MaxClock = 8
SYMMETRY Symmetry
INVARIANTS
    TypeOK
    RecordedBounded
    BilledBounded
    RefusalEndsWithItsWindow
CHECK_DEADLOCK FALSE
