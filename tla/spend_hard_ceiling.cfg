SPECIFICATION Spec
CONSTANTS
    Threads = {t1}
    Budget = 2
    Window = 4
    MaxEmbedCost = 1
    MaxChatCost = 1
    MaxLost = 5
    MaxClock = 2
SYMMETRY Symmetry
INVARIANT HardCeiling
CHECK_DEADLOCK FALSE
