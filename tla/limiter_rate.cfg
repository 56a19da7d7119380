SPECIFICATION Spec
CONSTANTS
    Keys = {k1}
    Callers = {a, b}
    Rate = 2
    Minute = 5
    MaxKeys = 1
    MaxClock = 8
SYMMETRY Symmetry
INVARIANTS
    TypeOK
    AdmissionBounded
PROPERTY RetryAfterHonoured
