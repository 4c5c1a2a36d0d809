CONSTANTS
    N = 3
    Drains = {d1, d2}
    MaxAttempts = 1
    MaxDeaths = 1
    MaxAges = 2

SPECIFICATION WakeSpec

INVARIANTS
    WakeInvariant

PROPERTIES
    Drained

CHECK_DEADLOCK FALSE
