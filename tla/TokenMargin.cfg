SPECIFICATION Spec
CONSTANTS
    Caller = {c1, c2, c3}
    TTL = 3
    Life = 7
    Delay = 2
    Horizon = 14
SYMMETRY Interchangeable
INVARIANT TokenHonoured
CHECK_DEADLOCK TRUE
