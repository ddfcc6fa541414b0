SPECIFICATION Spec
CONSTANTS
    None = None
    p1 = p1
    p2 = p2
    p3 = p3
    Payment = {p1, p2, p3}
    RefOf <- TwoShareRef
    KeysOf <- KeysMissing
    Limit = 2
    MaxCopies = 2
    LastDay = 2
    MaxFaults = 1
SYMMETRY Interchangeable
INVARIANTS TypeOK CompleteRunAccounts MatchHasRow MatchedTwiceAtMost AccountedByNextNight
\* Time ends with the last day.
CHECK_DEADLOCK FALSE
