SPECIFICATION Spec
CONSTANTS
    None = None
    Call = {c1, c2, c3}
    Ref = {r1, r2}
    Kind = {"create", "dedicate"}
    MaxFaults = 2
SYMMETRY Interchangeable
INVARIANTS TypeOK AccountMatchesCustomer RefusedLeavesNothing
\* Every call ends, and the model has only so many.
CHECK_DEADLOCK FALSE
