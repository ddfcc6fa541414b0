SPECIFICATION Spec
CONSTANTS
    None = None
    Call = {c1, c2}
    Ref = {r1}
    Kind = {"create", "dedicate"}
    MaxFaults = 0
SYMMETRY Interchangeable
INVARIANTS AnsweredAccountStays
\* Every call ends, and the model has only so many.
CHECK_DEADLOCK FALSE
