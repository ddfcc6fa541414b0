SPECIFICATION StatementsSpec
CONSTANTS
    None = None
    c1 = c1
    Handler = {h1}
    Request = {r1, r2, r3}
    Customer = {c1}
    Hook = {}
    MalformedHook = {}
    Payload <- NearlyAll
    Target <- OneTarget
    Name = {n1}
    MaxFaults = 1
    Limit = 1
SYMMETRY Interchangeable
INVARIANTS ReaderTypeOK StatementCovers FiguresAgree
PROPERTY WalkSkipsNothing
CHECK_DEADLOCK TRUE
