SPECIFICATION ProfileSpec
CONSTANTS
    None = None
    c1 = c1
    Handler = {h1}
    Request = {r1, r2}
    Customer = {c1}
    Hook = {}
    MalformedHook = {}
    Payload <- OnePayment
    Target <- NoTarget
    Name = {n1, n2}
    MaxFaults = 1
    Patch = {p1}
    NewTarget = {2}
SYMMETRY Interchangeable
INVARIANTS ProfileTypeOK WalletBacked
PROPERTY LedgerSpec
CHECK_DEADLOCK TRUE
