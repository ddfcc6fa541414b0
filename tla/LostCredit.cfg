SPECIFICATION Spec
CONSTANTS
    None = None
    c1 = c1
    c2 = c2
    Handler = {h1, h2}
    Request = {r1, r2}
    Customer = {c1}
    Hook = {}
    MalformedHook = {}
    Payload <- OnePayment
    Target <- NoTarget
    Name = {n1}
    MaxFaults = 0
INVARIANTS AuditedCreditStands
CHECK_DEADLOCK TRUE
