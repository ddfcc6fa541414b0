SPECIFICATION SerialSpec
CONSTANTS
    None = None
    c1 = c1
    Handler = {h1}
    Request = {r1, r2}
    Customer = {c1}
    Hook = {}
    MalformedHook = {}
    Payload <- OnePayment
    Target <- NoTarget
    Name = {n1, n2}
    MaxFaults = 1
    Patch = {p1, p2}
    NewTarget = {2}
INVARIANTS AuditedCreditStands PatchTakesEffect
PROPERTY PatchLeavesStatus
CHECK_DEADLOCK TRUE
