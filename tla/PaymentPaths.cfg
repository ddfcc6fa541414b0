SPECIFICATION Spec
CONSTANTS
    None = None
    c1 = c1
    c2 = c2
    Handler = {h1}
    Request = {r1, r2}
    Customer = {c1, c2}
    Hook = {bad}
    MalformedHook = {bad}
    Payload <- AllPaths
    Target <- OneTarget
    Name = {n1}
    MaxFaults = 2
INVARIANTS TypeOK WalletBacked AuditedCreditStands QuarantineHasSuspense
CHECK_DEADLOCK TRUE
