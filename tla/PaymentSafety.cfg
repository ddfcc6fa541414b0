SPECIFICATION Spec
CONSTANTS
    None = None
    c1 = c1
    c2 = c2
    Handler = {h1, h2}
    Request = {r1, r2}
    Customer = {c1}
    Hook = {k1}
    MalformedHook = {}
    Payload <- ToAndAstray
    Target <- OneTarget
    Name = {n1}
    MaxFaults = 1
SYMMETRY Interchangeable
INVARIANTS CreditedAtMostOnce WalletBacked AnsweredIsSettled ForwardedOnceAfterCredit
PROPERTIES LedgerSpec OnlyFaultsStrand StrandedForGood
CHECK_DEADLOCK TRUE
