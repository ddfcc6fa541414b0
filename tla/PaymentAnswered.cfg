SPECIFICATION FairSpec
CONSTANTS
    None = None
    c1 = c1
    c2 = c2
    Handler = {h1, h2}
    Request = {r1, r2}
    Customer = {c1}
    Hook = {k1}
    MalformedHook = {}
    Payload <- PaymentOrUnrelated
    Target <- NoTarget
    Name = {n1}
    MaxFaults = 0
PROPERTY WebhookAnswered
CHECK_DEADLOCK TRUE
