SPECIFICATION FairSpec
CONSTANTS
    None = None
    c1 = c1
    c2 = c2
    Handler = {h1}
    Request = {r1}
    Customer = {c1}
    Hook = {}
    MalformedHook = {}
    Payload <- OnePayment
    Target <- NoTarget
    Name = {n1}
    MaxFaults = 1
PROPERTY WebhookAnswered
CHECK_DEADLOCK TRUE
