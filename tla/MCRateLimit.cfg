SPECIFICATION Spec
CONSTANTS
    c1 = c1
    c2 = c2
    p1 = p1
    p2 = p2
    r1 = r1
    root = root
    docs = docs
    openapi = openapi
    Clients <- TwoClients
    Proxies <- TwoProxies
    TrustProxy = TRUE
    NumTrustedProxies = 2
    Requests <- OneRequest
    Paths <- TwoPaths
    Sent <- Forgeries
    Limit = 2
    Window = 2
    MaxRestarts = 1
CONSTRAINT TwoInUse
INVARIANTS
    TypeOK
    ClientsBounded
    FailClosed
PROPERTIES
    RefusedForOwnHits
