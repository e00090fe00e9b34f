SPECIFICATION FairSpec
CONSTANTS
    p1 = p1
    p2 = p2
    Probes <- MCProbes
    Ttl = 2
    UseRedis = TRUE
    RedisBudget = 1
    Pool = 1
    PoolWait = 1
    ConnectWait = 1
INVARIANTS
    TypeOK
    OutageBounded
    RecoveryBounded
PROPERTIES
    BackendSpared
    ProbeEnds
