SPECIFICATION Spec
CONSTANTS
    Period = 2
    CheckEvery = 2
    Retries = 3
    Capacity = 4
INVARIANTS
    TypeOK
    OneLostPingTolerated
PROPERTIES
    DeathSeen
    RecoverySeen
