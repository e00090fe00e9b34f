SPECIFICATION FairSpec
CONSTANTS
    Messages = {m1, m2}
    Workers = {w1, w2}
    MaxAsync = 1
    MaxFaults = 2
INVARIANTS
    TypeOK
    DuplicatesExcused
PROPERTIES
    KeepsDelivery
    EveryTaskRuns
CHECK_DEADLOCK FALSE
