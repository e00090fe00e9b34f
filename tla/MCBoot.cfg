SPECIFICATION FairSpec
CONSTANTS
    a1 = a1
    a2 = a2
    w = w
    Apis <- MCApis
    Consumers <- MCConsumers
    Deployments <- MCDeployments
    Head = 2
    MaxFaults = 2
INVARIANTS
    TypeOK
    SchemaMatches
    SeparationHolds
PROPERTY
    AcceptedComesUp
CHECK_DEADLOCK FALSE
