SPECIFICATION FairSpec
CONSTANTS
    Requests = {r1, r2, r3}
    Connections = {c1, c2}
    NoConnection = NoConnection
    MaxWrites = 2
    MaxCrashes = 1
INVARIANTS
    TypeOK
    AnswerMatchesData
PROPERTIES
    SessionsEnd
CHECK_DEADLOCK FALSE
