SPECIFICATION FairSpec
CONSTANTS
    MaxBody = 2
    ChunkSizes <- MCChunkSizes
    Lengths <- MCLengths
    AppStatuses <- MCAppStatuses
    MaxMsgs = 3
INVARIANTS
    TypeOK
    OneResponseStart
    FramesInOrder
    EveryAnswerShielded
    LineTellsTheWire
    BodyWithinLimit
    ReplayInOrder
    HandlerWaitsForBody
    OversizeRefused
    CrashAnswered
PROPERTIES
    EveryRequestLogged
    KeepsExchange
