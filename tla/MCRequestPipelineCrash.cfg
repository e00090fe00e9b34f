SPECIFICATION Spec
CONSTANTS
    MaxBody = 2
    ChunkSizes <- MCChunkSizes
    Lengths <- MCLengths
    AppStatuses <- MCAppStatuses
    MaxMsgs = 3
INVARIANT
    EscapedCrashLoggedAs500
