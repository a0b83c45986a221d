SPECIFICATION FairSpec
CONSTANTS
    Uris = {"http", "https", "malformed"}
    Replies <- AllReplies
    RequestSize = 2
    Window = 1
    TempBufferSize = 12
    SizeModulus = 16
    MaxSize = 7
    Timed = TRUE
INVARIANTS
    TypeOK
    BodyIsPrefix
    CompleteIsWhole
    WellFramedAccepted
    SocketReleased
PROPERTIES
    ImplementsHttpCall
    TimedRequestEnds
    EndsUnaided
CHECK_DEADLOCK FALSE
