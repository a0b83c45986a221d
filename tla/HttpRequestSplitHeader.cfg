SPECIFICATION Spec
CONSTANTS
    Uris = {"http"}
    Replies <- WellFramedReplies
    RequestSize = 2
    Window = 1
    TempBufferSize = 12
    SizeModulus = 16
    MaxSize = 7
    Timed = FALSE
INVARIANTS
    HeaderReadBeforeReturn
CHECK_DEADLOCK FALSE
