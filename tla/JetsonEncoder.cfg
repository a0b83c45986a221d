SPECIFICATION FairSpec
CONSTANTS
    OutputBuffers <- MCOutputBuffers
    CaptureBuffers <- MCCaptureBuffers
    MaxFrames = 4
INVARIANTS
    TypeOK
    FramesConserved
PROPERTIES
    EncodeReturns
    StopReported
CHECK_DEADLOCK FALSE
