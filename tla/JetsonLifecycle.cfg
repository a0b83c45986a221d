SPECIFICATION Spec
CONSTANT
    MaxLives = 3
INVARIANTS
    StrayOnlyReleased
    AbortsAccounted
PROPERTIES
    StopReported
CHECK_DEADLOCK FALSE
