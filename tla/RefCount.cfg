SPECIFICATION FairSpec
CONSTANTS
    Threads <- MCThreads
    Slots <- MCSlots
    Objects = {o1, o2}
    OwnerOf <- MCOwnerOf
    TempOf <- MCTempOf
    Null = Null
INVARIANTS
    LiveWhileHeld
    OneRefExclusive
    DeletedOnce
PROPERTIES
    Collected
CHECK_DEADLOCK FALSE
