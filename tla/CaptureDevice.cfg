SPECIFICATION FairSpec
CONSTANTS
    Nodes <- MCNodes
    Buses = {busA, busB}
    Requests <- MCRequests
    Sizes = {s1, s2}
    Rates = {r1, r2}
    Codes <- MCCodes
    Zero = Zero
    None = None
INVARIANTS
    CapturesNamed
    StartsAsConfigured
    DescriptorOwned
    StaleOnlyUnsent
PROPERTIES
    AddEnds
CHECK_DEADLOCK FALSE
