CONSTANTS
    a = a
    m = m
    o = o
    Call <- MCCall
    Kind <- MCKind
    Breakable = {1, 2}
SPECIFICATION FairSpec
CHECK_DEADLOCK FALSE
INVARIANTS
    ClientInv
PROPERTIES
    HealthyWorkerKept
    CallsSpec
    EveryCallEnds
