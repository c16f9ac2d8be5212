CONSTANTS
    Import = {i1, i2}
    Chunk = {c1}
    Nobody = Nobody
    MaxFaults = 1
    MaxCrashes = 1
SPECIFICATION FairSpec
CHECK_DEADLOCK FALSE
PROPERTIES
    LifecycleSettles
