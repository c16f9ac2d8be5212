CONSTANTS
    r1 = r1 r2 = r2 r3 = r3 r4 = r4
    Nobody = Nobody
    Request <- MCRequests3
    Kind <- MCSettlesKinds
    MaxFaults = 1
SPECIFICATION FairSpec
PROPERTY EveryRequestAnswered
CHECK_DEADLOCK FALSE
