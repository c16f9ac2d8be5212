CONSTANTS
    r1 = r1 r2 = r2 r3 = r3 r4 = r4
    Nobody = Nobody
    Request <- MCRequests3
    Kind <- MCSuspension
    MaxFaults = 0
SPECIFICATION Spec
INVARIANT SuspendedNotReady
CHECK_DEADLOCK FALSE
