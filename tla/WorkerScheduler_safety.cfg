CONSTANTS
    r1 = r1 r2 = r2 r3 = r3 r4 = r4
    Nobody = Nobody
    Request <- MCRequests4
    Kind <- MCSafetyKinds
    MaxFaults = 1
SPECIFICATION Spec
SYMMETRY MCSymmetry
INVARIANTS
    BookkeepingSound MutationAlone InOrder BodiesFindDatabase
CHECK_DEADLOCK FALSE
