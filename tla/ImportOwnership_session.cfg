CONSTANTS
    o = o
    k = k
    Owner = {o}
    Op = {k}
    By <- MCBy
    MaxConnects = 3
    MaxFaults = 3
SPECIFICATION FairSpec
CHECK_DEADLOCK FALSE
INVARIANTS OwnershipInv SessionKept PublicationAnnounced
PROPERTIES SessionsEnd
