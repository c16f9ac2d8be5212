CONSTANTS
    i = i
    u = u
    m = m
    s = s
    None = None
    Change = {i, u, m}
    Kind <- MCKind
    Session = {s}
    By <- MCBy
    MaxFaults = 1
SPECIFICATION FairSpec
CHECK_DEADLOCK FALSE
INVARIANTS NotificationInv ObligationKept InvalidatedFirst
PROPERTIES EveryChangeAnnounced
