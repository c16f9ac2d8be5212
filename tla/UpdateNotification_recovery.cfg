CONSTANTS
    i = i
    u = u
    m = m
    s = s
    None = None
    Change = {i, u, m}
    Kind <- MCKind
    Session = {s}
    By <- MCBy
    MaxFaults = 1
SPECIFICATION Spec
CHECK_DEADLOCK FALSE
INVARIANTS RefreshRetained
