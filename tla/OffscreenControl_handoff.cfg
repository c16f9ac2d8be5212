CONSTANTS
    i = i
    l = l
    op = op
    Req = {i, l}
    Transferring = {i}
    Import = {i}
    Name <- MCName
    Registry = 2
    MaxFaults = 1
SPECIFICATION FairSpec
CHECK_DEADLOCK FALSE
INVARIANTS ControlInv
PROPERTIES HandoffSpec RequestsSettle
