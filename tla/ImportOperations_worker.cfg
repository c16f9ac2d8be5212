CONSTANTS
    a = a
    b = b
    c = c
    Operation <- MCOperation
    IssuedAt <- MCIssuedAt
    Window = 2
    RegistryCap = 1
    FenceCap = 1
    Nobody = Nobody
    MaxTime = 4
    MaxRestarts = 1
SPECIFICATION FairSpec
CHECK_DEADLOCK FALSE
INVARIANTS
    RegistrySound
    CancelledStayOut
    StoppedStayUnpublished
    AnswersTruthful
PROPERTIES
    NoReadmission
    PublishedOnce
    OperationsSettle
