CONSTANTS
    Import = {i1, i2}
    Chunk = {c1}
    Nobody = Nobody
    MaxFaults = 2
    MaxCrashes = 1
SPECIFICATION Spec
SYMMETRY ImportSymmetry
CHECK_DEADLOCK FALSE
INVARIANTS
    LifecycleSound
    PublishedIntact
    CheckpointRestorable
    NoOrphans
    ReceiptSound
PROPERTIES
    RemovedOnlyOnRequest
    PublicationComplete
    JournalReleasedWhenSettled
    OutcomesSpec
