SPECIFICATION Spec
CONSTANTS
    Names = {n1}
    MaxFence = 3
    Batches = {b1}
    Actions = {a1}
    Artifacts = {x1}
    MaxLog = 6
    NoBatch = NoBatch
INVARIANTS
    TypeOK
    LogIsFenced
    PhaseMatchesRecords
    AttemptsAreFenced
    EvidencePrecedesRecovery
    RecordsEndOnce
PROPERTIES
    StaleWriterOnlyAsksForRecovery
    ImplementsBatchRecovery
CHECK_DEADLOCK FALSE
