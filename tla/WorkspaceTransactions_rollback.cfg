SPECIFICATION Spec
CONSTANTS
    Workspace = ws
    Names = {ws}
    MaxFence = 2
    Files = {1, 2}
    Created = {2}
    Automatic = {1, 2}
    Sweeps = FALSE
    MaxBatches = 2
    MaxEdits = 0
    Foreign = Foreign
    Renewed = Renewed
    None = None
INVARIANTS
    TypeOK
    BackupsOutliveTheirNeed
    UncommittedIsNotTorn
    RolledBackMeansRestored
PROPERTIES
    RecoveryKeepsNeededClaims
    FailedRecoveryHasAReason
CHECK_DEADLOCK FALSE
