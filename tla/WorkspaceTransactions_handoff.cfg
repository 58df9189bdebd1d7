SPECIFICATION Spec
CONSTANTS
    Workspace = ws
    Names = {ws}
    MaxFence = 3
    Files = {1}
    Created = {}
    Automatic = {3}
    Sweeps = TRUE
    MaxBatches = 1
    MaxEdits = 1
    Foreign = Foreign
    Renewed = Renewed
    None = None
PROPERTIES
    CleanupBeginsWhenDone
    RestoreRespectsEdits
CHECK_DEADLOCK FALSE
