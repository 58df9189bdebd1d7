SPECIFICATION Spec
CONSTANTS
    Workspace = ws
    Names = {ws}
    MaxFence = 2
    Files = {1}
    Created = {}
    Automatic = {1, 2}
    Sweeps = FALSE
    MaxBatches = 1
    MaxEdits = 0
    Foreign = Foreign
    Renewed = Renewed
    None = None
INVARIANT RecoveryFreesClaims
CHECK_DEADLOCK FALSE
