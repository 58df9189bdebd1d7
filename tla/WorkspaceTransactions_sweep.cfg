SPECIFICATION Spec
CONSTANTS
    Workspace = ws
    Names = {ws}
    MaxFence = 3
    Files = {1}
    Created = {}
    Automatic = {1, 2, 3}
    Sweeps = TRUE
    MaxBatches = 1
    MaxEdits = 0
    Foreign = Foreign
    Renewed = Renewed
    None = None
INVARIANT BackupsOutliveTheirNeed
CHECK_DEADLOCK FALSE
