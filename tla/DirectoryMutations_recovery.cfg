SPECIFICATION FairSpec
CONSTANTS
    Top = Top
    Paths = {"a", "b", "d", "q", "m", "m/n"}
    Parent <- MCParent
    Inodes = {1, 2, 3, 4}
    Programs <- MCPrograms
    Initially <- MCInitially
    Platforms = {"posix", "windows"}
    Policy = "automatic"
    MaxOutside = 1
    MaxCrashes = 1
INVARIANTS
    TypeOK
    RestoredIsWhatWasMoved
    RecoveredMovesAreUndone
PROPERTIES
    NoContentVanishes
    RecoverySettles
CHECK_DEADLOCK FALSE
