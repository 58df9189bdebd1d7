SPECIFICATION Spec
CONSTANTS
    b1 = b1
    b2 = b2
    None = None
    Contents = {c1, c2}
    Backups = {b1, b2}
    Restores = {r1}
    Policies = {"no_replace", "replace"}
    Entries <- MCEntries
    MaxOutside = 0
    MaxLosses = 1
INVARIANT
    CompletedBackupsStayRestorable
CHECK_DEADLOCK FALSE
