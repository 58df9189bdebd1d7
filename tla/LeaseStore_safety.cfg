SPECIFICATION Spec
CONSTANTS
    Names = {n1}
    Owners = {o1, o2}
    Callers = {c1, c2}
    Ttl = 2
    MaxTime = 3
    MaxFence = 3
    NoRow = NoRow
    NoCall = NoCall
SYMMETRY Symmetry
INVARIANTS
    TypeOK
    UniqueFences
    RevokedStaysRevoked
    SupersededNeverCurrent
    BoundedTenure
PROPERTIES
    WritesAreFenced
    NoTakeoverOfLiveGrant
    ImplementsFencedLease
CHECK_DEADLOCK FALSE
