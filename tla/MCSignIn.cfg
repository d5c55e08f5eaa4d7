SPECIFICATION Spec
CONSTANTS
    Requests = {p1, p2}
    Clients = {c1}
    Ids = {s1, s2}
    MaxHashes = 1
    TTL = 2
    Threshold = 2
    Window = 2
    LockoutBase = 1
    LockoutMax = 2
    MaxWait = 1
    MaxTime = 4
SYMMETRY Perms
INVARIANTS TypeOK MemoryMirrorsTable HashSlotsCounted
PROPERTIES RevokedStaysOut LockoutHolds
