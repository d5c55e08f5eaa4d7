\* DEBRIDUP_MAX_CONCURRENT_CHECKS = 3 with the pool of four connections.
SPECIFICATION FairSpec
CONSTANTS
    Recorders = {c1, c2, c3}
    Others = {o1, o2}
    Conns = 4
    None = None
INVARIANTS
    TypeOK
    PoolConserved
    PoolNeverJams
PROPERTIES
    RecordingEnds
