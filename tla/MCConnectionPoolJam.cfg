\* The defaults: four checks at once, four connections.
SPECIFICATION Spec
CONSTANTS
    Recorders = {c1, c2, c3, c4}
    Others = {o1}
    Conns = 4
    None = None
INVARIANTS
    PoolNeverJams
