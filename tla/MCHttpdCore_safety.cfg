SPECIFICATION Spec
CONSTANTS
    Peer = {p1, p2}
    Nobody = Nobody
    MaxConn = 2
    Requests <- Usual
    MaxParts = 2
    MaxBacklog = 1
    MayRefuse = TRUE
    Failing <- Allocations
    Async = TRUE
SYMMETRY Symmetry
INVARIANTS
    PoolInv
    NoCgiLeftBehind
    InOrder
