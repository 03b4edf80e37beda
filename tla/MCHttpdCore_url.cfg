SPECIFICATION Spec
CONSTANTS
    Peer = {p1}
    Nobody = Nobody
    MaxConn = 1
    Requests <- LostPost
    MaxParts = 2
    MaxBacklog = 2
    MayRefuse = FALSE
    Failing = {}
    Async = FALSE
INVARIANTS
    RequestsHaveUrl
