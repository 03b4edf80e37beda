SPECIFICATION FairSpec
CONSTANTS
    Peer = {p1, p2}
    Nobody = Nobody
    MaxConn = 2
    Requests <- Gets
    MaxParts = 2
    MaxBacklog = 2
    MayRefuse = FALSE
    Failing = {}
    Async = FALSE
PROPERTIES
    Answered
    SocketFreed
