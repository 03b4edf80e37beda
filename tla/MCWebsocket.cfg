SPECIFICATION Spec
CONSTANTS
    Conn = {c1, c2, c3}
    Talker = c1
    None = None
    Streams <- MCStreams
    Logger = c3
    Url <- MCUrl
    Short = 2
    Long = 3
INVARIANTS
    ListInv
    FragmentsInvisible
    FramesWhole
    BroadcastReachesAll
