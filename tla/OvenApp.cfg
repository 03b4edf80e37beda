SPECIFICATION FairSpec
CONSTANTS
    Poll = {p1, p2, p3}
    NoPoll = none
    MaxLoad = 4
INVARIANTS
    PollsInv
    SomethingWatches
PROPERTIES
    ShownAgain
    SetReconnects
CHECK_DEADLOCK FALSE
