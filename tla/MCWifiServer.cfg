SPECIFICATION FairSpec
CONSTANTS
    MaxEvents = 6
    MaxServers = 2
    MayFail = TRUE
    Bodies <- MCBodies
    Leftovers <- MCLeftovers
    InitThreshold = 110
INVARIANTS
    ServerInv
    ServerFollowsLink
PROPERTIES
    UpIsServed
