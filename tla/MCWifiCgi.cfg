SPECIFICATION FairSpec
CONSTANTS
    Clients = {c1, c2}
    Found <- MCFound
    Networks = {"n1"}
    NoNetwork = "none"
INVARIANTS
    WifiCgiInv
    AnswerWhole
PROPERTIES
    EverythingEnds
