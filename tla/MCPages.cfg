SPECIFICATION Spec
CONSTANTS
    Images <- MCImages
    Names <- MCNames
    NameLen <- MCNameLen
    HeaderSize = 4
    BuffLen = 3
    SinkLen = 2
    TokenLen = 2
INVARIANTS
    PagesInv
    ServesFile
    RightStatus
