SPECIFICATION Spec
CONSTANTS
    Conn = {c1, c2}
    Files <- MCFiles
    Factory <- MCFactory
    PAGELEN = 2
    SEC_SIZE = 4
    fwSize = 8
    HeaderSize = 2
    PostLen = 6
SYMMETRY Symmetry
INVARIANTS
    UploadInv
    OkIsFlashed
