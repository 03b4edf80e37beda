SPECIFICATION FairSpec
CONSTANTS
    Client = {c1, c2}
    Requests <- MCRequests
    RequestLine <- MCRequestLine
    HeaderLength <- MCHeaderLength
    DigitValue <- MCDigitValue
    Backlog = 2
    InitThreshold = 110
    CanAbandon = TRUE
    MaxQuiet = 1
INVARIANTS
    ParserInv
    AnswersOwnRequest
    ThresholdFromWholeBody
PROPERTIES
    EveryoneServed
CHECK_DEADLOCK FALSE
