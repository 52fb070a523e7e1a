SPECIFICATION Spec
CONSTANTS
    Fd = {f1, f2}
    NoFd = noFd
    Codes <- MCCodes
    BufUnits = 2
    MaxWords = 3
INVARIANTS
    LeaksPerQuery
    AnswersBounded
PROPERTIES
    ListEnds
