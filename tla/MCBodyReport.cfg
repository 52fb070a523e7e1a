SPECIFICATION Spec
CONSTANTS
    Fd = {f1, f2}
    NoFd = noFd
    Codes <- MCCodes
    BufUnits = 8
    Replies <- MCReplies
    BodyCap = 3
    MaxWords = 1
    MaxRuns = 2
PROPERTIES
    ReportKept
