SPECIFICATION Spec
CONSTANTS
    Fd = {f1, f2}
    NoFd = noFd
    Codes <- MCCodes
    BufUnits = 2
    MaxCalls = 2
INVARIANTS
    AllReleased
    MisuseConfined
    ResultMeansSent
PROPERTIES
    Returns
    ImplementsContract
