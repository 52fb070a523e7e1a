SPECIFICATION FairSpec
CONSTANTS
    Fd = {f1, f2}
    NoFd = noFd
    Codes <- MCCodes
    BufUnits = 2
    MaxCalls = 2
INVARIANTS
    TypeOK
    AllReleased
    NoStaleHandle
    RowHonest
    NamelessMeansCancelled
PROPERTIES
    Returns
    ImplementsContract
