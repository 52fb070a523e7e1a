SPECIFICATION Spec
CONSTANTS
    Methods <- MCMethods
    Grants <- MCGrants
    Bounds <- MCBounds
    Memory <- MCMemory
INVARIANT
    TunnelMeansGranted
