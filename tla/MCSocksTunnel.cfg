SPECIFICATION Spec
CONSTANTS
    Methods <- MCMethods
    Grants <- MCGrants
    Bounds <- MCBounds
    Memory <- MCMemory
INVARIANTS
    HeldIffReturned
    WholeReplies
PROPERTIES
    TunnelReturns
