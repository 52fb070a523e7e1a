SPECIFICATION ResolverSpec
CONSTANTS
    Names <- MCNames
    Records <- MCRecords
    MaxRecords = 2
INVARIANTS
    WalkIsRight
    CutIsHarmless
PROPERTIES
    Returns
