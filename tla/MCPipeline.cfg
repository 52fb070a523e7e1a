SPECIFICATION Spec
CONSTANTS
    Words <- MCWords
    Rows <- MCRows
    ChunkSize = 3
    Factors = {0}
    Absent = Absent
    Torn = Torn
    NoReport = NoReport
    MaxScans = 2
    MaxTransfers = 2
    MaxTrainings = 2
    MaxCommands = 4
INVARIANTS
    WholeTransfers
    StashIsLastChunk
    EndsAgree
    BaselineIsFlat
PROPERTIES
    InBounds
