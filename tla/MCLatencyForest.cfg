SPECIFICATION Spec
CONSTANTS
    Datasets <- MCDatasets
    Live <- MCLive
    Unit = 4
    TreeCounts <- MCTreeCounts
    SubSamples <- MCSubSamples
    Absent = Absent
    Junk = Junk
    MaxTrainings = 1
INVARIANTS
    EndlessOnlyIfCut
    WalksInside
    StraysRightOnly
    RowsKept
PROPERTIES
    SmallSubSampleIsBlind
