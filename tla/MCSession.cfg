SPECIFICATION Spec
CONSTANTS
    Configs <- MCConfigs
    Loads <- MCLoads
    Hosts <- MCHosts
    Wordlists <- MCWordlists
    WordCount = 2
    Replies <- MCReplies
    None = None
    Absent = Absent
    MaxScans = 2
    MaxTransfers = 1
    MaxCaptures = 1
    MaxFiles = 3
INVARIANTS
    FirstScanWins
    ReportReadBack
PROPERTIES
    LoadedIsMeaning
    SchemeLosesStash
    VerdictIsSoft404Only
