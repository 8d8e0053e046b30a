CONSTANTS
    NCLUSTERS = 5
    SLOTS = 2
    FileNames = {"a", "b"}
    DirNames = {"d"}
    LongNames = {"b"}
    Paths <- MCPaths
    SIZES = {0, 2}
    MAXEVENTS = 4
SPECIFICATION Spec
INVARIANTS OnlyTargetAtRisk LostOnlyWhenFull
PROPERTY OpsEnd
