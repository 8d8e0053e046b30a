SPECIFICATION Spec
CONSTANTS
    Procs = {p1, p2}
    Tables = {t1, t2, t3, t4, t5}
    NoTable = NoTable
    NLOW = 2
    NHIGH = 4
    FANOUT = 4
    DIRS = 2
    PG = 2
    WORD = 24
    IMAGES <- MCImages
    INCREMENTS <- MCIncrements
    HEAPRUNS = {1, 2}
SYMMETRY MCSymmetry
INVARIANTS
    FramesExclusive
    PoolsExact
PROPERTIES
    LostOnlyByRemap
    FailureRestores
    StackStays
