SPECIFICATION Spec
CONSTANTS
    Procs = {p1, p2}
    a = a
    b = b
    d1 = d1
    d2 = d2
    short = short
    long = long
    part = part
    Names = {a, b}
    Cwds = {d1, d2}
    Paths = {short, long, part}
    FileAt <- MCFileAt
    Cut <- MCCut
    NULL = NULL
    Wbufs = {w1}
    Bytes = {1, 2}
    MAX_FDS = 2
    NCLUSTERS = 3
    CLUSTER_BYTES = 2
    WBUF_CAP = 3
    WRITES <- MCWrites
    LENS = {2}
    OFFSETS <- MCOffsets
    MAXPOS = 3
    MAXFAULTS = 1
    MAXOPS = 3
SYMMETRY MCSymmetry
INVARIANTS TypeOK CacheExact ShortOnlyAtEnd
PROPERTIES RefinesOpenFiles
