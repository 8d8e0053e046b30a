SPECIFICATION Spec
CONSTANTS
  Procs = {p1, p2, p3}
  PipeIds = {P1}
  WbufIds = {w1}
  Bytes = {0}
  NULL = NULL
  MAX_FDS = 2
  PIPE_BUF_SIZE = 2
  WBUF_CAP = 1
  MaxWrite = 1
SYMMETRY ProcSymmetry
INVARIANTS TypeOK RefcountsExact PipesAllocatedWhileUsed
PROPERTIES SleepersJustified
CHECK_DEADLOCK FALSE
