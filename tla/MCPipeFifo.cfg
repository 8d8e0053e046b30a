SPECIFICATION Spec
CONSTANTS
  Procs = {p1, p2}
  PipeIds = {P1}
  WbufIds = {}
  Bytes = {1, 2}
  NULL = NULL
  MAX_FDS = 2
  PIPE_BUF_SIZE = 3
  WBUF_CAP = 1
  MaxWrite = 2
SYMMETRY ProcSymmetry
PROPERTY RefinesFifo
CHECK_DEADLOCK FALSE
