SPECIFICATION Spec
CONSTANTS
  MaxPid = 3
  MaxRecords = 1
  TIMESLICE = 2
  KbdCapacity = 1
  Codes = {0}
INVARIANTS TypeOK RingSound ListsMatchStates ExitAccounting WaiterHasChild ForegroundAlive LifeCycle
PROPERTIES DeadStayDead ExitDeliveredOnce
