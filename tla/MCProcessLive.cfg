SPECIFICATION FairSpec
CONSTANTS
  MaxPid = 2
  MaxRecords = 1
  TIMESLICE = 2
  KbdCapacity = 1
  Codes = {0}
PROPERTIES EveryQueuedRuns DeadAreReaped WaitReturns
