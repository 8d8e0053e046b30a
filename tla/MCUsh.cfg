SPECIFICATION UshSpec
CONSTANTS
    MaxPid = 4
    MaxRecords = 2
    TIMESLICE = 1
    KbdCapacity = 1
    Codes = {0}
INVARIANT PromptReady

PROPERTY PromptReturns
