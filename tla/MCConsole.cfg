SPECIFICATION Spec
CONSTANTS
    Letters = {"a"}
    COMMANDS <- MCCommands
    FILES <- MCFiles
    MAX_LINE = 4
    MAX_HIST = 1
    PROMPT = 1
    WIDTH = 5
    STARTS = {0, 1}
    MAXPROGS = 2
INVARIANTS LineFits ScreenShowsLine
