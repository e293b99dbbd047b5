SPECIFICATION RuntimeSpec
CONSTANTS
    None = None
    ToolThreads = {"t1", "t2"}
    MaxEdits = 2
CHECK_DEADLOCK FALSE
INVARIANTS
    ToolsSeeEdits
