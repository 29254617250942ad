CONSTANTS
    Worktrees = {1, 2}
    Processes = {p1}
    Workers = {k1, k2}
    Exclusive = FALSE
    Daemons = {p1}
    Uses = {"move", "end", "declare", "start", "stop"}
    MaxTime = 3
    None = None
SPECIFICATION FairSpec
INVARIANTS TypeOK OneHome EndedStaysEnded
PROPERTIES NoRunLost WorkersEnd
CHECK_DEADLOCK FALSE
