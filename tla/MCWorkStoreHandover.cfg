CONSTANTS
    Worktrees = {1}
    Processes = {p1, p2, p3}
    Workers = {k1, k2}
    Exclusive = TRUE
    Daemons = {}
    Uses = {"prompt", "end", "declare", "reap", "observe"}
    MaxTime = 4
    None = None
SYMMETRY Symmetry
SPECIFICATION Spec
PROPERTIES OwnerKeepsRun
CONSTRAINT TwoAtOnce
CHECK_DEADLOCK FALSE
