CONSTANT Pids = {p1, p2, p3}
SPECIFICATION Spec
CHECK_DEADLOCK FALSE
INVARIANTS
    NamesTheHolder
    LeavesCleanly
