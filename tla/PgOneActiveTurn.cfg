CONSTANTS
    t1 = t1
    t2 = t2
    p1 = p1
    p2 = p2
    Turns = {t1, t2}
    Streaming <- FirstTurn
    Processes <- TwoProcesses
    Host <- OnTwoProcesses
    StoreFaults = FALSE
SPECIFICATION Spec
INVARIANT OneActiveTurn
CHECK_DEADLOCK FALSE
