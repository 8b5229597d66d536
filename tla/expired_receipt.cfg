CONSTANTS
    p1 = p1
    p2 = p2
    q1 = q1
    Workers = {p1}
    NoWorker = NoWorker
    Requests = {q1}
    Commands = {"message", "handBack"}
    AutoCompact = FALSE
    StallPoints = {"bound"}
    MaxRows = 1
    MaxTurns = 2
    MaxFaults = 0
SPECIFICATION Spec
INVARIANTS HandedBackIsNotAnswered
CHECK_DEADLOCK FALSE
