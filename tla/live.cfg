CONSTANTS
    p1 = p1
    p2 = p2
    q1 = q1
    Workers = {p1, p2}
    NoWorker = NoWorker
    Requests = {}
    Commands = {"message"}
    AutoCompact = FALSE
    StallPoints = {"streaming"}
    MaxRows = 2
    MaxTurns = 3
    MaxFaults = 2
SPECIFICATION LiveSpec
PROPERTIES MessagesSettle
CHECK_DEADLOCK FALSE
