CONSTANTS
    p1 = p1
    p2 = p2
    q1 = q1
    Workers = {p1}
    NoWorker = NoWorker
    Requests = {q1}
    Commands = {"message", "compact", "switch", "stop"}
    AutoCompact = TRUE
    StallPoints = {"compacting"}
    MaxRows = 3
    MaxTurns = 3
    MaxFaults = 1
SPECIFICATION Spec
INVARIANTS ReceiptIsPending BehindSwitchWaits
PROPERTIES KeepsPromise AnswersWhatItDelivers
CHECK_DEADLOCK FALSE
