CONSTANTS
    p1 = p1
    p2 = p2
    q1 = q1
    Workers = {p1, p2}
    NoWorker = NoWorker
    Requests = {}
    Commands = {"message", "switch", "withdraw", "sendNow", "cancelTurn"}
    AutoCompact = FALSE
    StallPoints = {"streaming", "adoptSelected"}
    MaxRows = 2
    MaxTurns = 3
    MaxFaults = 1
SPECIFICATION Spec
SYMMETRY WorkerSymmetry
INVARIANTS OneQueuedSwitch ReplyKeepsItsMode OpenTurnHasItsLease CancelSparesLater
PROPERTIES FlaggedAdoptsNothing
CHECK_DEADLOCK FALSE
