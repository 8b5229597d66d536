CONSTANTS
    p1 = p1
    p2 = p2
    q1 = q1
    Workers = {p1, p2}
    NoWorker = NoWorker
    Requests = {q1}
    Commands = {"message", "handBack", "stop"}
    AutoCompact = FALSE
    StallPoints = {"ready", "streaming", "boundary", "closeOrContinue", "adopting", "adoptSelected", "exitSuccess", "exitFailed", "exitCancelled"}
    MaxRows = 2
    MaxTurns = 3
    MaxFaults = 1
SPECIFICATION Spec
SYMMETRY WorkerSymmetry
INVARIANTS HandedBackIsNotAnswered AnsweredOnce CancelSparesLater CancelledWasAsked
PROPERTIES KeepsPromise AnswersWhatItDelivers
CHECK_DEADLOCK FALSE
