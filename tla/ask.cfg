CONSTANTS
    Asks = {a1, a2}
    Permissions = {a2}
    Submissions = {s1}
    Drafts = {}
    Writers = {w1, w2}
    Sweeps = {x1}
    Commands = {c1}
    Run = Run
    None = None
    IdleLimit = 0
    HardLimit = 0
    MaxFaults = 1
SPECIFICATION Spec
INVARIANTS EveryOwedHasItsHint AskAndTurnAgree OneAskAtATime NeverWaitsUnderTheLock ToldTheTruth
CHECK_DEADLOCK FALSE
