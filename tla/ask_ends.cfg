CONSTANTS
    Asks = {a1}
    Permissions = {}
    Submissions = {s1}
    Drafts = {d1}
    Writers = {w1}
    Sweeps = {x1}
    Commands = {c1}
    Run = Run
    None = None
    IdleLimit = 1
    HardLimit = 2
    MaxFaults = 0
SPECIFICATION LiveSpec
PROPERTIES TimeoutHonoursPresence EveryQuestionEnds EveryAnswerIsContinued
CHECK_DEADLOCK FALSE
