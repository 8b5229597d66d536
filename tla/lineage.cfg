CONSTANTS
    Threads = {1, 2, 3}
    Root = 2
    Written = {2}
    Commands = {c1}
    Kinds = {"stop", "sendNow", "turn", "parked", "delete"}
    MaxClock = 3
    MaxSends = 1
    MaxFaults = 1
SPECIFICATION Spec
INVARIANTS FenceHolds SpawnsAreReached EndedReportsNothing NoLockCycle
CHECK_DEADLOCK FALSE
