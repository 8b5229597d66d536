CONSTANTS
    Threads = {1, 2, 3}
    Root = 2
    Written = {2}
    Commands = {c1}
    Kinds = {"stop", "sendNow", "turn", "parked", "delete"}
    MaxClock = 3
    MaxSends = 1
    MaxFaults = 0
SPECIFICATION Spec
INVARIANT RefusedWasCancelled
CHECK_DEADLOCK FALSE
