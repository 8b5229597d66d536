CONSTANTS
    Scopes = {"model_request", "tool_call"}
    Blocks = {"text", "tool"}
    Sizes = {1, 5}
    Overhead = 1
    MaxBytes = 5
    MaxBatch = 2
    MaxDeltas = 8
SPECIFICATION LiveSpec
INVARIANTS InOrder BytesAreBounded WaitersAreWoken
PROPERTIES FlushIsTheBoundary ScopeCloses
CHECK_DEADLOCK FALSE
