CONSTANTS
    MaxRows = 2
    MaxFailures = 0
SPECIFICATION LiveSpec
PROPERTIES ComesToRest
CHECK_DEADLOCK FALSE
