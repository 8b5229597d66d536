CONSTANTS
    MaxRows = 4
    MaxFailures = 1
SPECIFICATION LiveSpec
INVARIANTS SweepMeetsWork YieldMeetsSwitch WithdrawnStaysOut DefaultFollowsWriter
PROPERTIES NothingCrossesSwitch MessageIsTakenOn RestsOrIsHeld
CHECK_DEADLOCK FALSE
