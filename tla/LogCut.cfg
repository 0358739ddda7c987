SPECIFICATION Spec
CONSTANTS
    Width = 2
    Backfill = 3
    MaxSize = 8
    MaxRotations = 0
    MaxCuts = 0
    MaxFailures = 0
INVARIANT
    ParsesWholeLines
CHECK_DEADLOCK FALSE
