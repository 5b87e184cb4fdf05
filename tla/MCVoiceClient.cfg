CONSTANTS
    Ids = {3, 4, 5, 8, 12, 999}
    MaxTurns = 4
    FaultyTurns = 2
    FaultyIds = {3, 8, 12}
    FdLimit = 3
    PipeMax = 1
SPECIFICATION FairSpec
INVARIANTS
    OperatesOwn
PROPERTIES
    VideoLeftByTouch
    RecordedByTouch
    RecordingOperated
CHECK_DEADLOCK FALSE
