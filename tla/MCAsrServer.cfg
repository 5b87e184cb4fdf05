CONSTANTS
    Ids = {3, 8}
    MaxTurns = 2
    Chunks = 2
    BUFFER_SIZE = 2
    Sizes = {1, 2}
    MaxText = 5
    MaxSessions = 2
SPECIFICATION FairSpec
INVARIANTS
    SessionsEnded
    TextFits
PROPERTIES
    RecordingFinished
    ImplementsRecognizer
CHECK_DEADLOCK FALSE
