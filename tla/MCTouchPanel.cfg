CONSTANTS
    MaxPress = 2
    MaxSignals = 1
    INT_MAX = 5
SPECIFICATION FairSpec
INVARIANTS
    NeverNegative
    AtMostTwice
PROPERTY
    ComesToRest
CHECK_DEADLOCK FALSE
