CONSTANTS
    Networks = {n1}
    Channels = {11, 12}
    DefaultChannels = {11}
    NoNetwork = none
    HeapBlocks = 2
    NUM_DISC_ATTEMPTS = 1
    MAX_RESUME_RETRY = 2
    ScansOfDefault = 1
    CounterSize = 3
SPECIFICATION EntryFairSpec
INVARIANTS
    AppFollows
    AttemptGoesOn
PROPERTIES
    ComesBack
    ToldUnlessFull
