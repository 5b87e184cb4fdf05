CONSTANTS
    registered = registered
    stranger = stranger
    Card <- MCCard
    NoCard = NoCard
    Zero = Zero
    Blank = Blank
    Registered <- MCRegistered
    HiHalf <- MCHiHalf
    BusByUser = FALSE
    Misses = FALSE
    HeapBlocks = 1
SPECIFICATION FairSpec
INVARIANTS
    MutexDiscipline
    SuccessOnlyIfScanned
    SentFromScans
    OncePerPlacement
PROPERTIES
    DisplayListensAgain
    ImplementsReporter
CHECK_DEADLOCK FALSE
