CONSTANTS
    Card = {c1, c2}
    NoCard = NoCard
    BusByUser = TRUE
    Misses = TRUE
    HeapBlocks = 3
SPECIFICATION DriverFairSpec
INVARIANTS
    AtMostOneLateEvent
    NoHandlerAfterFree
PROPERTIES
    HeldCardReported
CHECK_DEADLOCK FALSE
