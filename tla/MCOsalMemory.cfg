CONSTANTS
    Hdr = 1
    MinBlk = 2
    SmallBlk = 3
    Bucket = 6
    End = 15
    Requests = {1, 2, 4}
SPECIFICATION HeapSpec
INVARIANTS
    HeapSound
PROPERTIES
    ImplementsAllocator
CHECK_DEADLOCK FALSE
