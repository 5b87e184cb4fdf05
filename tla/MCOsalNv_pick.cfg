CONSTANTS
    id1 = id1
    id2 = id2
    Items = {id1, id2}
    HotIds = {id1}
    Values = {1, 2}
    Missing = Missing
    Erased = Erased
    Zeroed = Zeroed
    Torn = Torn
    NumPages = 3
    PageSize = 3
    Size <- MCSize
    TornErases = {"header", "xfer"}
SPECIFICATION Spec
INVARIANT
    OnlyDuplicatesPicked
