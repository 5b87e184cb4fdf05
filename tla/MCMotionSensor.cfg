CONSTANTS
    TxMax = 4
    TxTick = 1
    ClockMod = 3
    Nothing = Nothing
    Nodes = {n1}
    Units <- MCUnits
    Readings <- MCReadings
    PartLens <- MCPartLens
    MaxReports = 3
SPECIFICATION FairSpec
INVARIANTS
    SensorSound
    TextReadsBack
PROPERTIES
    ImplementsLine
    LineDrains
    ReportsGoOn
