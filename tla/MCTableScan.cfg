CONSTANTS
    PageCount = 4
    Capacity = 2
    Handles <- ScanHandles
    Values = {0, 2}
    Torn = Torn
    ObserverCapacity = 1
    ZeroPage = 0
SPECIFICATION ScanSpec
INVARIANTS
    ScanTypeOK
    ScanDelivers
    LoneScanNeverStarves
PROPERTY
    ScanEndsUnpinned
CHECK_DEADLOCK FALSE
