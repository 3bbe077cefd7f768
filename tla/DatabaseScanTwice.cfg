CONSTANTS
    Keys = {k1, k2}
    Values = {"full", "half"}
    NoValue = NoValue
    KeyLen = 4
    RecordCacheSize = 1
    Threads = {t1}
    MaxLog = 3
    MaxOpens = 3
    MayCrash = FALSE
    MayTear = FALSE
    ByteLen <- MCByteLen
SPECIFICATION Spec
INVARIANTS
    ScanReturnsRecordsPut
