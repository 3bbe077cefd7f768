CONSTANTS
    Keys = {k1, k2}
    Values = {"half", "over"}
    NoValue = NoValue
    KeyLen = 4
    RecordCacheSize = 1
    Threads = {t1}
    MaxLog = 3
    MaxOpens = 3
    MayCrash = FALSE
    MayTear = FALSE
    ByteLen <- MCByteLen
SPECIFICATION Spec
PROPERTIES
    OpenNeverThrows
\* A log with an unstorable record keeps the database down for good.
CHECK_DEADLOCK FALSE
