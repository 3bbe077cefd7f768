CONSTANTS
    Keys = {k1, k2}
    Values = {"full", "half", "over", "huge"}
    NoValue = NoValue
    KeyLen = 4
    RecordCacheSize = 1
    Threads = {t1}
    MaxLog = 3
    MaxOpens = 3
    MayCrash = TRUE
    MayTear = TRUE
    ByteLen <- MCByteLen
SPECIFICATION Spec
INVARIANTS
    TypeOK
    WriterAligned
    IndexSound
    PagesWellFormed
    NoStaleSessionRead
    ReplayHealsFile
    LsnConsecutive
\* A log with an unstorable record keeps the database down for good.
CHECK_DEADLOCK FALSE
