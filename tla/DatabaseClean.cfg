CONSTANTS
    Keys = {k1, k2}
    Values = {"full", "half"}
    NoValue = NoValue
    KeyLen = 4
    RecordCacheSize = 1
    Threads = {t1, t2}
    MaxLog = 3
    MaxOpens = 3
    MayCrash = FALSE
    MayTear = FALSE
    ByteLen <- MCByteLen
SPECIFICATION FairSpec
INVARIANTS
    CleanRestartReads
    NoStaleSessionRead
PROPERTIES
    OpenCompletes
