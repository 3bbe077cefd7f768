CONSTANTS
    PageCount = 3
    Capacity = 2
    Handles = {h1, h2}
    Values = {v1, v2}
    Torn = Torn
    ObserverCapacity = 2
SPECIFICATION Spec
INVARIANTS
    TypeOK
    HandleSafe
    PinCountExact
    LruListExact
    FramePartition
    NoTornPage
PROPERTY
    ImplementsPageStore
