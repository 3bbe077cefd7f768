CONSTANTS
    PageCount = 3
    Capacity = 2
    Handles = {h1}
    Values = {0, 1, 2}
    Torn = Torn
    ObserverCapacity = 1
    ZeroPage = 0
SPECIFICATION GeneratorSpec
INVARIANT GeneratedReadable
CHECK_DEADLOCK FALSE
