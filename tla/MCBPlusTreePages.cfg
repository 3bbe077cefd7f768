CONSTANTS
    Keys = {1, 2, 3, 4, 5}
    Values = {0, 1, 2, 3}
    PageBytes = 56
SPECIFICATION PagesSpec
INVARIANTS
    PageTypeOK
    PageHolds
    LeafSorted
    LookupRoutes
PROPERTY
    LeafIsBoundedMap
