CONSTANTS
    ObserverCapacity = 3
    ObservedPages = {0, 1, 2}
    TotalModulus = 4
    FeedbackHorizon = 2
SPECIFICATION LearnedSpec
INVARIANTS
    TypeOK
    CountsMatchRing
    LastIndexMatchesWindow
    LabelHonest
PROPERTY
    ImplementsAccessLog
