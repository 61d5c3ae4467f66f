CONSTANTS
    City <- MCCity
    TrailerType <- MCTrailerType
    UIntRange <- MCUIntRange
    Problems <- MCProblems
SPECIFICATION Spec
INVARIANTS
    TypeOK
    CheckerAccepts
    NoOrderTwice
    NoOrderStranded
    BatchWithinWindow
    ObligationKept
    PrunedPairsUnused
PROPERTIES
    TrucksNeverGoBack
    RepositionUseful
    ImplementsDispatch
