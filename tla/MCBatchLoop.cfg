CONSTANTS
    City <- MCCity
    TrailerType <- MCTrailerType
    UIntRange <- MCUIntRange
    Problems <- LoopProblems
SPECIFICATION Spec
INVARIANTS
    CheckerAccepts
