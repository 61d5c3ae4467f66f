CONSTANTS
    City <- MCCity
    TrailerType <- MCTrailerType
    UIntRange <- MCUIntRange
    Problems <- RoundedProblems
SPECIFICATION Spec
INVARIANTS
    CheckerAccepts
