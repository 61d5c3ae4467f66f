CONSTANTS
    City <- MCCity
    TrailerType <- MCTrailerType
    UIntRange <- MCUIntRange
    Problems <- BitsProblems
SPECIFICATION Spec
INVARIANTS
    FreeLegsBlocked
