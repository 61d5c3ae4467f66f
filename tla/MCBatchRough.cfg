CONSTANTS
    City <- MCCity
    TrailerType <- MCTrailerType
    UIntRange <- MCUIntRange
    Problems <- RoughProblems
SPECIFICATION FairSpec
PROPERTIES
    Termination
