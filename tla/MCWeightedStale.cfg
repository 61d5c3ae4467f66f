CONSTANTS
    City <- MCCity
    TrailerType <- MCTrailerType
    UIntRange <- MCUIntRange
    Inputs <- MCInputs
    Boundaries <- MCBoundaries
    Entries <- MCEntries
    Weights <- MCWeights
    MaxAdds = 1
    MaxLegs = 1
SPECIFICATION Spec
INVARIANTS
    OneArgumentZero
