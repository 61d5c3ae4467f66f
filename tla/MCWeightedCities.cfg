CONSTANTS
    City <- MCCity
    TrailerType <- MCTrailerType
    UIntRange <- MCUIntRange
    Inputs <- MCInputs
    Boundaries <- MCBoundaries
    Entries <- MCEntries
    Weights <- MCWeights
    MaxAdds = 2
    MaxLegs = 2
SPECIFICATION Spec
INVARIANTS
    TypeOK
    RealOrdersFirst
    EdgeOfWeight
    BonusPaid
    StandingCharged
