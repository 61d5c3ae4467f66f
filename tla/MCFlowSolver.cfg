CONSTANTS
    City <- MCCity
    TrailerType <- MCTrailerType
    UIntRange <- MCUIntRange
    Inputs <- AllInputs
SPECIFICATION Spec
INVARIANTS
    TypeOK
    FilterExact
    EveryPlanAdmitted
    RevenueAgrees
PROPERTIES
    ImplementsAssignment
