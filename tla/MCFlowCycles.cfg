CONSTANTS
    City <- MCCity
    TrailerType <- MCTrailerType
    UIntRange <- MCUIntRange
    Inputs <- CyclicInputs
SPECIFICATION Spec
INVARIANTS
    VariablesAcyclic
