CONSTANTS
    City <- MCCity
    TrailerType <- MCTrailerType
    MX_LEN <- MCMaxLen
    mx_chain_len <- MCChainLen
    Inputs <- MCInputs
SPECIFICATION Spec
INVARIANTS
    TypeOK
    WithinArray
    ChainsDrivable
    ChainsOnce
    ObligationsExtended
    PlanValid
