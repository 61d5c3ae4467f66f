CONSTANTS
    City <- MCCity
    TrailerType <- MCTrailerType
    MX_LEN <- MCMaxLen
    mx_chain_len <- MCChainLen
    Inputs <- SharedInputs
SPECIFICATION Spec
INVARIANT
    NoPlanLost
