CONSTANTS
    City <- MCCity
    TrailerType <- MCTrailerType
    Files <- MCFiles
    UIntRange <- MCUIntRange
    MaxTrucks = 2
    TruckTimeBound = 20
    MaxOrders = 3
    OrderTimeBound = 30
SPECIFICATION Spec
INVARIANTS
    TypeOK
    ParamsAsInFile
    CitiesInverse
    MovesKept
    NothingLost
