SPECIFICATION Spec
CONSTANTS
    Requests = {r1, r2}
    PoolLimit = 2
    MaxConcurrency = 1
    MaxIterations = 1
    PageSize = 1
    Filters = {"any", "accepted"}
INVARIANTS
    TypeOK
    PermitHolderHasConnection
    FullPoolDrains
    PageKeepsTotal
    WalkSkipsNothing
    SharesSumToOne
    LaterPartsIncludeEarlier
PROPERTIES
    EveryoneEnds
