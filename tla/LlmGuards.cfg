SPECIFICATION FairSpec
CONSTANTS
    Calls = {c1, c2, c3, c4}
    MaxConcurrency = 2
    RetryAttempts = 3
INVARIANTS
    TypeOK
    PermitsConserved
    NoStrandedWaiter
    RetryContract
PROPERTIES
    NoOvertaking
    ImplementsPermits
    EveryCallEnds
