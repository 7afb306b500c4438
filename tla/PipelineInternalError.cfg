SPECIFICATION Spec
CONSTANTS
    NoWording = NoWording
    Requests = {r1, r2, r3}
    Wordings = {w1}
    MaxIterations = 1
    MaxParamAttempts = 1
    PoolLimit = 1
    Faults = {}
INVARIANTS
    InternalErrorMeansNotDone
