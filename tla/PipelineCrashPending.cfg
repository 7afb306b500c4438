SPECIFICATION Spec
CONSTANTS
    NoWording = NoWording
    Requests = {r1}
    Wordings = {w1}
    MaxIterations = 3
    MaxParamAttempts = 1
    PoolLimit = 1
    Faults = {"crash"}
PROPERTIES
    CrashLeavesPending
