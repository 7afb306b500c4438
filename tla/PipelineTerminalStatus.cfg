SPECIFICATION Spec
CONSTANTS
    NoWording = NoWording
    Requests = {r1, r2}
    Wordings = {w1}
    MaxIterations = 1
    MaxParamAttempts = 1
    PoolLimit = 1
    Faults = {}
PROPERTIES
    TerminalStatusIsFinal
