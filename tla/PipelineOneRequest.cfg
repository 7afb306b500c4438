SPECIFICATION Spec
CONSTANTS
    NoWording = NoWording
    Requests = {r1}
    Wordings = {w1, w2}
    MaxIterations = 3
    MaxParamAttempts = 5
    PoolLimit = 1
    Faults = {"exception", "statement", "lost_ack", "unreachable", "cancel", "crash"}
SYMMETRY Symmetry
INVARIANTS
    TypeOK
    IInv
    AcceptedIsEarned
    RejectedIsExhausted
    ErrorIsExplained
    RegenerationSeesHistory
    CardAgrees
