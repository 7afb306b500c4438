SPECIFICATION FairSpec
CONSTANTS
    NoWording = NoWording
    Requests = {r1, r2}
    Wordings = {w1}
    MaxIterations = 2
    MaxParamAttempts = 2
    PoolLimit = 1
    Faults = {"exception", "statement", "lost_ack", "unreachable", "cancel", "crash"}
INVARIANTS
    ReplyMatchesRow
    CountedMatchesRow
    ConnectionsAccounted
PROPERTIES
    CommittedWorkIsKept
    ImplementsPublication
    EveryRequestIsAnswered
