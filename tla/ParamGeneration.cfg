SPECIFICATION Spec
CONSTANTS
    RequestedTypes = {7, 8, 11}
    RequestedSubtypes <- AnySubtype
    NoSubtype = NoSubtype
    MaxParamAttempts = 5
INVARIANTS
    TypeOK
    FirstAttemptSucceeds
    AnswerIsExtremal
