SPECIFICATION Spec
CONSTANTS
    Params <- MCParams
    Target = "max_serial_length"
    Derived = {"alphabet_size"}
    Criteria <- MCCriteria
    Adapters = {"yandexgpt", "gigachat", "mock"}
    Texts <- MCTexts
    Wordings <- MCWordings
INVARIANTS
    TypeOK
    AcceptedIsJustified
    GoodWordingPasses
    RejectedIsExplained
    FailureIsLogged
