SPECIFICATION Spec
CONSTANTS
    Params <- MCParams
    Target = "max_serial_length"
    Derived = {"alphabet_size"}
    Criteria <- MCCriteria
    Adapters = {"gigachat"}
    Texts <- MCTexts
    Wordings <- MCWordings
INVARIANT WholeNumbersOnly
