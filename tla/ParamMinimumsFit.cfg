SPECIFICATION Spec
CONSTANTS
    RequestedTypes = {11}
    RequestedSubtypes = {"min_alphabet_size", "min_serial_length"}
    NoSubtype = NoSubtype
    MaxParamAttempts = 5
INVARIANT MinimumsFit
