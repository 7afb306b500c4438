SPECIFICATION Spec
CONSTANTS
    RequestedTypes = {7}
    RequestedSubtypes = {"sound_bit_depth"}
    NoSubtype = NoSubtype
    MaxParamAttempts = 5
INVARIANT BitDepthIsMaximal
