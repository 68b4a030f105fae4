SPECIFICATION Spec
CONSTANTS
    Modulus = 64
    Initial = 4
    Lengths = {1, 3, 5, 62}
PROPERTY WriteReturns
CHECK_DEADLOCK FALSE
