SPECIFICATION Spec
CONSTANTS
    Values = {a, b, c}
    Capacity = 4
    Modulus = 8
INVARIANTS
    TypeOK
PROPERTIES
    IsBoundedFifo
