CONSTANTS
    Elements = {a, b, c}
    BufferSize = 3
    ZeroElement = a
    NoElement = none
SPECIFICATION Spec
INVARIANT CountTellsEmpty
PROPERTY ImplementsFifo
