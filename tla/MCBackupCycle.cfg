CONSTANTS
    N = 2
    ByteBits = 3
    x = x
    y = y
    Data <- MCData
    None = None
SYMMETRY Symmetry
SPECIFICATION Spec
INVARIANT TypeOK
INVARIANT BitsCoverStale
INVARIANT FailureKeepsBits
