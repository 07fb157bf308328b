CONSTANTS
    N = 3
    W = 2
    SaveEvery = 2
SPECIFICATION Spec
INVARIANT SuccessMeansAllAcked
