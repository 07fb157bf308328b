CONSTANTS
    p1 = p1
    p2 = p2
    p3 = p3
    NoProc = NoProc
    Procs <- MCProcs
    Writes <- MCWrites
    DiskSize = 7
    BlockSize = 2
    WordBits = 2
    Wrap = 64
SYMMETRY Symmetry
SPECIFICATION Spec
INVARIANT TypeOK
INVARIANT NoLostSet
PROPERTY Atomic
