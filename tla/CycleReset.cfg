CONSTANTS
    N = 2
    ByteBits = 2
    Data = {x, y}
    None = None
SPECIFICATION Spec
PROPERTY ResetAfterBackup
