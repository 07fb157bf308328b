CONSTANTS
    u = u
    v = v
    Volumes <- MCVolumes
    Offsets = {0, 1}
    Polls = 2
    MaxBackups = 3
SPECIFICATION Spec
INVARIANTS
    TypeOK
    NothingLeft
    SourceIsLive
PROPERTIES
    BackupEnds
CHECK_DEADLOCK FALSE
