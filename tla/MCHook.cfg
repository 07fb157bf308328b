CONSTANTS
    d1 = d1
    d2 = d2
    d3 = d3
    x1 = x1
    x2 = x2
    y = y
    z = z
    late = late
    Drivers = {d1, d2, d3}
    Devices = {x1, x2, y, z, late}
    DriverOf <- MCDriverOf
    Scan <- MCScan
    MaxHooked = 2
    MaxMap = 2
    StackMax = 2
    Writers = {t1}
    Rivaled = {d1}
SPECIFICATION Spec
INVARIANTS
    TypeOK
    MarkedWhenLoaded
    RightRoutine
    UnloadSafe
PROPERTIES
    NoDeadLoop
CHECK_DEADLOCK FALSE
