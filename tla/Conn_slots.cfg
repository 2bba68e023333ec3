SPECIFICATION Spec
CONSTANTS
    Gateway = {g1}
    Name = {n1, n2}
    Locked = {n1}
    Config = {a, bad}
    BadConfig = {bad}
    Obj = {o1, o2, o3}
    TargetLimit = 1
    None = None
    MaxMsgs = 3
    MaxFaults = 1
INVARIANTS
    TypeOK
    SlotsAccounted
    MapOwnsRunning
PROPERTIES
    MutexIsGivenBack
CHECK_DEADLOCK FALSE
