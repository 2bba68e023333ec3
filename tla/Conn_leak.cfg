SPECIFICATION FairSpec
CONSTANTS
    Gateway = {g1}
    Name = {n1}
    Locked = {}
    Config = {a, b}
    BadConfig = {}
    Obj = {o1}
    TargetLimit = 1
    None = None
    MaxMsgs = 3
    MaxFaults = 0
PROPERTY
    StoppedEnds
CHECK_DEADLOCK FALSE
