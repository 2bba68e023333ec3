SPECIFICATION Spec
CONSTANTS
    octets = octets
    up = up
    noise = noise
    name = name
    eth = eth
    mgmt = mgmt
    Leaf = {octets, up, noise}
    YangType <- Types
    KindOf <- Kinds
    PathOf <- Paths
    Rejections <- Mgmt
    MaxValue = 2
    BufferSize = 1
    MaxChanges = 2
    MaxSubs = 2
    MaxPollers = 2
INVARIANT
    GaugeShowsValue
CHECK_DEADLOCK FALSE
