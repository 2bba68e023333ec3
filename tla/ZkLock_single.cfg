SPECIFICATION Spec
CONSTANTS
    l1 = l1
    l2 = l2
    c1 = c1
    c2 = c2
    Lock = {l1, l2}
    Conn = {c1, c2}
    ConnOf <- TwoGateways
    User = user
    Watcher = {w1, w2}
    NoThread = nobody
    MaxSeq = 3
    MaxFaults = 0
INVARIANT
    SingleConnection
CHECK_DEADLOCK FALSE
