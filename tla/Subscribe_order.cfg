SPECIFICATION Spec
CONSTANTS
    r1 = r1
    r2 = r2
    x = x
    y = y
    Rpc = {r1}
    Leaf = {x}
    Remote = {}
    Requests <- StreamRequest
    None = None
    BufferSize = 1
    SubscriptionLimit = 1
    MaxResets = 1
INVARIANTS
    ClientConverges
CHECK_DEADLOCK FALSE
