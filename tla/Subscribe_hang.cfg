SPECIFICATION FairSpec
CONSTANTS
    r1 = r1
    r2 = r2
    x = x
    y = y
    Rpc = {r1}
    Leaf = {x, y}
    Remote = {y}
    Requests <- MemberRequest
    None = None
    BufferSize = 1
    SubscriptionLimit = 1
    MaxResets = 0
PROPERTIES
    SenderEndsRpc
CHECK_DEADLOCK FALSE
