SPECIFICATION FairSpec
CONSTANTS
    r1 = r1
    r2 = r2
    x = x
    y = y
    Rpc = {r1, r2}
    Leaf = {x}
    Remote = {x}
    Requests <- ClientRequests
    None = None
    BufferSize = 1
    SubscriptionLimit = 1
    MaxResets = 1
INVARIANTS
    TypeOK
    NoLostUpdate
    SyncAfterLeaves
    ErrCHoldsAll
    SlotsMatchWalks
    AnswerIsLeft
PROPERTIES
    AbandonedEnds
    StalledSendEnds
    SlotIsFreed
CHECK_DEADLOCK FALSE
