SPECIFICATION FairSpec
CONSTANTS
    g1 = g1
    g2 = g2
    Gateway = {g1, g2}
    ChanSize = 2
    MaxErrors = 1
    MaxDisconnects = 1
    MaxStarts = 2
    MaxFaults = 1
INVARIANTS
    TypeOK
    NoDrift
    OncePerChange
    WatchCoversList
    RegisteredInSession
PROPERTY
    MapConverges
CHECK_DEADLOCK FALSE
