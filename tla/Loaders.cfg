SPECIFICATION FairSpec
CONSTANTS
    json = json
    simple = simple
    a = a
    b = b
    Loader = {json, simple}
    Name = {a, b}
    NamesOf <- OwnAndShared
    Checks = {simple}
    Dial = {d1, d2}
    Request = {r1}
    None = None
    Broken = Broken
    Never = Never
    ChanSize = 1
    MaxEdits = 2
INVARIANTS
    TypeOK
    RemovalsMatchMap
PROPERTIES
    NamesConverge
    DialConverges
CHECK_DEADLOCK FALSE
