SPECIFICATION FairSpec
CONSTANTS
    Key = {k1, k2}
    Caller = {p1, p2}
    MaxSize = 1
    Ttl = {0, 1}
    Tick = 1
    MaxTime = 2
    None = None
INVARIANTS TypeOK SizeBound NeverExtended
PROPERTY ExpiredLeaves
