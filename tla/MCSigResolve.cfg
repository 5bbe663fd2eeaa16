CONSTANTS
    VecLanes = 2
    Hash <- MCHash
    HashBits = 3
    CapLog2 = 2
    Ids = {1, 2, 3}
    Messages <- MCMessages
    ScanBMax = 3
    MaxMessages = 5
    FreshReplace = TRUE
SPECIFICATION Spec
INVARIANTS CacheExact PushPullParity
CHECK_DEADLOCK FALSE
