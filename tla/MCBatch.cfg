SPECIFICATION BatchSpec
CONSTANTS
    Sessions = {sA, sB}
    NoSession = s0
    U64_MAX = 15
    EOS_COUNT = 99
    MaxSeq = 6
    MaxCount = 2
    ErrKinds = {"ok", "itch"}
    MaxBadPrefix = 0
    WINDOW_SLOTS = 4
    HWM_STAGED_THRESHOLD = 2
    MAX_WIRE_REQUEST = 3
    TRIGGER = 1
    MaxGen = 9
    sA = sA
    sB = sB
    baked = sA
    Frames <- AllFrames
    MaxFrames = 5
    STEADY_RECS = 2
    Drivers <- MCDrivers
INVARIANTS SpansConsecutive
PROPERTIES Implements
