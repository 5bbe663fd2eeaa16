SPECIFICATION FairSpec
CONSTANTS
    NLANES = 2
    CHUNK = 2
    DESC_CAP = 3
    RES_CAP = 5
    BATCH = 2
    ASSIST_SLOTS = 2
    PASS_RING = 3
    FJ_CAP = 1
    Configs <- AllConfigs
    MaxSpans = 6
    MaxPasses = 2
    MaxResets = 1
INVARIANTS PassParity RingsHold
CHECK_DEADLOCK FALSE
PROPERTIES CallsReturn DropJoins
