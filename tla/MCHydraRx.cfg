SPECIFICATION FairSpec
CONSTANTS
    NLANES = 2
    CHUNK = 2
    FJ_CAP = 8
    ASSIST_SLOTS = 2
    PASS_RING = 8
    RESLOG_SEGS = 16
    RX_NARR = 2
    REC_RING = 3
    RX_CHUNK_CAP = 8
    RX_CAP = 5
    WBATCH = 3
    RX_PACE = 4
    Configs <- MCConfigs
INVARIANTS PassParity NoPanic
PROPERTIES Drains
CHECK_DEADLOCK FALSE
