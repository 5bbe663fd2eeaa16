CONSTANTS
    CHUNK = 2
    NLANES = 2
    FJ_CAP = 32
    Configs <- MCConfigs
    Passes = 4
    J1_CAP = 10
    ARR_SLOTS = 4
    RES_CAP = 3
    PASS_PACE = 3
    REC_RING = 2
SPECIFICATION Spec
INVARIANTS PassExact
PROPERTIES Rendezvous
