SPECIFICATION FairSpec
CONSTANTS
    N_SLOTS = 2
    N_GROUPS = 2
    SLOT_CHUNK = 2
    SUB_SPANS = 1
    SUPER_SUBS = 2
    RING = 2
    LAG_MAX = 2
    Batches <- MCBatches
    Configs <- MCConfigs
    MaxWindows = 4
INVARIANTS BitExact JumpCertified
PROPERTIES Ends
CHECK_DEADLOCK FALSE
