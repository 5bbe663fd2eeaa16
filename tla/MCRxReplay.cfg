CONSTANTS
    MAX_BATCHES = 4
    MAX_CALLS = 8
    MAX_WORDS = 8
    MAX_RECS = 1
    Events <- Tape
    Configs <- MCConfigs
    Passes = 4
    NBUF = 3
    BATCH = 2
    GROUP = 2
    PREPATCH_BUDGET = 1
SPECIFICATION Spec
INVARIANTS HeldFresh ReplayExact ScriptExact
PROPERTIES Completes
