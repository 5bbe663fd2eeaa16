SPECIFICATION Spec
CONSTANTS
    Sessions = {sA, sB}
    NoSession = s0
    U64_MAX = 15
    EOS_COUNT = 99
    MaxSeq = 4
    MaxCount = 2
    ErrKinds = {"ok", "itch", "frame"}
    MaxBadPrefix = 0
    WINDOW_SLOTS = 4
    HWM_STAGED_THRESHOLD = 2
    MAX_WIRE_REQUEST = 3
    TRIGGER = 1
    MaxGen = 3
INVARIANTS TypeOK W1 Conformance NoZombie SinkAtWatermark GapEvidence
PROPERTIES WMonotone EndedIsFinal
SYMMETRY SessionSymmetry
