SPECIFICATION FairEngine
CONSTANTS
    Sessions = {sA, sB}
    NoSession = s0
    U64_MAX = 31
    EOS_COUNT = 99
    MaxSeq = 7
    MaxCount = 2
    ErrKinds = {"ok"}
    MaxBadPrefix = 0
    WINDOW_SLOTS = 4
    HWM_STAGED_THRESHOLD = 3
    MAX_WIRE_REQUEST = 3
    TRIGGER = 1
    MaxGen = 20
    Home = sA
    LastMsg = 6
    Faults = {"ok", "drop_request", "drop_response", "truncate", "duplicate_first", "silent", "wrong_session"}
    FaultN = 1
    TruncateK = 1
    RespPacket = 2
    Transports = {"xdp", "replay"}
    PacketSize = 2
    Copies = {0, 1}
    Heard = {0, 1}
    Rolling = FALSE
    EosTrain = 2
    MaxBatch = 2
    RETRY_CAP = 4
INVARIANTS RequestSound EndedComplete
PROPERTIES PendingResolves
