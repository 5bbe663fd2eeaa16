CONSTANTS
    K = 5
    QLow = {0, 2}
    TLen = 8
    OrdFloor = 31
    SpanChunk = 2
    SpanLanes = 2
    RunLen = 2
    CrcK = 4
    CrcLow = {0, 1}
    WordLen = 2
    Lanes = 4
    Octets = 4
    FoldMinLen = 24
    AffineUnits = 6
    Bodies <- MCBodies
    Packets <- MCPackets
    SigChunk = 3
    SigLanes = 2
    SigVecMin = 3
    WideLanes = 2
    WideMin = 3
    MaxMessages = 6
    MaxDuplicates = 1
SPECIFICATION Spec
INVARIANTS BooksExact FabricReplays SpanExact
CHECK_DEADLOCK FALSE
