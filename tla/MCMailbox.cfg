SPECIFICATION FairMailbox
CONSTANTS
    NBUF = 5
    Chunks = 3
    Exact = FALSE
    Modes = {"reset", "armed", "prearm"}
    Groups = {1, 2}
    Parks = {"reset"}
    MaxPasses <- MCPasses
INVARIANTS HeldStable FreedOnce PassWhole
PROPERTIES BakeUnseen ResetsComplete DropJoins
CHECK_DEADLOCK FALSE
