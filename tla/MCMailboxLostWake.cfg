SPECIFICATION FairMailbox
CONSTANTS
    NBUF = 2
    Chunks = 2
    Exact = FALSE
    Modes = {"armed"}
    Groups = {1}
    Parks = {"armed"}
    MaxPasses <- NoPasses
PROPERTIES TurnArrives
CHECK_DEADLOCK FALSE
