CONSTANTS
    Lkl = lkl
    Finisher = fin
    DiskThreads = {lkl, fin}
    None = None
    N = 2
    Slots = 2
    Blocks <- MCBlocks
    Requests <- MCRequests
    MaxLog = 4
    MayCrash = TRUE
    MayFail = TRUE
SPECIFICATION Spec
INVARIANT ContentsRight
PROPERTIES ImplementsWriteBack ImplementsPool RequestsEnd
CHECK_DEADLOCK FALSE
