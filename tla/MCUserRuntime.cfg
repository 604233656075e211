CONSTANTS
    Total = 12
    Header = 2
    MinSplit = 1
    HeapThreads = {a, b}
    MallocSizes = {1, 3, 5}
    Workers = 3
    PipeSize = 1
    Chunk = 1
    Commands <- OneCommands
    Pipelines <- SomePipelines
    MaxOps = 2
    StartMayFail = TRUE
    Virtual = {0, 1}
    Fds = {3, 4, 5}
    Opens = {"o", "p"}
    FileLen = 3
    BufSize = 2
    Counts = {1, 2}
    Seeks <- SomeSeeks
SPECIFICATION UserSpec
INVARIANTS AllocationsSound EmptyHeapWhole CopyInBounds
           SlotsAccounted GetoptSerialized InputExact MapNamesOpen
PROPERTIES ImplementsChildTable ReturnsUnlessRolledBack
CHECK_DEADLOCK FALSE
