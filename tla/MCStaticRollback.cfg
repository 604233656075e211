SPECIFICATION AppletSpec
CONSTANTS
    Workers = 3
    PipeSize = 1
    Chunk = 1
    Commands <- Background
    Pipelines <- Exhausting
    MaxOps = 2
    StartMayFail = FALSE
PROPERTY CommandsReturn
CHECK_DEADLOCK FALSE
