SPECIFICATION Spec
CONSTANTS
    QueueCount = 3
    DmaCount = 1
    Slots = 2
    Budget = 1
    SeqMod = 3
    Activations <- LastChild
    IrqMode = FALSE
    AckMayFail = FALSE
    ScheduleMayFail = TRUE
    Stress = FALSE
PROPERTY TeardownEnds
CHECK_DEADLOCK FALSE
