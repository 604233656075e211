SPECIFICATION Spec
CONSTANTS
    QueueCount = 2
    DmaCount = 1
    Slots = 1
    Budget = 1
    SeqMod = 3
    Activations <- LastChild
    IrqMode = TRUE
    AckMayFail = FALSE
    ScheduleMayFail = TRUE
    Stress = FALSE
PROPERTIES BatchHandedOver TeardownEnds
CHECK_DEADLOCK FALSE
