SPECIFICATION Spec
CONSTANTS
    QueueCount = 2
    DmaCount = 1
    Slots = 2
    Budget = 1
    SeqMod = 3
    Activations <- LastChild
    IrqMode = TRUE
    AckMayFail = TRUE
    ScheduleMayFail = TRUE
    Stress = TRUE
INVARIANTS HandedOverOnce DrainedAtReturn
CHECK_DEADLOCK FALSE
