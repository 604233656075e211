CONSTANTS
    Children = {1, 2}
    None = None
    PitMin = 1
    PitMax = 2
    PitMayFail = TRUE
    Generations = {1}
    Timeouts = {1, 3}
    NetTimeouts = {1}
    Clients = {t1}
    Service = svc
    DeferMin = 2
    MaxGen = 3
    MaxLives = 2
SPECIFICATION Spec
INVARIANTS NoCallbackAfterFree HardwareCovers
PROPERTIES NeverEarly EveryTimerEnds
CHECK_DEADLOCK FALSE
