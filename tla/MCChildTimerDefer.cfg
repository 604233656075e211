CONSTANTS
    Children = {1, 2}
    None = None
    PitMin = 1
    PitMax = 2
    PitMayFail = FALSE
    Generations = {1}
    Timeouts = {1, 3}
    NetTimeouts = {}
    Clients = {t1}
    Service = svc
    DeferMin = 2
    MaxGen = 3
    MaxLives = 1
SPECIFICATION Safety
INVARIANT TimerNotLost
CHECK_DEADLOCK FALSE
