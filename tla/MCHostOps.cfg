CONSTANTS
    Threads = {t1, t2, t3}
    IntMax = 2
    InitCount = 0
    PoolSlots = {1}
    PoolThreads = 3
    MaxDepth = 2
    Slots = {1, 2}
    Clients = {c1, c2}
    Passes = 2
    MaxTid = 4
    RingSize = 3
    MaxTyped = 5
SPECIFICATION HostSpec
INVARIANTS NoLostWakeup MutexHasOneToken PostNotLost ConsoleInOrder RingServed
PROPERTIES ImplementsSemaphore NeverCutShort JoinReturns
CHECK_DEADLOCK FALSE
