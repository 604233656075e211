CONSTANTS
    Senders = {p1, p2}
    QueueCount = 3
    BatchSlots = 2
    MaxPackets = 3
SPECIFICATION Spec
INVARIANT QueueAccounted
PROPERTIES PacketsLeave MainReturns
CHECK_DEADLOCK FALSE
