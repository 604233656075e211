CONSTANTS
    Ring = 4
    WindowSlots = 2
    MaxReceived = 5
SPECIFICATION RxSpec
INVARIANT PacketsIntact
PROPERTIES PacketsDelivered HupEndsPoll
CHECK_DEADLOCK FALSE
