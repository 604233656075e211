SPECIFICATION Spec
CONSTANTS
  HeapPages = 3
  MaxAllocations = 2
  Callers = {0, 1, 2}
  Sizes = {1, 2}
  Nobody = nobody
  Slots = 2
  Syncs = 1
  DiskPages = 2
  NetPages = 1
  SpanPages = 2
  LightMax = 2
  Rounds = 1
INVARIANTS HeapAgrees NoLeak NoFailureWithoutCause
PROPERTIES ReleasedSafely Ends
