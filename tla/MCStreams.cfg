CONSTANTS
  MaxHWM = 2
  MaxChunks = 3
  MaxReads = 3
  HWM = 2
  MaxBytes = 5
  MaxView = 3
  MaxCalls = 4
SPECIFICATION AllSpec
INVARIANTS ReaderServed ViewsServed BranchesServed SinkServed PassedOn
PROPERTIES EndsAreKept EveryoneHears
CHECK_DEADLOCK FALSE
