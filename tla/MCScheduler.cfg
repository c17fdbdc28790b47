CONSTANTS
  Pair = {1, 2, 3}
  HashOf <- OwnHash
  Delay = {0, 1}
  PerMs = 1
  RoundTime = 1
  FirstSize = 1
  NoNode = NoNode
  MaxClock = 3
  MaxSeq = 4
SPECIFICATION Spec
INVARIANTS TableSound
PROPERTIES ImplementsAgenda
CHECK_DEADLOCK FALSE
