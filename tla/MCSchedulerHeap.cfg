CONSTANTS
  p1 = p1
  p2 = p2
  p3 = p3
  p4 = p4
  p5 = p5
  p6 = p6
  Pair = {p1, p2, p3, p4, p5, p6}
  HashOf <- OneHash
  Delay = {0, 1}
  PerMs = 1
  RoundTime = 1
  FirstSize = 8
  NoNode = NoNode
  MaxClock = 0
  MaxSeq = 6
SPECIFICATION Spec
INVARIANTS HeapSound
SYMMETRY AnyOrder
CHECK_DEADLOCK FALSE
