CONSTANTS
  MaxId = 2
  ToSend = 2
  ToReceive = 1
  MaxSend <- MCMaxSend
  MaxRecv <- MCMaxRecv
  Pair = {}
  Delay = {}
SPECIFICATION HostSpec
INVARIANTS HandshakeStarts
CHECK_DEADLOCK FALSE
