CONSTANTS
  MaxId = 2
  ToSend = 2
  ToReceive = 1
  MaxSend <- MCMaxSend
  MaxRecv <- MCMaxRecv
  Pair = {p1, p2, p3}
  Delay = {0, 1}
SPECIFICATION HostSpec
INVARIANTS SocketsSound AgendaSound
PROPERTIES EveryCloseIsHeard RoundsEnd
CHECK_DEADLOCK FALSE
