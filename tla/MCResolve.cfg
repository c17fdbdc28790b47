CONSTANTS
  Host = {h1, h2, h3}
  Dotless = {h3}
  NoHost = NoHost
  Addr = {a}
  NSlots = 2
  NThreads = 1
  KeepMs = 2
  FailKeepMs = 1
  Wrap = 16
  StartMs = 15
  MaxElapsed = 2
SPECIFICATION Spec
INVARIANTS TypeOK AnswerIsTheLookups SlotsSound
PROPERTIES SlotsKept
