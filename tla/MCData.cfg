CONSTANTS
  Databases = {1}
  MaxKey = 1
  MaxVersion = 2
  Ops = {"add", "auto"}
  MaxCalls = 4
  MaxRestarts = 2
  Pages = {p1}
  AreaKeys = {k1}
  AreaValues = {w1, w2}
  Areas = {"local", "session"}
  MaxStores = 5
  MaxEnds = 2
  MaxRecords = 3
  MaxMade = 2
  MaxValue = 1
  Unique = TRUE
  Directions = {"prevunique"}
  MaxAsks = 3
  MaxCursors = 2
SPECIFICATION Spec
INVARIANTS RecordsFound ValuesRight Answered StorageKept
PROPERTIES AloneIsAtomic CardIsWhole CursorKeepsToItsOwn
CHECK_DEADLOCK FALSE
