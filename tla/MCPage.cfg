CONSTANTS
  MaxPorts = 4
  MaxTasks = 2
  MaxPosted = 3
  Names = {n1, n2}
  MaxChannels = 3
  MaxPosts = 3
  MaxNumbered = 4
  MaxTries = 4
  MaxCalls = 6
  MaxEvents = 2
  MaxSends = 3
  Elements = {e1, e2}
  MaxMoves = 5
  MaxRestarts = 1
  MaxEdits = 2
  MaxBytes = 5
  Tokens = {t1, t2}
  MaxSet = 4
  MaxShows = 7
SPECIFICATION Spec
INVARIANTS MessagesHeard EventsHeard RequestsEnd ElementsTold TreesHold
  TextRight
PROPERTIES AfterTheEnd PopoversTell
CHECK_DEADLOCK FALSE
