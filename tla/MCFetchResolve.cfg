CONSTANTS
  Host = {1, 2}
  Dotless = {2}
  NoHost = NoHost
  Addr = {a}
  NSlots = 2
  NThreads = 1
  KeepMs = 2
  FailKeepMs = 1
  Wrap = 16
  StartMs <- LastMs
  MaxElapsed = 1
  Fetch = {1, 3}
  HostOf <- HostOfThree
SPECIFICATION FairSpec
INVARIANTS ListSound
PROPERTIES OnlyPollFinishes EveryFetchEnds
