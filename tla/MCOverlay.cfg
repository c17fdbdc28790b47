CONSTANTS
  After = 1
  FrameInterval = 0
  PresentInterval = 0
  Wrap = 2
  Modes = {"dialog", "hold"}
  MaxAway = 1
  MaxPress = 1
SPECIFICATION FairSpec
INVARIANTS TypeOK NoTear
PROPERTIES OnePressOneStop ScreenIsGivenBack
CHECK_DEADLOCK FALSE
