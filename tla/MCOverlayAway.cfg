CONSTANTS
  After = 2
  FrameInterval = 1
  PresentInterval = 1
  Wrap = 4
  Modes = {}
  MaxAway = 2
  MaxPress = 0
SPECIFICATION Spec
PROPERTIES AwayIsAway
CHECK_DEADLOCK FALSE
