CONSTANTS
  Names = {1}
  MaxKey = 1
  MaxVersion = 2
  Ops = {"put", "add"}
  MaxCalls = 4
  MaxRestarts = 1
SPECIFICATION Spec
PROPERTIES FailedUpgradeLeavesNothing
CHECK_DEADLOCK FALSE
