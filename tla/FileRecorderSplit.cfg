SPECIFICATION FrSpec
CONSTANTS
  SplitType = "NUMBER"
  SplitLimit = 2
  MaxItems = 3
  MaxFiles = 3
  MaxCrashes = 1
  TORN = TORN
  NULL = NULL
CHECK_DEADLOCK FALSE
INVARIANT SplitsAtLimit
