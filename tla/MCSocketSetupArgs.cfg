SPECIFICATION SetupSafety
CONSTANTS
  Families = {"ip"}
  MaxAddr = 2
  MinBlock = 24
INVARIANT ArgsOutliveHooks
CHECK_DEADLOCK FALSE
