SPECIFICATION Spec
CONSTANTS
  Id = {1, 2, 3, 4, 5}
  PageSize = 2
  MaxTimes = 2
  MaxUnsettled = 1
INVARIANTS
  WindowInv
  QuietListIsSuffix
CHECK_DEADLOCK FALSE
