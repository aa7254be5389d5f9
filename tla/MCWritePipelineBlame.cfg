SPECIFICATION Spec
CONSTANTS
  User = {u1, u2}
  MaxPendingWrites = 3
  MaxWrites = 3
  MaxBreaks = 0
  MaxRefusals = 1
  MaxRestarts = 0
  MaxResets = 0
INVARIANTS
  RejectedWasRefused
CHECK_DEADLOCK FALSE
