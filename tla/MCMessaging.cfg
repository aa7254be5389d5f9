SPECIFICATION Spec
CONSTANTS
  User = {u1, u2}
  Stamp = {1, 2}
  NoMsg = NoMsg
  MaxSent = 2
  MaxTurns = 2
  MaxUnderWay = 2
  MaxRestarts = 0
  MaxBreaks = 1
  MaxRefusals = 0
SYMMETRY Symmetry
INVARIANTS
  BadgeNeverOvercounts
  PreviewIsNewest
CHECK_DEADLOCK FALSE
