SPECIFICATION FairSpec
CONSTANTS
  User = {u1, u2}
  MaxPendingWrites = 3
  MaxWrites = 4
  MaxBreaks = 1
  MaxRefusals = 1
  MaxRestarts = 1
  MaxResets = 2
INVARIANTS
  PipelineInv
  TellsTruth
  NoWriteLost
  Converges
PROPERTIES
  ImplementsWriteQueue
  Delivered
CHECK_DEADLOCK FALSE
