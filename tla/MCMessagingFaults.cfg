SPECIFICATION FairSpec
CONSTANTS
  User = {u1, u2}
  Stamp = {1}
  NoMsg = NoMsg
  MaxSent = 1
  MaxTurns = 2
  MaxUnderWay = 2
  MaxRestarts = 1
  MaxBreaks = 1
  MaxRefusals = 1
INVARIANTS
  TypeOK
  PreviewHasMessage
  NoMessageLost
  BadgesWaitForReader
PROPERTIES
  BothListed
  UsesWriteQueue
CHECK_DEADLOCK FALSE
