SPECIFICATION FairSenderSpec
CONSTANTS
  MaxSelections = 2
  MaxPictures = 3
  MaxFailures = 2
INVARIANTS
  SenderInv
  BarTellsOfFirstSelection
PROPERTIES
  AllSent
CHECK_DEADLOCK FALSE
