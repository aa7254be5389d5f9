SPECIFICATION FairSpec
CONSTANTS
  Device = {d1, d2}
  MaxFaults = 3
INVARIANTS
  AccountInv
PROPERTIES
  FinishedStaysFinished
  SignedInReachesFeed
CHECK_DEADLOCK FALSE
