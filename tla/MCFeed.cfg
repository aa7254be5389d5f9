SPECIFICATION FairSpec
CONSTANTS
  Car = {1, 2}
  Mine = 2
  Price <- MCPrice
  Year <- MCYear
  Fetch = {f1, f2}
  PageSize = 1
  MinRows = 1
  MaxEvents = 2
INVARIANTS
  ListInv
  SettledListIsComplete
  OfflineKeepsRows
  CalmTapOpensItsCar
  StopsOnlyFor
PROPERTIES
  PulledListFills
CHECK_DEADLOCK FALSE
