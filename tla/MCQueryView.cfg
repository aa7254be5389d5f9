SPECIFICATION Spec
CONSTANTS
  Key = {1, 2, 3}
  Rank = {0, 1}
  Limit = 2
  EventSize = 2
INVARIANTS
  ViewInv
  ViewIsQuery
  OneRowEach
  SortedUnlessAdded
