SPECIFICATION Spec
CONSTANTS
  View = {v1, v2}
  NoView = none
  Key = {k1, k2, k3}
  MaxConcurrent = 2
  MaxTargets = 5
SYMMETRY Symmetry
INVARIANT
  ListensBounded
