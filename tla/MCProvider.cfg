SPECIFICATION ProviderSpec
CONSTANTS
  Half = 8
  NodeId = {n1, n2}
  Number = {k1, k2}
  Assignable = {7, 8}
  Removal = {r1, r2}
  Faults = {"attach", "crash", "persist"}
  None = None
SYMMETRY Symmetry
INVARIANTS
  ReadBack
  StoredObserved
  NoGhosts
PROPERTIES
  OnlyRealDrops
