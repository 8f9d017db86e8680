SPECIFICATION Spec
CONSTANTS
  k1 = k1
  k2 = k2
  k3 = k3
  u1 = u1
  w1 = w1
  None = None
  Keys = {k1, k2, k3}
  Uploads = {u1}
  Workers = {w1}
  MaxGroups = 1
  Faults = {}
  MaxFaults = 0
  AccountMayGo = TRUE
SYMMETRY Interchangeable
INVARIANTS
  NothingOrphaned
