SPECIFICATION MediaSpec
CONSTANTS
  k1 = k1
  k2 = k2
  k3 = k3
  k4 = k4
  u1 = u1
  w1 = w1
  w2 = w2
  None = None
  Keys = {k1, k2, k3, k4}
  Uploads = {u1}
  Workers = {w1, w2}
  MaxGroups = 2
  Faults = {"crash", "slow", "db", "delete", "put", "lost", "cancel"}
  MaxFaults = 3
  AccountMayGo = TRUE
SYMMETRY Interchangeable
INVARIANTS
  MediaPresent
  SourcePresent
  OneResult
  NothingOrphaned_Orphans
PROPERTIES
  LiveClaimKept
  ObligationsMet
