SPECIFICATION LivenessSpec
CONSTANTS
  ann = ann
  bob = bob
  post = post
  home = home
  trip = trip
  m1 = m1
  m2 = m2
  None = None
  Ids = {post}
  Bodies = {ann, bob}
  Groups = {home, trip}
  Targets <- TargetsDef
  Order <- OrderDef
  Requests = {m1, m2}
  Faults = {"db", "put", "unknown", "delete", "crash"}
  MaxFaults = 2
  MaxAttempts = 2
  Replay = FALSE
INVARIANTS
  PublishedObjectsKept
  NothingLeftBehind
PROPERTIES
  DeletedAccountsLeave
  NobodyWaitsForever
  UploadsEnd
  ObligationsEnd
CHECK_DEADLOCK FALSE
