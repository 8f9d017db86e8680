SPECIFICATION Spec
CONSTANTS
  post = post
  first = first
  second = second
  home = home
  up1 = up1
  up2 = up2
  None = None
  Ids = {post}
  Bodies = {first, second}
  Groups = {home}
  Targets <- TargetsDef
  Order <- OrderDef
  Requests = {up1, up2}
  Faults = {"db", "put", "unknown", "delete", "crash"}
  MaxFaults = 2
  MaxAttempts = 3
  Replay = TRUE
SYMMETRY Interchangeable
INVARIANTS
  PublishedObjectsKept
CHECK_DEADLOCK FALSE
