SPECIFICATION ChatSpec
CONSTANTS
  None = None
  a1 = a1
  a2 = a2
  b1 = b1
  b2 = b2
  c1 = c1
  c2 = c2
  ann = ann
  bob = bob
  here = here
  there = there
  Users = {c1, c2}
  Rooms = {here}
  Sockets = {a1, a2}
  Messages = {b1, b2}
  Buffer = 1
  SendBuffer = 1
  KickBuffer = 1
  MaxVersion = 1
  Traffic <- Mixes
SYMMETRY Interchangeable
INVARIANTS
  NothingSkipped
  StaleSocketsKicked
  NothingMissed
  LimitsHold
  UnlocksRight
CONSTRAINT Explored
PROPERTIES
  NoDeliveryAcrossBlock
  PagesAreTrue
  NoPushAcrossBlock
CHECK_DEADLOCK FALSE
