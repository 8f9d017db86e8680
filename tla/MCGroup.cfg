SPECIFICATION GroupSpec
CONSTANTS
  a1 = a1
  a2 = a2
  b1 = b1
  b2 = b2
  cat = cat
  NoPlayer = NoPlayer
  Players = {a1, a2}
  Requests = {b1, b2}
  Duration = 2
  Cooldown = 1
  MaxPosts = 1
  MaxGuesses = 1
  MaxTime = 4
SYMMETRY Interchangeable
INVARIANTS
  DoublingDeserved
  CapsHold
  RatingsFair
CONSTRAINT Explored
PROPERTIES
  RechargeRespected
  StatusPromiseKept
  JoinsByLiveInvites
  TimeoutsUncompared
CHECK_DEADLOCK FALSE
