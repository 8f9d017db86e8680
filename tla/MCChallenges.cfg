SPECIFICATION ChallengesSpec
CONSTANTS
  None = None
  a1 = a1
  a2 = a2
  b1 = b1
  b2 = b2
  post = post
  ann = ann
  bob = bob
  cat = cat
  Users = {bob}
  Owner = ann
  Members = {ann, bob}
  Blockable = {}
  Requests = {a1, a2}
  Points = {b1, b2}
  NoPoint = None
  ViewWindow = 1
  GuessWindow = 2
  ExpiresAt = 3
  RetentionAt = 3
  TimeoutSkew = 1
  WriteTimeout = 2
  RequestLatency = 1
  AuditPeriod = 3
  MaxAttempts = 2
  MaxTime = 5
SYMMETRY Interchangeable
INVARIANTS
  GuessInsideFirstWindow
  NoGuessAfterResults
  RepliesTellStoredGuess
  JudgedByTheWindow
  PlaceKept
  WalksComplete
  PicturesKept
PROPERTIES
  KeepsPromise
  BlockedPlayerGetsNoWindow_Block
CHECK_DEADLOCK FALSE
