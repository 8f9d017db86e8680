SPECIFICATION Spec
CONSTANTS
  ann = ann
  bob = bob
  r1 = r1
  r2 = r2
  NoPlayer = NoPlayer
  Players = {ann}
  Requests = {r1, r2}
  Duration = 2
  Cooldown = 1
  MaxPosts = 0
  MaxGuesses = 0
  MaxTime = 4
SYMMETRY Interchangeable
INVARIANTS
  StartsSpaced
