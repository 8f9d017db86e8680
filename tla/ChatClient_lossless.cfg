SPECIFICATION Spec
CONSTANTS
  home = home
  None = None
  Groups = {home}
  PageSize = 1
  CatchUpLimit = 1
  MaxLines = 3
  MaxTurn = 3
CONSTRAINT Explored
INVARIANTS
  NothingSkipped
CHECK_DEADLOCK FALSE
