SPECIFICATION Spec
CONSTANTS
  first = first
  second = second
  old = old
  None = None
  Uploads = {first, second}
  Old = old
  Avatars = {}
  Mishaps = {}
  MaxMishaps = 0
SYMMETRY Interchangeable
INVARIANTS
  PictureOwned
CHECK_DEADLOCK FALSE
