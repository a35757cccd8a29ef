\* What a comment of utility.C says, against what allocate does.
SPECIFICATION Spec
CONSTANTS
  IntSize = 1
  BufSize = 4
  Lengths = {0, 1, 2, 4, 5, 11}
  MaxStrings = 5
INVARIANT StringsInBounds
CHECK_DEADLOCK FALSE
