\* Headers of two bytes, pools of four: lengths 0 and 1 take one header, 4 three,
\* 5 is the first length that gets a pool of its own, 11 outgrows a plain pool.
SPECIFICATION FairSpec
CONSTANTS
  IntSize = 1
  BufSize = 4
  Lengths = {0, 1, 2, 4, 5, 11}
  MaxStrings = 5
INVARIANTS
  TypeOK
  StringsDisjoint
  OwnPoolFits
PROPERTIES
  AllFreed
\* An arena that was destroyed does nothing more.
CHECK_DEADLOCK FALSE
