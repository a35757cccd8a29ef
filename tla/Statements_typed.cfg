\* Statements of a loop with a jump out of it, asked for their types.
SPECIFICATION Spec
CONSTANTS
  Typed = {typed}
  Untyped = {untyped}
  MaxStmts = 2
PROPERTY QueryEnds
\* A client may stop asking.
CHECK_DEADLOCK FALSE
