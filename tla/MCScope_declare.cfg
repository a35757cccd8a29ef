\* Declarations of two names with two types, with calls abandoned.
SPECIFICATION Spec
CONSTANTS
  t1 = t1
  t2 = t2
  NoType = NoType
  Types = {NoType, t1, t2}
  MaxNames = 2
  MaxDecls = 3
  MaxFailures = 2
SYMMETRY TypeSymmetry
INVARIANTS
  TypeOK
  FreshIds
  InOrder
  Described
  WholeOverloads
PROPERTIES
  MembersStay
\* A client may stop declaring.
CHECK_DEADLOCK FALSE
