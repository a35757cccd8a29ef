\* container<T>: eight nodes are the least for which a
\* recolouring can move the red pair up to where a double rotation mends it.
SPECIFICATION Spec
CONSTANTS
  NodeCount = 8
  Node <- MCNode
  Key <- MCNode
  KeyOf <- OwnKey
  NULL = NULL
  Intrusive = FALSE
  MaxCount = 9
INVARIANTS
  TypeOK
  ColorIsSet
  Linked
  NoNullDereference
  OneRedPair
  SearchOrder
  BlackBalanced
PROPERTIES
  ImplementsKeySet
