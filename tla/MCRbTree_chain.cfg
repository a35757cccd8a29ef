\* chain<T>, offered nodes whose key may be in the tree already.
SPECIFICATION FairSpec
CONSTANTS
  NodeCount = 7
  Node <- MCNode
  Key <- MCNode
  KeyOf <- PairedKey
  NULL = NULL
  Intrusive = TRUE
  MaxCount = 5
INVARIANTS
  IInv
PROPERTIES
  CallsReturn
