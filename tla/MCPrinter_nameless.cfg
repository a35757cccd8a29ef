\* A type that has no spelling of its own but its name.
SPECIFICATION Spec
CONSTANTS
  NoDecl = NoDecl
  MaxDepth = 12
  Nodes <- NodesOfNameless
  Workloads <- Nameless
INVARIANTS
  NoReentry
\* Printing stops when the stack is exhausted.
CHECK_DEADLOCK FALSE
