\* Expressions, declarations, statements and types, as one client prints them.
SPECIFICATION Spec
CONSTANTS
  NoDecl = NoDecl
  MaxDepth = 60
  Nodes <- NodesOfPrinted
  Workloads <- Printed
INVARIANTS
  TypeOK
  Forwarded
  Unambiguous
  Balanced
  OwnLine
  Disambiguated
PROPERTIES
  EveryPrintEnds
\* The client stops printing.
CHECK_DEADLOCK FALSE
