\* Eight clients, each of which asks for other kinds of node.
SPECIFICATION Spec
CONSTANTS
  Workloads <- AllWorkloads
  Contents <- Texts
  Qualifiers = {0, 1}
INVARIANTS
  TypeOK
  Whole
  Searchable
  Answers
PROPERTIES
  Permanent
  InternedSpec
