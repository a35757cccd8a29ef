\* Classes and enums of one or two source files.
SPECIFICATION Spec
CONSTANTS
  Programs <- MCPrograms
  Names <- MCNames
  Types <- MCTypes
  KnownTypes <- MCKnownTypes
  IntWidth = 3
INVARIANTS
  TypeOK
  SectionsAgree
  Declared
PROPERTY Reported
\* The reflector exits.
CHECK_DEADLOCK FALSE
