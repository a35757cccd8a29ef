\* Parameters of two mappings, enumerators and bases.
SPECIFICATION Spec
CONSTANTS
  Names = {n1, n2}
  Types = {t1}
  Levels = {1}
  MaxMappings = 2
  MaxMembers = 4
  MaxThrows = 2
INVARIANTS
  TypeOK
  GetsMember
  FindsFirst
