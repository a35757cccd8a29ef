\* The first nodes a unit makes: two strings, an identifier and a type.
SPECIFICATION Spec
CONSTANTS
  Made = {"string", "identifier", "as_type", "linkage"}
  MaxNodes = 4
INVARIANT AllCounted
CHECK_DEADLOCK FALSE
