SPECIFICATION Spec
CONSTANTS
  TextMax = 9
  Beginning <- MCBeginning
  RareMax = 1
  NestLimit = 3
  BufInit = 6
  StrMax = 4
  Fault = {}
CHECK_DEADLOCK FALSE
PROPERTIES DeletesSubentities
