SPECIFICATION FairSpec
CONSTANTS
  TextMax = 9
  Beginning <- MCBeginning
  RareMax = 1
  NestLimit = 3
  BufInit = 6
  StrMax = 4
  Fault = {"malloc", "long"}
CHECK_DEADLOCK FALSE
INVARIANTS TypeOK ReadsInside AcceptsJson OddsAreText PrintFits OnlyKnownLeaks AbortsOn
PROPERTIES SavingEnds
