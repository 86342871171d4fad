SPECIFICATION FairSpec
CONSTANTS
  main = main  timer = timer
  Thread = {main}
  Number = {1, 2, 3, 4, 5}
  Job <- MCLeagueTwice
  MaxRows = 2
  Fault = {"query"}
  None = None
INVARIANTS TypeOK FindIsRight NoDuplicate SavedWhole
PROPERTIES Finishes
CHECK_DEADLOCK FALSE
