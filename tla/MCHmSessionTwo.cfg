SPECIFICATION FairSpec
CONSTANTS
  main = main  timer = timer
  Thread = {main, timer}
  Number = {1, 2, 3}
  Job <- MCShared
  MaxRows = 2
  Fault = {"query", "result"}
  None = None
INVARIANTS ConnectionReady
PROPERTIES Finishes
CHECK_DEADLOCK FALSE
