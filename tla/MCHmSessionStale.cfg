SPECIFICATION Spec
CONSTANTS
  main = main  timer = timer
  Thread = {main}
  Number = {1}
  Job <- MCMatchTwice
  MaxRows = 2
  Fault = {"result"}
  None = None
INVARIANTS FindIsRight
CHECK_DEADLOCK FALSE
