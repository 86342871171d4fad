SPECIFICATION Spec
CONSTANTS
  main = main  timer = timer
  Thread = {main, timer}
  Number = {1, 2}
  Job <- MCMatchAndMarket
  MaxRows = 2
  Fault = {}
  None = None
INVARIANTS FindIsRight
CHECK_DEADLOCK FALSE
