SPECIFICATION FairSpec
CONSTANTS
  Caller = {a, b}
  MaxCalls = 3
  Size <- MCSize
  Invalid = {1}
  ListMax = 2
  PipeMax = 2
  Fault = {"malloc", "lost"}
  Free = Free  None = None
INVARIANTS TypeOK SizeIsTotal WithinLimit OnlyOnce NothingForgotten
PROPERTIES ImplementsOutbox CallsReturn EverySettled FiniReturns
CHECK_DEADLOCK FALSE
