SPECIFICATION Spec
CONSTANTS
  Start = {d1, d2, d3}
  PidMax = 10
  Fault = {"fork", "call", "disk"}
  Free = Free  Absent = Absent  Empty = Empty
CHECK_DEADLOCK FALSE
INVARIANTS OwnerNamed NoTerminal
