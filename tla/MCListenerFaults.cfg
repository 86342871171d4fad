SPECIFICATION Spec
CONSTANTS
  mf = mf  lf = lf  m1 = m1  m2 = m2
  ConstFile <- MCOne
  LoadOrder <- MCOne
  IncrFile = {m1}
  Table <- MCTable
  TimerThread = {t1, t2}
  QueueMax = 2
  BatchMax = 2
  MaxEdit = 3
  Faults = {"redis", "crash"}
  NoFile = NoFile  Free = Free  Absent = Absent  Empty = Empty  Torn = Torn
INVARIANTS TypeOK NoMissedUpdate NoMissedIncrement CleanMeansSaved
