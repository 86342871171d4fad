SPECIFICATION FairSpec
CONSTANTS
  mf = mf  lf = lf  m1 = m1  m2 = m2
  ConstFile <- MCTwo
  LoadOrder <- MCOrder
  IncrFile = {}
  Table <- MCTable
  TimerThread = {t1, t2}
  QueueMax = 1
  BatchMax = 2
  MaxEdit = 2
  Faults = {}
  NoFile = NoFile  Free = Free  Absent = Absent  Empty = Empty  Torn = Torn
PROPERTIES EventuallyCached DirtyEventuallyFlushed
