SPECIFICATION FairSpec
CONSTANTS
  Word = 400
  InitSize = 4
  MemMax = 48
  ArgMax = 7
  LenMax = 24
INVARIANTS TypeOK NoOverrun SentIsWritten
PROPERTIES FormatEnds
