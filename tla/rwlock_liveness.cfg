SPECIFICATION FairSpec
CONSTANTS
  Proc = {p1, p2, p3}
  MaxFail = 0
  Watched = {p1}
PROPERTIES
  ReaderServed
  WriterServed
