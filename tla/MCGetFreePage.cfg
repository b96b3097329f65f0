CONSTANTS
  Proc = {p1, p2}
  NoProc = NoProc
  First = p1
  NPages = 3
  FilePage = {1}
  NFrames = 2
  NSwap = 2
  MaxWrites = 1
  ManyTables = FALSE
SPECIFICATION Spec
PROPERTY FailsOnlyWhenFull
CHECK_DEADLOCK FALSE
