CONSTANTS
  Proc = {p1, p2}
  NoProc = NoProc
  First = p1
  NPages = 3
  FilePage = {1}
  NFrames = 2
  NSwap = 2
  MaxWrites = 1
  ManyTables = TRUE
SPECIFICATION Spec
CHECK_DEADLOCK FALSE
INVARIANTS FramesExact SwapSpaceExact MemoryIsKept
