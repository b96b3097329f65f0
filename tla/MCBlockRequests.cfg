CONSTANTS
  Task = {t1, t2}
  NoTask = NoTask
  b1 = b1
  b2 = b2
  Buf = {b1, b2}
  NoBuf = NoBuf
  Free = Free
  BlockOf <- TwoBlocks
  PageAt = 2
  NR_REQUEST = 3
  PageCalls = {"ll_rw_page", "ll_rw_swap_file"}
  MaxCalls = 4
SPECIFICATION FairSpec
CHECK_DEADLOCK FALSE
INVARIANTS RequestsExact ChangesSurvive
PROPERTIES CallsReturn
