CONSTANTS
  Proc = {p1, p2}
  NoProc = NoProc
  PAGE_SIZE = 4
  NR_OPEN = 2
  Counts = {2}
  Labels = 8
  SelectSets = {{"in", "ex"}, {"out"}}
SPECIFICATION FairSpec
CHECK_DEADLOCK TRUE
INVARIANTS CountsExact SleepersAreTold
PROPERTIES IsByteStream EndIsSeen
