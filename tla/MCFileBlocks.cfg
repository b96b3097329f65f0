CONSTANTS
  Proc = {p1, p2}
  File = {1, 2}
  DIRECT = 1
  PER = 2
  NR_BLOCKS = 3
  Number = {0, 3}
  MaxCalls = 4
SPECIFICATION FairSpec
INVARIANT BlocksExact
PROPERTY TruncateEnds
