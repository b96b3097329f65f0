CONSTANTS
  Task = {t1, t2, t3}
  NoTask = NoTask
  Buf = {b1, b2}
  NoBuf = NoBuf
  Block = {k1, k2, k3}
  NoBlock = NoBlock
  NR_REQUEST = 1
  MaxOps = 4
  MaxWrites = 2
  AheadBlock = {NoBlock, k3}
SPECIFICATION Spec
SYMMETRY Symm
INVARIANTS OneBufferPerBlock BuffersExact NothingLost
