CONSTANTS
  Proc = {p1, p2}
  Slot = {s1, s2, s3}
  NoSlot = NoSlot
  File = {f1, f2}
  Root2 = Root2
  NoId = NoId
  MountPoint = {f1, f2}
  MaxVersion = 1
  Races = FALSE
SPECIFICATION Spec
SYMMETRY Symm
CHECK_DEADLOCK FALSE
INVARIANTS OneCopy CountIsReferences NothingLost MountsPaired
