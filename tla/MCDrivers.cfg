CONSTANTS
  DiskRequest <- DiskRequests
  SECTORS = 2
  NR_HD = 1
  NR_SECTS = 6
  MAX_DISK_ERRORS = 3
  MaxDiskFaults = 3
  FloppyRequest <- FloppyRequests
  FloppyDrive = {0, 1}
  FloppyTrack = {0, 1}
  MAX_FLOPPY_ERRORS = 2
  TRACK_ERRORS = 1
  SPIN = 2
  SELECT = 1
  OFF = 4
  MaxFloppyFaults = 1
  TTY_BUF_SIZE = 4
  LineRoom = 2
  LineRest = 1
  MaxOut = 5
  MaxIn = 4
  MaxLostInterrupts = 1
  TimerTicks = {1, 2, 3}
  TIME_REQUESTS = 4
SPECIFICATION Spec
INVARIANTS HardDiskRight FloppyRight LineExact TimersInBounds
PROPERTIES RequestsEnd LineGoesOn EveryTaskRuns
CHECK_DEADLOCK FALSE
