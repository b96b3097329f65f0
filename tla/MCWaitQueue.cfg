CONSTANTS
  Sleeper = {t1, t2, t3}
  NoSleeper = NoSleeper
  MaxSleeps = 1
SPECIFICATION FairQueueSpec
INVARIANTS ChainIntact NoLostWakeup
PROPERTIES EveryCallReturns
