CONSTANTS
  r1 = r1
  w1 = w1
  w2 = w2
  Reader = {r1}
  Writer = {w1, w2}
  Group <- MCGroup
  SIZE = 4
  ROOM = 2
  Mode <- MCMode
  Typed = {"a", "nl", "eof", "erase", "kill", "intr", "stop", "start"}
  MaxTyped = 4
  Request = {"flush in", "flush out", "mode", "group", "send stop"}
  MaxIoctl = 1
  Text <- MCText
  NR = 2
  MaxWrites = 2
CHECK_DEADLOCK FALSE
SPECIFICATION MCSpec
INVARIANTS Edited NobodySleepsOnInput  ScreensExact
