SPECIFICATION ConsumerSpec
CHECK_DEADLOCK FALSE
CONSTANTS
  i1 = i1  i2 = i2  p1 = p1  p2 = p2
  Event = Event  NoMsg = NoMsg
  MsgIds = {i1, i2}
  Procs = {p1}
  MaxWindows = 3
  Concurrency = 1
  MaxFetch = 2
  MaxIdle = 1
  Vt = 3
  RetryVt = 1
  AttemptTicks = 2
  MaxFaults = 1
PROPERTY RetryIsRequeued
