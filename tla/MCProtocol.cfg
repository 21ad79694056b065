SPECIFICATION ProtocolSpec
CONSTANTS
  MaxTimers = 2
  i1 = i1
  i2 = i2
  n1 = n1
  d1 = d1
  Ids = {i1, i2}
  Names = {n1}
  Durations = {d1}
  None = None
  Requests <- MCRequests
  Payloads <- MCPayloads
  Server = server
  Monitor = monitor
  Devices = {button}
  AlarmTasks = {a1}
  RingLimit = TRUE
  Users = {reopener}
  Reopener = reopener
  Watchdogs = {w1}
  Mic = mic
  Tx = tx
  Rx = rx
  PrerollFrames = 1
  QueueFrames = 1
  Congested = 1
  Recovery = 0
  MaxStarts = 1
  MaxMarks = 0
INVARIANT UniqueIds
PROPERTIES AlarmFollows SessionsSettle DuckReleased
CHECK_DEADLOCK FALSE
