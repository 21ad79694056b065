SPECIFICATION MediaSpec
CONSTANTS
  Callers = {server}
  Server = server
  Players = {p1, p2}
  Sendspin = sendspin
  None = None
  Updates = TRUE
  MaxClaims = 1
  Users = {button}
  Reopener = reopener
  Watchdogs = {}
  Mic = mic
  Tx = tx
  Rx = rx
  PrerollFrames = 2
  QueueFrames = 3
  Congested = 2
  Recovery = 1
  MaxStarts = 1
  MaxMarks = 2
  DmaFrames = 1
  BlockFrames = 2
  MaxFrames = 2
  MaxStreams = 2
  OverlayCapacity = 2
  ClipFrames = 2
  MixFrames = 2
  MaxOverlays = 1
  MaxTurns = 2
INVARIANTS
  ClaimsBalance
  
  ClockIsAtomic
  AllReported
  OverlayInOrder
  DuckCurrent
PROPERTIES
  TakesTurns
  UploadIsChannel
SYMMETRY Symmetry
\* a part that has nothing left to do rests
CHECK_DEADLOCK FALSE
