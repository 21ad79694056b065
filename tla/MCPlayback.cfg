SPECIFICATION PlaybackSpec
CONSTANTS
  Callers = {server, wake}
  Server = server
  Players = {p1}
  Sendspin = sendspin
  None = None
  Updates = FALSE
  MaxClaims = 1
  Units = 4
  Capacity = 3
  Target = 2
  ReadSize = 2
  MaxHeader = 2
  StallTicks = 2
  TickWord = 5
  RingFrames = 3
  ReadyFrames = 2
  PieceFrames = 2
  Foreground = 2
  FadeFrames = 2
  MaxBackground = 4
INVARIANTS
  NoMissedWake
  BufferInUse
  RingInUse
PROPERTIES
  SpeakerYielded
  AvailableAgain
  StopHeard
  StreamIsChannel
  RingIsChannel
  PlaybacksEnd
  StalledIsStopped
\* a part that has nothing left to do rests
CHECK_DEADLOCK FALSE
