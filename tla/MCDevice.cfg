SPECIFICATION DeviceSpec
CONSTANTS
  MaxEvents = 2
  MaxClients = 3
  MaxDetections = 2
  Urls = {u1, u2}
  NoUrl = NoUrl
  MaxSelections = 2
  MaxEarly = 1
  MaxDownloads = 5
  b1 = b1
  b2 = b2
  Bytes = {b1, b2}
  NoByte = NoByte
  Marker <- TheMarker
  PartitionSize = 5
  ChunkSize = 2
  MaxUpdates = 2
  Adverts = {a1, a2, a3}
  Entries = 2
  BatchMax = 1
  EmitMin = 1
  EmitMax = 2
  FlushAfter = 1
  MaxTime = 2
  MaxSeen = 3
  Voltages = {15, 28}
  Safe = 5
  Highest = 20
  HighPower = 9
  IdWord = 8
  MaxSourced = 2
  Debounce = 1
  Intercom = 3
  Clicks = 2
  Window = 3
  ArmedFor = 4
  HoldFor = 4
  ShortClick = 2
  MaxWindow = 3
  StopWindow = 2
  Skips = TRUE
INVARIANTS
  DeviceTypeOK
  NeverStranded
  NoOverlap
  
  ScanExact
  BootsOwnFamily
  PausesForAudio
  EntryIsOwn
  ContractIsSupplied
  OutputFollows
  SetupIsMeant
  JudgesLatest
PROPERTIES
  Recovers
  FailsOpen
  SelectedModelUsed
  UpdatesEnd
  ScanResumes
  NegotiationEnds
\* a component that has nothing left to do rests
CHECK_DEADLOCK FALSE
