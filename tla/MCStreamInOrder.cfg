\* Lossy but in order; senders that serve resend requests, and that ignore them.
CONSTANTS
  NPackets = 4
  MaxSplit = 2
  NSeqnums = 10
  Data <- MCData
  NoData = NoData
  Garbage <- MCStale
  MaxMissing = 3
  SlotBytes = 2
  NsPerTick = 1
  Inputs = {}
  MaxElapsed = 3
  TimeMod = 16
  NoSlot = NoSlot
  PayloadSize = 3
  NTimestamps = 100
  PictureIdMax = 100
  TicksPerPts = 1
  NHistory = 3
  ControlMax = 3
  Ssrc = 1
  Servers = {TRUE, FALSE}
  Layouts <- MCLayouts
  KeyFrames = {1}
  MaxFrames = 4
  Settings <- Lossy

SPECIFICATION StreamFairSpec
INVARIANT StreamTypeOK
INVARIANT PlaybackInOrder
 
INVARIANT DecoderStartsOnKey
INVARIANT ReportedInSight
PROPERTY PlaybackNeverStalls
CHECK_DEADLOCK FALSE
