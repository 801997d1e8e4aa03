\* Datagrams are lost, overtake each other and come twice; the sequence numbers
\* or the timestamps start again in mid-stream.
CONSTANTS
  NPackets = 4
  MaxSplit = 2
  NSeqnums = 8
  Data <- MCData
  NoData = NoData
  Garbage <- MCGarbage
  MaxMissing = 3
  SlotBytes = 2
  NsPerTick = 1
  Inputs = {}
  MaxElapsed = 3
  TimeMod = 16
  NoSlot = NoSlot
  PayloadSize = 3
  NTimestamps = 100
  PictureIdMax = 100
  TicksPerPts = 1
  NHistory = 3
  ControlMax = 3
  Ssrc = 1
  Servers = {TRUE}
  Layouts <- MCLayouts
  KeyFrames = {1}
  MaxFrames = 3
  Settings <- Faulty

SPECIFICATION StreamSpec

INVARIANT FramesNotMixed
INVARIANT LossesReportedUntilWrap
INVARIANT RepeatedOnlyIfCopied
INVARIANT ExitsWhenDry

CHECK_DEADLOCK FALSE
