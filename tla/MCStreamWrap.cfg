\* The sequence numbers wrap around in mid-stream.
CONSTANTS
  NPackets = 4
  MaxSplit = 2
  NSeqnums = 8
  Data <- MCData
  NoData = NoData
  Garbage <- MCGarbage
  MaxMissing = 3
  SlotBytes = 2
  NsPerTick = 1
  Inputs = {}
  MaxElapsed = 5
  TimeMod = 16
  NoSlot = NoSlot
  PayloadSize = 3
  NTimestamps = 100
  PictureIdMax = 100
  TicksPerPts = 1
  NHistory = 3
  ControlMax = 3
  Ssrc = 1
  Servers = {FALSE}
  Layouts <- MCLayouts
  KeyFrames = {1}
  MaxFrames = 3
  Settings <- Wrapping

SPECIFICATION StreamSpec

INVARIANT LossesReported

CHECK_DEADLOCK FALSE
