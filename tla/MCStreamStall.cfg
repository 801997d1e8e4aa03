\* A late packet gives a timeout before the start of playback.
CONSTANTS
  NPackets = 4
  MaxSplit = 2
  NSeqnums = 8
  Data <- MCData
  NoData = NoData
  Garbage <- MCGarbage
  MaxMissing = 8
  SlotBytes = 2
  NsPerTick = 1
  Inputs = {}
  MaxElapsed = 5
  TimeMod = 16
  NoSlot = NoSlot
  PayloadSize = 3
  NTimestamps = 100
  PictureIdMax = 100
  TicksPerPts = 1
  NHistory = 3
  ControlMax = 3
  Ssrc = 1
  Servers = {FALSE}
  Layouts <- OnePacket
  KeyFrames = {1}
  MaxFrames = 6
  Settings <- Overtaking

SPECIFICATION StreamSpec

INVARIANT TimeoutInReach

CHECK_DEADLOCK FALSE
