CONSTANTS
  NPackets = 3
  MaxSplit = 2
  NSeqnums = 5
  Data <- MCData
  NoData = NoData
  Garbage <- MCGarbage
  MaxMissing = 2
  SlotBytes = 1
  NsPerTick = 1
  Inputs <- MCInputs
  MaxElapsed = 2
  TimeMod = 8
  NoSlot = NoSlot

SPECIFICATION JitterSpec

INVARIANT JitterTypeOK
INVARIANT GapsAccounted
INVARIANT FrameOfArrivals
INVARIANT KeyframeFirst
PROPERTY ReportsAreNew
PROPERTY Spec

CHECK_DEADLOCK FALSE
