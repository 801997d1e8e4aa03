\* Three packets are lost in a row, one more than there is room for.
CONSTANTS
  NPackets = 3
  MaxSplit = 2
  NSeqnums = 8
  MaxMissing = 2
  SlotBytes = 1
  NsPerTick = 2
  NoData = NoData
  Data <- MCData
  Garbage <- MCGarbage
  Inputs <- MCInputs

SPECIFICATION Spec

INVARIANT NoOverrun

CHECK_DEADLOCK FALSE
