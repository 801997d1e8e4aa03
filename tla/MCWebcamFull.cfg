\* The last packet of a frame may be full.
CONSTANTS
  PayloadSize = 3
  NSeqnums = 65536
  NTimestamps = 1073741824
  PictureIdMax = 32767
  TicksPerPts = 300000001
  Ssrc = 287454020
  ControlMax = 15
  Layouts <- FullLayouts
  KeyFrames = {1}
  KeyEvery = 2
  StartSeqnums = {65534}
  StartIds <- MCStartIds
  Recording = {FALSE}
  MaxFrames = 2
  MaxDrops = 0
  MaxLosses = 0
  MaxRequests = 0

SPECIFICATION WebcamSpec

INVARIANT MarkerOnLast

CHECK_DEADLOCK FALSE
