\* Four frames and one that is dropped, a key frame every second one, one loss
\* and one request.
\* The player may join at any frame and the streamer be stopped at any point.
\* Counters are as wide as in the code, but for the timestamp: a quarter of its
\* values, and it moves in all its bytes.
CONSTANTS
  PayloadSize = 3
  NSeqnums = 65536
  NTimestamps = 1073741824
  PictureIdMax = 32767
  TicksPerPts = 300000001
  Ssrc = 287454020
  ControlMax = 15
  Layouts <- MCLayouts
  KeyFrames = {1}
  KeyEvery = 2
  StartSeqnums = {65534}
  StartIds <- MCStartIds
  Recording = {TRUE, FALSE}
  MaxFrames = 4
  MaxDrops = 1
  MaxLosses = 1
  MaxRequests = 1

SPECIFICATION WebcamSpec

INVARIANT WebcamTypeOK
INVARIANT MarkerEndsFrame
INVARIANT PayloadsTile
INVARIANT HeadersUnderstood
INVARIANT PictureIdPerFrame
INVARIANT RecordedWhole
INVARIANT GluedOnlyByLoss
INVARIANT PictureRecovers

CHECK_DEADLOCK FALSE
