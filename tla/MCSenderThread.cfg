\* A socket that is writable at times; the fourth payload is empty.
CONSTANTS
  NChunks = 3
  Empty = {4}
  Writable <- AtTimes
  MaxGiven = 7

SPECIFICATION FairSpec
INVARIANT TypeOK
INVARIANT ChunksConserved
INVARIANT SentOnce
INVARIANT SentInOrder
PROPERTY ShutdownReturns
PROPERTY WokenSends
