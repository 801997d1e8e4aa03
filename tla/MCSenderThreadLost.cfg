\* A chunk handed over before the thread waits.
CONSTANTS
  NChunks = 2
  Empty = {}
  Writable <- Always
  MaxGiven = 3

SPECIFICATION FairSpec

PROPERTY GivenIsSent
