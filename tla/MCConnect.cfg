\* Either kind of server; two datagrams that nobody waits for, among them responses
\* that are repeated or late; one loss; the NAT rebinds once.  The parse buffer
\* takes eight responses, or fewer with other datagrams.
CONSTANTS
  NBlocks = 2
  Capacity = 8
  ResponseBytes = 1
  OtherBytes = 2
  Addrs <- TwoAddrs
  NoHost = 0
  Servers = {"xor", "mapped"}
  Intruders = {"mapped", "other"}
  MaxIntruders = 2
  MaxLosses = 1
  MaxAddr = 2

SPECIFICATION ConnectFairSpec
INVARIANT ConnectTypeOK
INVARIANT BlocksReturned
INVARIANT SpoiltOnlyByOverlap
PROPERTY StreamerLearns
PROPERTY RecordFollows
