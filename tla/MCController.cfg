\* Three datagrams of any length for two remotes that may be added late.
CONSTANTS
  Capacity = 2
  Uninit = Uninit
  Freed = Freed
  Lengths <- MCLengths
  MaxDatagrams = 3
  MaxRemotes = 2

SPECIFICATION ControllerFairSpec

INVARIANT ControllerTypeOK
INVARIANT ForwardedOnce
PROPERTY SentFromItsTime
PROPERTY PoolIsQueue
PROPERTY EachRemoteServed

CHECK_DEADLOCK FALSE
