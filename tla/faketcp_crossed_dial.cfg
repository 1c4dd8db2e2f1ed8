\* Both nodes dial each other at once, as two peers do when both have
\* traffic; the network is lossy, duplicating and reordering.
CONSTANTS
  c = c
  s = s
  Nodes = {c, s}
  Dialers = {c, s}
  Closers = {s}
  NoSock = NoSock
  ISN <- MCISN
  SeqBits <- MCSeqBits
  PayloadLen = {3}
  RetryCount = 2
  IncomingQueueSize = 1
  MaxSockets = 3
  MaxLoss = 1
  MaxDup = 1
  MaxSends = 1
SPECIFICATION Spec
INVARIANT LiveSocketsReachable
\* The violation is a safety trace; the run stops at it.
CHECK_DEADLOCK FALSE
