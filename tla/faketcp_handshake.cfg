\* One node dials, the other listens; lossy, duplicating, reordering network.
CONSTANTS
  c = c
  s = s
  Nodes = {c, s}
  Dialers = {c}
  Closers = {s}
  NoSock = NoSock
  ISN <- MCISN
  SeqBits <- MCSeqBits
  PayloadLen = {3}
  RetryCount = 2
  IncomingQueueSize = 1
  MaxSockets = 3
  MaxLoss = 1
  MaxDup = 1
  MaxSends = 1
SPECIFICATION Spec
INVARIANT TypeOK
INVARIANT ServerEstablishedOnlyAfterClient
PROPERTY HandshakeTerminates
\* The bounded users stop calling; the real process then idles with its
\* readers blocked on the TUN, which is not a deadlock.
CHECK_DEADLOCK FALSE
