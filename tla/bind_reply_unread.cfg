\* Both nodes' WireGuard send to each other, as a handshake and its reply do.
CONSTANTS
  a = a
  b = b
  m1 = m1
  m2 = m2
  None = None
  Nodes = {a, b}
  SendNodes = {a, b}
  Senders = {1}
  Closers = {}
  Msgs = {m1, m2}
  SockQueueSize = 1
  RecvQueueSize = 1
  MaxSockets = 4
  MaxDup = 1
SPECIFICATION Spec
PROPERTY EnqueuedDelivered
\* Sends are bounded (each datagram is sent once): the system then stops.
CHECK_DEADLOCK FALSE
