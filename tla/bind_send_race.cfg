\* Two goroutines of node a send to b at the same time.
CONSTANTS
  a = a
  b = b
  m1 = m1
  m2 = m2
  None = None
  Nodes = {a, b}
  SendNodes = {a}
  Senders = {1, 2}
  Closers = {}
  Msgs = {m1, m2}
  SockQueueSize = 1
  RecvQueueSize = 1
  MaxSockets = 4
  MaxDup = 1
SPECIFICATION Spec
INVARIANT HeldSocketRegistered
\* Sends are bounded and a closed bind's goroutines block on empty
\* channels for good: the system stops.
CHECK_DEADLOCK FALSE
