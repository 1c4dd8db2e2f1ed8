\* Two supernode URLs of different priority, one gossiped p2p URL, IPv6
\* preferred, dual stack on (so dual lookups, their failure and every
\* legacy network occur), and a clock that passes the timeout twice.
CONSTANTS
  s1 = s1
  s2 = s2
  p1 = p1
  SuperURLs = {s1, s2}
  P2PURLs = {p1}
  Prio <- MCPrio
  Bias = 2
  AfPrefer = 6
  DualPath = TRUE
  Timeout = 2
  StartTime = 7
  MaxTime = 11
  None = None
SPECIFICATION Spec
INVARIANT TypeOK
PROPERTY UntriedSuperFirst
PROPERTY SlowRetryAfterTimeout
