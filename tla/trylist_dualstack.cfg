\* Dual stack on, IPv6 preferred: a supernode URL that resolves in both
\* families goes to the v4/v6 maps only, which GetNextTry never scans.
CONSTANTS
  s1 = s1
  s2 = s2
  p1 = p1
  SuperURLs = {s1, s2}
  P2PURLs = {p1}
  Prio <- MCPrio
  Bias = 2
  AfPrefer = 6
  DualPath = TRUE
  Timeout = 2
  StartTime = 7
  MaxTime = 11
  None = None
SPECIFICATION Spec
PROPERTY AllMapsScanned
