\* Dual-stack mode: admission across failover, lookups and roaming
CONSTANTS
  Senders = {1}
  pub4 = pub4
  priv4 = priv4
  pub6 = pub6
  Addrs4 <- MCAddrs4
  Addrs6 <- MCAddrs6
  Private <- MCPrivate
  DualStack = TRUE
  AllowPrivate = FALSE
  FakeTCPOn = TRUE
  SuperPeer = TRUE
  MaxSends = 2
  MaxFlaps = 2
  MaxCalls = 2
  MaxRoams = 1
  None = None
SPECIFICATION Spec
INVARIANT TypeOK
INVARIANT EndpointAdmitted
\* Sends, calls, roams and flaps are bounded: once they are used up the
\* peer idles, which is not a deadlock of the code.
CHECK_DEADLOCK FALSE
