\* Two TUN queues, two sockets, three packets, two Open attempts.
CONSTANTS
  Queues = 2
  Socks = {s1, s2}
  MaxPkts = 3
  MaxOpens = 2
  None = None
SPECIFICATION Spec
INVARIANT TypeOK
INVARIANT NoFdLeak
INVARIANT NoIOAfterClose
\* The run stops once packets and Open attempts are used up, and
\* Stack.Close may hang (see the hazards): the stop is not checked here.
CHECK_DEADLOCK FALSE
