\* Two workers, deadlockTimeout of 4 ticks (ticker every 2), 12 ticks:
\* enough for several ticks to pass with and without activity between them.
CONSTANTS
  Workers = {w1, w2}
  Timeout = 4
  MaxTime = 12
  MaxLag = 1
  None = None
SPECIFICATION Spec
INVARIANT TypeOK
INVARIANT DetectionBound
\* Every behaviour ends: the process exits (os.Exit), or the clock reaches
\* MaxTime with the monitor returned or idle; neither is a deadlock of the code.
CHECK_DEADLOCK FALSE
