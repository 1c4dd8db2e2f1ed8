\* Handlers built disabled, or enabled with maxPacketSize 50 (no control
\* packet fits), 1452 (the value the tests use) and 65600 (room for the u16 length
\* limit: 65551 bytes fit, 65552 overflow the field); first bytes 0
\* (data), 3 (Ping) and 7 (data).
CONSTANTS
  MaxPacketSizes = {50, 1452, 65600}
  Kinds = {0, 3, 7}
  None = None
  Err = Err
  Panic = Panic
SPECIFICATION Spec
INVARIANT TypeOK
INVARIANT RoundTrip
INVARIANT SizeBound
INVARIANT RemainderAuthentic
\* Each behaviour is one packet's trip; it stops once Decrypt has returned
\* or Encrypt has failed.
CHECK_DEADLOCK FALSE
