\* Bytes 0x00, 0x01 and 0xFF; a pseudo-header of 0 or 2 bytes and a
\* segment of up to 5 bytes: odd and even lengths, one and two folds
\* (FF FF + FF FF 00 01 sums to 0x1FFFF), and the all-zero input.
CONSTANTS
  Bytes = {0, 1, 255}
  PseudoLens = {0, 2}
  MaxSegLen = 5
  None = None
SPECIFICATION Spec
INVARIANT TypeOK
PROPERTY ChecksumRefinesReference
\* Each behaviour is one call of calculateChecksum; it stops once it returns.
CHECK_DEADLOCK FALSE
