------------------------------ MODULE MCChecksum ------------------------------
EXTENDS Checksum
=============================================================================
