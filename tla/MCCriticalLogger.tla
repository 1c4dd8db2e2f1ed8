--------------------------- MODULE MCCriticalLogger ---------------------------
EXTENDS CriticalLogger
=============================================================================
