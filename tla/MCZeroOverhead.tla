---------------------------- MODULE MCZeroOverhead ----------------------------
EXTENDS ZeroOverhead
=============================================================================
