--------------------------- MODULE MCLegacyEscrow ---------------------------
EXTENDS LegacyEscrow

CONSTANTS o, f1, f2, a1
=============================================================================
