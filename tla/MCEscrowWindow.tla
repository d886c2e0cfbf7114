--------------------------- MODULE MCEscrowWindow ---------------------------
EXTENDS EscrowWindow

CONSTANTS o, f1, f2, a1
=============================================================================
