------------------------------ MODULE MCEscrow ------------------------------
EXTENDS Pages, TLC

\* Wallets that play the same part in the instance.
CONSTANTS o, f1, f2, a1, a2

Symmetry == Permutations({f1, f2}) \cup Permutations({a1, a2})
=============================================================================
