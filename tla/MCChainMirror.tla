--------------------------- MODULE MCChainMirror ---------------------------
EXTENDS ChainMirror, TLC

CONSTANTS c1, c2, t1, t2

\* Claims are interchangeable, and so are concurrent requests.
OneClaimSymmetry == Permutations({t1, t2})
TwoClaimSymmetry == Permutations({c1, c2}) \cup Permutations({t1, t2})
=============================================================================
