----------------------------- MODULE MCReceive -----------------------------
EXTENDS Receive, TLC
CONSTANTS k1, k2, k3
Symm == Permutations({k1, k2, k3})
=============================================================================
