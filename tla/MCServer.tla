------------------------------ MODULE MCServer ------------------------------
EXTENDS Server
CONSTANTS p1, p2
\* p1 and p2 send to each other.
Pair == {<<p1, p2>>, <<p2, p1>>}
=============================================================================
