----------------------------- MODULE MCConnect -----------------------------
EXTENDS Connect
CONSTANTS p1, p2, p3
\* p1 and p2 send to each other, and p1 to p3.
Fork == {<<p1, p2>>, <<p2, p1>>, <<p1, p3>>}
\* p1 and p2 send to each other.
Pair == {<<p1, p2>>, <<p2, p1>>}
=============================================================================
