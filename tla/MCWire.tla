------------------------------- MODULE MCWire -------------------------------
(* Values for model checking Wire: two short values, of which one does not   *)
(* unpickle, a long one, and one that passes a socket.                       *)
EXTENDS Wire
CONSTANTS w1, w2, short, odd, long, socket

Sizes == [m \in {short, odd, long, socket} |-> IF m = long THEN 3 ELSE 1]
=============================================================================
