------------------------------ MODULE Channel ------------------------------
(****************************************************************************)
(* What send_value and receive_value promise (occ/sck.py): whole values, in *)
(* the order in which they were written, each at most once; the end only    *)
(* after the last of them; an error only if something has disturbed the     *)
(* stream or the next value is one that does not load.                      *)
(****************************************************************************)
EXTENDS Sequences

CONSTANTS
    Message,    \* the values
    Unloadable  \* those that do not load

VARIABLES
    queue,      \* the messages written and not received
    received,   \* the messages received
    closed,     \* the writing process has closed its end
    disturbed,  \* something has happened that may cost an error
    over        \* why the reader has stopped

vars == <<queue, received, closed, disturbed, over>>

Init ==
    /\ queue = <<>> /\ received = <<>>
    /\ closed = FALSE /\ disturbed = FALSE
    /\ over = "no"

Put ==
    /\ ~closed
    /\ \E m \in Message : queue' = Append(queue, m)
    /\ disturbed' \in {disturbed, TRUE}
    /\ UNCHANGED <<received, closed, over>>

Take ==
    /\ over = "no" /\ queue # <<>> /\ Head(queue) \notin Unloadable
    /\ received' = Append(received, Head(queue))
    /\ queue' = Tail(queue)
    /\ UNCHANGED <<closed, disturbed, over>>

Close ==
    /\ ~closed /\ closed' = TRUE
    /\ disturbed' \in {disturbed, TRUE}
    /\ UNCHANGED <<queue, received, over>>

Disturb == disturbed' = TRUE /\ UNCHANGED <<queue, received, closed, over>>

End ==
    /\ over = "no" /\ closed /\ ~disturbed /\ queue = <<>>
    /\ over' = "end"
    /\ UNCHANGED <<queue, received, closed, disturbed>>

Fail ==
    /\ over = "no"
    /\ disturbed \/ (queue # <<>> /\ Head(queue) \in Unloadable)
    /\ over' = "error"
    /\ UNCHANGED <<queue, received, closed, disturbed>>

\* The reading process closes its end, or is gone.
Leave ==
    /\ over' = "gone"
    /\ UNCHANGED <<queue, received, closed, disturbed>>

Next == Put \/ Take \/ Close \/ Disturb \/ End \/ Fail \/ Leave

Spec == Init /\ [][Next]_vars
=============================================================================
