------------------------------ MODULE Mailbox ------------------------------
(****************************************************************************)
(* What a selective receive promises (occ/inbox.py, the comment over        *)
(* Inbox.receive and README:150): one sequence of messages in order of      *)
(* arrival, from which a call takes the first message it wants and leaves   *)
(* the others where they are, unless its match function raises.             *)
(****************************************************************************)
EXTENDS Integers, Sequences, SequencesExt

CONSTANTS
    Kind,       \* the kinds of message a match function tells apart
    Raising,    \* the kinds a match function may raise on; "timeout" among
                \* them if it may raise on ReceiveTimeout()
    MaxPuts,    \* bound: the messages that arrive
    MaxCalls    \* bound: the calls of receive

Letter   == [id : 1..MaxPuts, kind : Kind]
\* never: Infinity(); zero: 0; later: any other number of seconds.
Timeouts == {"never", "zero", "later"}

VARIABLES
    box,        \* the messages that have arrived and were not received
    puts,       \* how many messages have arrived
    calls,      \* how many calls were made
    waiting,    \* a call is going on
    wants,      \* the kinds its match function returns a value for
    timeout,    \* its timeout
    outcome     \* what the last call returned: a message, or a timeout

callVars == <<calls, waiting, wants, timeout, outcome>>
vars     == <<box, puts, callVars>>

TimedOut == [id |-> 0, kind |-> "timeout"]
Nothing  == [id |-> 0, kind |-> "nothing"]

Init ==
    /\ box = <<>>
    /\ puts = 0
    /\ calls = 0
    /\ waiting = FALSE
    /\ wants = {}
    /\ timeout = "never"
    /\ outcome = Nothing

Arrive ==
    /\ puts < MaxPuts
    /\ puts' = puts + 1
    /\ \E k \in Kind : box' = Append(box, [id |-> puts + 1, kind |-> k])
    /\ UNCHANGED callVars

Call ==
    /\ ~waiting /\ calls < MaxCalls
    /\ calls' = calls + 1
    /\ waiting' = TRUE
    /\ wants' \in SUBSET Kind
    /\ timeout' \in Timeouts
    /\ outcome' = Nothing
    /\ UNCHANGED <<box, puts>>

Return(x) == waiting' = FALSE /\ outcome' = x /\ UNCHANGED <<calls, wants, timeout>>

\* The first wanted message, however many there are before it.
Take ==
    /\ waiting
    /\ \E i \in DOMAIN box :
         /\ box[i].kind \in wants
         /\ \A j \in 1..(i - 1) : box[j].kind \notin wants
         /\ box' = RemoveAt(box, i)
         /\ Return(box[i])
    /\ UNCHANGED puts

\* A timeout takes nothing.  With a timeout of zero it also means that there
\* was nothing to take.
GiveUp ==
    /\ waiting /\ timeout # "never"
    /\ timeout = "zero" => \A i \in DOMAIN box : box[i].kind \notin wants
    /\ Return(TimedOut)
    /\ UNCHANGED <<box, puts>>

\* The match function raises, having wanted none of the messages before: the
\* exception is what the caller gets, and all of them are gone.
Abort ==
    /\ waiting
    /\ \E i \in DOMAIN box :
         /\ box[i].kind \in Raising
         /\ \A j \in 1..(i - 1) : box[j].kind \notin wants
         /\ box' = SubSeq(box, i + 1, Len(box))
    /\ Return(outcome)
    /\ UNCHANGED puts

\* The match function raises on the timeout: what was looked at before, and was
\* not wanted, is gone.  With a timeout of zero that is everything.
AbortLate ==
    /\ waiting /\ timeout # "never" /\ "timeout" \in Raising
    /\ \E n \in 0..Len(box) :
         /\ \A j \in 1..n : box[j].kind \notin wants
         /\ timeout = "zero" => n = Len(box)
         /\ box' = SubSeq(box, n + 1, Len(box))
    /\ Return(outcome)
    /\ UNCHANGED puts

Next == Arrive \/ Call \/ Take \/ GiveUp \/ Abort \/ AbortLate

Spec == Init /\ [][Next]_vars
=============================================================================
