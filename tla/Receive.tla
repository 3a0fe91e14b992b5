------------------------------ MODULE Receive ------------------------------
(****************************************************************************)
(* Inbox.receive (occ/inbox.py): the selective receive as it is written,    *)
(* with the queue the reader threads fill, the buffer of messages that      *)
(* earlier calls skipped, and the buffer of those this call has skipped.    *)
(* One action is one turn of the loop; the reader threads put messages      *)
(* between any two.                                                         *)
(****************************************************************************)
EXTENDS Integers, Sequences

CONSTANTS
    Kind,       \* the kinds of message a match function tells apart
    Raising,    \* the kinds a match function may raise on; "timeout" among
                \* them if it may raise on ReceiveTimeout()
    MaxPuts,    \* bound: the messages the reader threads put
    MaxCalls    \* bound: the calls of receive

ASSUME ReceiveAssumption ==
    MaxPuts \in Nat /\ MaxCalls \in Nat /\ Raising \subseteq Kind \cup {"timeout"}

VARIABLES
    q,          \* Inbox.q
    q_buffer,   \* Inbox.q_buffer
    mid,        \* mid_receive_buffer
    puts, calls, waiting, wants, timeout, outcome

vars == <<q, q_buffer, mid, puts, calls, waiting, wants, timeout, outcome>>

Inbox == mid \o q_buffer \o q
M     == INSTANCE Mailbox WITH box <- Inbox

TypeOK ==
    /\ q \in Seq(M!Letter) /\ q_buffer \in Seq(M!Letter) /\ mid \in Seq(M!Letter)
    /\ puts \in 0..MaxPuts /\ calls \in 0..MaxCalls
    /\ waiting \in BOOLEAN /\ wants \in SUBSET Kind /\ timeout \in M!Timeouts
    /\ outcome \in M!Letter \cup {M!Nothing, M!TimedOut}

Init ==
    /\ q = <<>> /\ q_buffer = <<>> /\ mid = <<>>
    /\ puts = 0 /\ calls = 0
    /\ waiting = FALSE /\ wants = {} /\ timeout = "never"
    /\ outcome = M!Nothing

\* A reader thread, or a send to oneself, puts a message.
Put ==
    /\ puts < MaxPuts
    /\ puts' = puts + 1
    /\ \E k \in Kind : q' = Append(q, [id |-> puts + 1, kind |-> k])
    /\ UNCHANGED <<q_buffer, mid, calls, waiting, wants, timeout, outcome>>

\* receive(timeout, match).  match=None is a match that wants every kind.
Call ==
    /\ ~waiting /\ calls < MaxCalls
    /\ calls' = calls + 1
    /\ waiting' = TRUE
    /\ wants' \in SUBSET Kind
    /\ timeout' \in M!Timeouts
    /\ mid' = <<>>
    /\ outcome' = M!Nothing
    /\ UNCHANGED <<q, q_buffer, puts>>

\* q_buffer = mid_receive_buffer + q_buffer, on the two ways out.
PutBackAfter(rest) == rest \o mid
PutBack(rest) == mid \o rest

\* The match function is called on m, which was taken from the front of the
\* buffers; rest is what is left of q_buffer.
Matched(m, rest) ==
    /\ m.kind \in wants
    /\ q_buffer' = PutBack(rest)
    /\ mid' = <<>>
    /\ waiting' = FALSE
    /\ outcome' = m
Skipped(m, rest) ==
    /\ m.kind \notin wants
    /\ q_buffer' = rest
    /\ mid' = Append(mid, m)
    /\ UNCHANGED <<waiting, outcome>>
\* The exception leaves receive: m and the local buffer go with it.
Raised(m, rest) ==
    /\ m.kind \in Raising
    /\ q_buffer' = rest
    /\ mid' = <<>>
    /\ waiting' = FALSE
    /\ UNCHANGED outcome

Examine(m, rest) == Matched(m, rest) \/ Skipped(m, rest) \/ Raised(m, rest)

FromBuffer ==
    /\ waiting /\ q_buffer # <<>>
    /\ Examine(Head(q_buffer), Tail(q_buffer))
    /\ UNCHANGED <<q, puts, calls, wants, timeout>>

FromQueue ==
    /\ waiting /\ q_buffer = <<>> /\ q # <<>>
    /\ q' = Tail(q)
    /\ Examine(Head(q), <<>>)
    /\ UNCHANGED <<puts, calls, wants, timeout>>

\* remaining_time is 0 for ever when the timeout is 0, and then only
\* queue.Empty ends the call; any other timeout may have run out when the loop
\* comes round, whatever the queue holds.
OutOfTimeOnlyZero == timeout = "zero" /\ q = <<>>
OutOfTimeEarly == timeout # "never"
OutOfTime == timeout = "later" \/ (timeout = "zero" /\ q = <<>>)

\* ReceiveTimeout is handed to the match function and returned, or what the
\* match function makes of it is; when it raises, the local buffer is gone.
TimesOut ==
    /\ waiting /\ q_buffer = <<>> /\ OutOfTime
    /\ \/ q_buffer' = PutBack(<<>>) /\ outcome' = M!TimedOut
       \/ "timeout" \in Raising /\ UNCHANGED <<q_buffer, outcome>>
    /\ mid' = <<>>
    /\ waiting' = FALSE
    /\ UNCHANGED <<q, puts, calls, wants, timeout>>

Turn == FromBuffer \/ FromQueue \/ TimesOut
Next == Put \/ Call \/ Turn

\* The process that called receive runs on.
Spec     == Init /\ [][Next]_vars
FairSpec == Spec /\ WF_vars(Turn)

----------------------------------------------------------------------------
(* Properties.                                                              *)

\* The messages that are in the inbox are in their order of arrival, whatever
\* was skipped by which call: no skip moves a message before an older one.
InOrder == \A i, j \in DOMAIN Inbox : i < j => Inbox[i].id < Inbox[j].id

\* The three buffers implement one mailbox: a call takes the oldest message it
\* wants, leaves the others in place, and a timeout of zero is not returned
\* while a wanted message is there.  A match function that raises on a message
\* costs exactly the messages up to that one; one that raises on the timeout,
\* those the call had looked at.
ImplementsMailbox == M!Spec

\* A call comes back when it has a timeout, or when a message it wants is there.
CallReturns ==
    waiting /\ (timeout # "never" \/ \E i \in DOMAIN Inbox : Inbox[i].kind \in wants)
        ~> ~waiting
=============================================================================
