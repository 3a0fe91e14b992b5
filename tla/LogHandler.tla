----------------------------- MODULE LogHandler -----------------------------
(****************************************************************************)
(* Logging over the system (occ/logging.py): the handler buffers records    *)
(* until it has an inbox, and sends them to the logging process from then   *)
(* on.  The threads of a process log under the lock of logging.Handler,     *)
(* which set_inbox does not take.                                           *)
(****************************************************************************)
EXTENDS Integers, Sequences

CONSTANTS
    Thread,     \* the threads that log
    Main,       \* the one that calls set_inbox
    Reader,     \* the one that reads what central answers
    MaxRecords  \* bound: the records of each thread

ASSUME LogAssumption ==
    {Main, Reader} \subseteq Thread /\ Main # Reader /\ MaxRecords \in Nat

VARIABLES
    ib,         \* whether the handler has an inbox
    buf,        \* its buffer
    conn,       \* the connection to the logging process: up, broken, removed
    dials,      \* send makes a new connection (user processes), or raises
    pc, n,      \* where each thread is, and how many records it has logged
    lock,       \* the threads that hold the handler's lock
    step,       \* where the main thread is with set_inbox
    stopping,   \* whether it was called with None, by stop_logging
    i,          \* the position of its loop
    out,        \* what the logging process receives
    lost        \* records that are neither sent nor in the buffer any more

vars == <<ib, buf, conn, dials, pc, n, lock, step, stopping, i, out, lost>>

\* A record remembers whether the buffer had it before the inbox was set.
Record == [from : Thread, n : 1..MaxRecords, via : {"buffer", "late", "direct"}]

TypeOK ==
    /\ ib \in BOOLEAN /\ dials \in BOOLEAN /\ stopping \in BOOLEAN
    /\ buf \in Seq(Record) /\ out \in Seq(Record) /\ lost \subseteq Record
    /\ conn \in {"up", "broken", "removed"}
    /\ pc \in [Thread -> {"idle", "want", "append", "send", "dial"}]
    /\ n \in [Thread -> 0..MaxRecords]
    /\ lock \subseteq Thread
    /\ step \in {"before", "loop", "clear", "set", "stopped", "raised"}
    /\ i \in Nat \ {0}

Init ==
    /\ ib = FALSE /\ stopping = FALSE /\ dials \in BOOLEAN
    /\ buf = <<>> /\ out = <<>> /\ lost = {}
    /\ conn = "up"
    /\ pc = [t \in Thread |-> "idle"] /\ n = [t \in Thread |-> 0]
    /\ lock = {}
    /\ step = "before" /\ i = 1

Goto(t, at) == pc' = [pc EXCEPT ![t] = at]
Logged(t, via) == [from |-> t, n |-> n[t], via |-> via]

----------------------------------------------------------------------------
(* emit.                                                                    *)

Log(t) ==
    /\ pc[t] = "idle" /\ n[t] < MaxRecords
    /\ t = Main => step \in {"before", "set"}
    /\ n' = [n EXCEPT ![t] = @ + 1]
    /\ Goto(t, "want")
    /\ UNCHANGED <<ib, buf, conn, dials, lock, step, stopping, i, out, lost>>

\* Handler.handle takes the lock, emit looks whether there is an inbox.
Look(t) ==
    /\ pc[t] = "want" /\ lock = {}
    /\ lock' = {t}
    /\ Goto(t, IF ib THEN "send" ELSE "append")
    /\ UNCHANGED <<ib, buf, conn, dials, n, step, stopping, i, out, lost>>

Release(t) == lock \ {t}
Leave(t) == Goto(t, "idle") /\ lock' = Release(t)

BufferedFirst(x) == <<x>> \o buf
Buffered(x) == Append(buf, x)

AppendRecord(t) ==
    /\ pc[t] = "append"
    /\ buf' = Buffered(Logged(t, IF ib THEN "late" ELSE "buffer"))
    /\ Leave(t)
    /\ UNCHANGED <<ib, conn, dials, n, step, stopping, i, out, lost>>

\* A handler that tried the send again, and kept the lock meanwhile.
FailRetries(t) ==
    /\ lost' = lost \cup {Logged(t, "direct")}
    /\ Goto(t, "send")
    /\ UNCHANGED <<ib, lock, out>>

\* A send that raises, or an inbox that has been taken away since, costs the
\* record, and the handler its inbox.
Fail(t) ==
    /\ ib' = FALSE
    /\ lost' = lost \cup {Logged(t, "direct")}
    /\ Leave(t)
    /\ UNCHANGED out

SendRecord(t) ==
    /\ pc[t] = "send"
    /\ \/ /\ ib /\ conn = "up"
          /\ out' = Append(out, Logged(t, "direct"))
          /\ Leave(t)
          /\ UNCHANGED <<ib, lost>>
       \/ (~ib \/ conn = "broken" \/ (conn = "removed" /\ ~dials)) /\ Fail(t)
       \/ ib /\ conn = "removed" /\ dials
          /\ Goto(t, "dial") /\ UNCHANGED <<ib, lock, out, lost>>
    /\ UNCHANGED <<buf, conn, dials, n, step, stopping, i>>

\* Inbox.send asks central for a connection and waits for the answer, that
\* there is none, which the reader thread has to read.
Answered(t) == t # Reader /\ pc[Reader] = "idle"
Dial(t) ==
    /\ pc[t] = "dial" /\ Answered(t) /\ Fail(t)
    /\ UNCHANGED <<buf, conn, dials, n, step, stopping, i>>

Emit(t) == Look(t) \/ AppendRecord(t) \/ SendRecord(t) \/ Dial(t)

----------------------------------------------------------------------------
(* set_inbox.                                                               *)

\* set_logging_inbox, and for central stop_logging at the end.
First == 1
SetInbox ==
    /\ pc[Main] = "idle"
    /\ \/ step = "before" /\ ib' = TRUE /\ stopping' = FALSE
       \/ step = "set" /\ ~dials /\ ib' = FALSE /\ stopping' = TRUE
    /\ step' = "loop" /\ i' = First
    /\ UNCHANGED <<buf, conn, dials, pc, n, lock, out, lost>>

\* The loop sees what is appended while it runs.  It raises when the send
\* does, and when there is no inbox.
SendBuffered ==
    /\ step = "loop" /\ i <= Len(buf)
    /\ \/ /\ ib /\ conn = "up"
          /\ out' = Append(out, buf[i])
          /\ i' = i + 1 /\ UNCHANGED step
       \/ /\ ~ib \/ conn = "broken" \/ (conn = "removed" /\ (dials => pc[Reader] = "idle"))
          /\ step' = "raised" /\ UNCHANGED <<i, out>>
    /\ UNCHANGED <<ib, buf, conn, dials, pc, n, lock, stopping, lost>>

ExhaustedEarly == i >= Len(buf)
Exhausted == i > Len(buf)
EndLoop ==
    /\ step = "loop" /\ Exhausted
    /\ step' = "clear"
    /\ UNCHANGED <<ib, buf, conn, dials, pc, n, lock, stopping, i, out, lost>>

NotEmptied == buf
Emptied == <<>>
Clear ==
    /\ step = "clear"
    /\ buf' = Emptied
    /\ lost' = lost \cup {buf[j] : j \in i..Len(buf)}
    /\ step' = IF stopping THEN "stopped" ELSE "set"
    /\ UNCHANGED <<ib, conn, dials, pc, n, lock, stopping, i, out>>

MainStep == SendBuffered \/ EndLoop \/ Clear

----------------------------------------------------------------------------
\* The logging process dies, or ends with the system; the thread of its
\* connection takes it out of the cache.
LoggingDies ==
    /\ conn' = CASE conn = "up" -> "broken" [] OTHER -> "removed"
    /\ conn # "removed"
    /\ UNCHANGED <<ib, buf, dials, pc, n, lock, step, stopping, i, out, lost>>

Next ==
    \/ \E t \in Thread : Log(t) \/ Emit(t)
    \/ SetInbox \/ MainStep \/ LoggingDies

\* Threads that log, and set_inbox, go on.
Spec     == Init /\ [][Next]_vars
FairSpec == Spec /\ WF_vars(MainStep) /\ \A t \in Thread : WF_vars(Emit(t))

----------------------------------------------------------------------------
(* Properties.                                                              *)

\* The records of one thread are received in the order in which they were
\* logged, except that one sent directly may overtake one that is still in the
\* buffer; the main thread's are in order altogether.  None arrives twice.
InOrder ==
    \A j, k \in DOMAIN out :
        j < k /\ out[j].from = out[k].from =>
            \/ out[j].n < out[k].n
            \/ /\ out[j].from # Main /\ out[j].n # out[k].n
               /\ out[j].via = "direct" /\ out[k].via # "direct"

\* As long as the logging process is there and logging is not being stopped, a
\* record is lost, or is left in the buffer for ever, only if another thread
\* looked for the inbox before set_inbox and appended to the buffer after it.
LostOnlyLate ==
    conn = "up" /\ ~stopping =>
        /\ \A x \in lost : x.via = "late"
        /\ step = "set" => \A j \in DOMAIN buf : buf[j].via = "late"

\* set_inbox raises only if the logging process is gone, or, from stop_logging,
\* for records another thread has left in the buffer.
RaisesOnlyForOthers ==
    step = "raised" /\ conn = "up" =>
        stopping /\ \A j \in DOMAIN buf : buf[j].from # Main

\* A thread that logs comes back.  The exception is the reader thread once the
\* logging process is gone: it waits for an answer only it can read, or for the
\* lock of a thread that waits for such an answer.
LogReturns ==
    \A t \in Thread :
        pc[t] # "idle" ~> \/ pc[t] = "idle"
                          \/ conn = "removed" /\ dials /\ pc[Reader] # "idle"
=============================================================================
