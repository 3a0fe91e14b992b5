--------------------------- MODULE LogHandlerProofs ---------------------------
(****************************************************************************)
(* Proofs about LogHandler: its types, the order in which the logging       *)
(* process receives records, which records may be lost, and when set_inbox  *)
(* raises, for every set of threads and every number of records.            *)
(****************************************************************************)
EXTENDS LogHandler, TLAPS

(* The invariant. *)

\* A thread that is not idle has a record of its own to deal with, and the
\* records of a thread that are in the buffer or received are older.
Busy == \A t \in Thread : pc[t] # "idle" => n[t] >= 1
Older(x) == x.n <= n[x.from] /\ (x.n = n[x.from] => pc[x.from] = "idle")
AllOlder ==
    /\ \A j \in 1..Len(out) : Older(out[j])
    /\ \A j \in 1..Len(buf) : Older(buf[j])

\* The buffer is in order, and none of its records is sent directly.
BufferInOrder ==
    \A j, k \in 1..Len(buf) : j < k /\ buf[j].from = buf[k].from => buf[j].n < buf[k].n
BufferKept == \A j \in 1..Len(buf) : buf[j].via # "direct"

\* What has been received comes before what the buffer still has to send.
Start == IF step \in {"loop", "clear", "raised"} THEN i ELSE 1
MayPrecede(x, y) ==
    x.from = y.from =>
        x.n < y.n \/ (x.from # Main /\ x.n # y.n /\ x.via = "direct" /\ y.via # "direct")
SentFirst ==
    \A j \in 1..Len(out), m \in 1..Len(buf) : m >= Start => MayPrecede(out[j], buf[m])
OutInOrder == \A j, k \in 1..Len(out) : j < k => MayPrecede(out[j], out[k])

\* The main thread logs before set_inbox or after it, directly as long as the
\* handler has its inbox.
NoneOfMain == \A j \in 1..Len(buf) : buf[j].from # Main
MainFirst ==
    /\ pc[Main] # "idle" => step \in {"before", "set"}
    /\ step = "before" => ~ib /\ ~stopping /\ \A t \in Thread : pc[t] \notin {"send", "dial"}
    /\ pc[Main] = "append" => ~ib
    /\ step = "set" /\ (ib \/ pc[Main] \in {"send", "dial"}) => NoneOfMain

\* As long as the logging process is there and logging is not being stopped, the
\* handler has its inbox from set_inbox on; when it is, nothing of the main
\* thread is in the buffer.
Late(x) == x.via = "late"
Healthy ==
    conn = "up" /\ ~stopping =>
        /\ ib <=> step # "before"
        /\ step \notin {"raised", "stopped"}
        /\ \A x \in lost : Late(x)
        /\ step \in {"clear", "set"} =>
               \A j \in 1..Len(buf) : j >= Start => Late(buf[j])
Dialled  == conn = "up" => \A t \in Thread : pc[t] # "dial"
Stopping == stopping => step \notin {"before", "set"} /\ (conn = "up" => NoneOfMain)

Order == AllOlder /\ BufferInOrder /\ BufferKept /\ SentFirst /\ OutInOrder
Steps == Busy /\ MainFirst /\ Healthy /\ Dialled /\ Stopping

Inv == TypeOK /\ Order /\ Steps

----------------------------------------------------------------------------
(* What a step of one thread leaves alone.                                  *)

\* A record that a thread logs is a record.
LEMMA LoggedType ==
    ASSUME TypeOK, Busy, NEW t \in Thread, pc[t] # "idle",
           NEW v \in {"buffer", "late", "direct"}
    PROVE  Logged(t, v) \in Record
<1>1. n[t] \in 1..MaxRecords
    BY LogAssumption DEF TypeOK, Busy
<1> QED BY <1>1 DEF Logged, Record

\* Elements of a sequence with one more.
LEMMA Longer ==
    ASSUME NEW S, NEW s \in Seq(S), NEW x \in S
    PROVE  /\ Append(s, x) \in Seq(S)
           /\ Len(Append(s, x)) = Len(s) + 1
           /\ Append(s, x)[Len(s) + 1] = x
           /\ \A k \in 1..Len(s) : Append(s, x)[k] = s[k]
OBVIOUS

\* The buffer and what has been received are sequences of records.
LEMMA Elements ==
    ASSUME TypeOK
    PROVE  /\ Len(buf) \in Nat /\ \A k \in 1..Len(buf) : buf[k] \in Record
           /\ Len(out) \in Nat /\ \A k \in 1..Len(out) : out[k] \in Record
BY DEF TypeOK

\* A thread that is about to deal with its newest record has sent and buffered
\* older ones only.
LEMMA Newest ==
    ASSUME TypeOK, AllOlder, NEW t \in Thread, pc[t] # "idle"
    PROVE  /\ \A k \in 1..Len(out) : out[k].from = t => out[k].n < n[t]
           /\ \A k \in 1..Len(buf) : buf[k].from = t => buf[k].n < n[t]
<1>1. ASSUME NEW x \in Record, Older(x), x.from = t PROVE x.n < n[t]
    BY <1>1, LogAssumption DEF Older, TypeOK, Record
<1> QED BY <1>1, Elements DEF AllOlder

\* The same of the next state, for a record that is what it is.
OlderNext(x) == x.n <= n'[x.from] /\ (x.n = n'[x.from] => pc'[x.from] = "idle")

LEMMA AllOlderNext ==
    ASSUME \A k \in 1..Len(out') : OlderNext(out'[k]),
           \A k \in 1..Len(buf') : OlderNext(buf'[k])
    PROVE  AllOlder'
BY DEF AllOlder, Older, OlderNext

\* Records stay older when a thread goes on to its next record, or goes on with
\* the one it has.
LEMMA StillOlder ==
    ASSUME TypeOK, NEW t \in Thread, NEW x \in Record, Older(x),
           \/ pc[t] = "idle" /\ n' = [n EXCEPT ![t] = @ + 1]
           \/ pc[t] # "idle" /\ n' = n,
           NEW at, pc' = [pc EXCEPT ![t] = at]
    PROVE  OlderNext(x)
<1>1. x.n \in Nat /\ x.from \in Thread /\ n[x.from] \in Nat
    BY LogAssumption DEF TypeOK, Record
<1>2. CASE x.from = t
    BY <1>1, <1>2 DEF Older, OlderNext, TypeOK
<1>3. CASE x.from # t
    BY <1>1, <1>3 DEF Older, OlderNext, TypeOK
<1> QED BY <1>2, <1>3

LEMMA OlderKept ==
    ASSUME TypeOK, AllOlder, UNCHANGED <<buf, out>>, NEW t \in Thread,
           \/ pc[t] = "idle" /\ n' = [n EXCEPT ![t] = @ + 1]
           \/ pc[t] # "idle" /\ n' = n,
           NEW at, pc' = [pc EXCEPT ![t] = at]
    PROVE  AllOlder'
<1>1. ASSUME NEW x \in Record, Older(x) PROVE OlderNext(x)
    BY <1>1, StillOlder
<1>2. \A k \in 1..Len(out) : OlderNext(out[k])
    BY <1>1, Elements DEF AllOlder
<1>3. \A k \in 1..Len(buf) : OlderNext(buf[k])
    BY <1>1, Elements DEF AllOlder
<1> QED BY <1>2, <1>3, AllOlderNext

\* Nothing that is buffered or received changes, and the loop does not go back:
\* the order is kept.
LEMMA OrderKept ==
    ASSUME TypeOK, Order, UNCHANGED <<buf, out>>, AllOlder', Start' \in Int, Start' >= Start
    PROVE  Order'
<1>1. Start \in Int
    BY DEF Start, TypeOK
<1>2. BufferInOrder' /\ BufferKept' /\ OutInOrder'
    BY DEF Order, BufferInOrder, BufferKept, OutInOrder, MayPrecede
<1>3. ASSUME NEW j \in 1..Len(out), NEW m \in 1..Len(buf), m >= Start'
      PROVE  MayPrecede(out[j], buf[m])
    BY <1>1, <1>3, Elements DEF Order, SentFirst
<1>4. SentFirst'
    BY <1>3 DEF SentFirst, MayPrecede
<1> QED BY <1>2, <1>4 DEF Order

----------------------------------------------------------------------------
(* One lemma per action.                                                    *)

LEMMA LogKeeps ==
    ASSUME Inv, NEW t \in Thread, Log(t) PROVE Inv'
<1> USE DEF Inv
<1>0. /\ pc' = [pc EXCEPT ![t] = "want"] /\ n' = [n EXCEPT ![t] = @ + 1] /\ pc[t] = "idle"
      /\ UNCHANGED <<buf, out>>
    BY DEF Log, Goto
<1>1. TypeOK'
    BY LogAssumption DEF Log, Goto, TypeOK
<1>2. AllOlder'
    BY <1>0, OlderKept DEF Order
<1>3. Order'
    <2>1. Start' = Start /\ Start \in Int /\ UNCHANGED <<buf, out>>
        BY DEF Log, Start, TypeOK
    <2> QED BY <1>2, <2>1, OrderKept
<1>4. Busy' /\ Dialled'
    BY <1>0, LogAssumption DEF Log, Steps, Busy, Dialled, TypeOK
<1>5. MainFirst'
    BY <1>0, LogAssumption DEF Log, Steps, MainFirst, NoneOfMain, TypeOK
<1>6. Healthy' /\ Stopping'
    BY DEF Log, Steps, Healthy, Stopping, NoneOfMain, Start, Late
<1> QED BY <1>1, <1>3, <1>4, <1>5, <1>6 DEF Steps

LEMMA LookKeeps ==
    ASSUME Inv, NEW t \in Thread, Look(t) PROVE Inv'
<1> USE DEF Inv
<1> DEFINE at == IF ib THEN "send" ELSE "append"
<1>0. pc' = [pc EXCEPT ![t] = at] /\ n' = n /\ pc[t] = "want" /\ UNCHANGED <<buf, out>>
    BY DEF Look, Goto
<1>1. TypeOK'
    BY DEF Look, Goto, TypeOK
<1>2. AllOlder'
    <2> HIDE DEF at
    <2> QED BY <1>0, OlderKept DEF Order
<1>3. Order'
    <2>1. Start' = Start /\ Start \in Int
        BY DEF Look, Start, TypeOK
    <2> QED BY <1>0, <1>2, <2>1, OrderKept
<1>4. Busy' /\ Dialled'
    BY <1>0 DEF Look, Steps, Busy, Dialled, TypeOK
<1>5. MainFirst'
    BY <1>0, LogAssumption DEF Look, Steps, MainFirst, NoneOfMain, TypeOK
<1>6. Healthy' /\ Stopping'
    BY DEF Look, Steps, Healthy, Stopping, NoneOfMain, Start, Late
<1> QED BY <1>1, <1>3, <1>4, <1>5, <1>6 DEF Steps

\* The record is newer than all others of its thread.
LEMMA AppendKeeps ==
    ASSUME Inv, NEW t \in Thread, AppendRecord(t) PROVE Inv'
<1> USE DEF Inv
<1> DEFINE r == Logged(t, IF ib THEN "late" ELSE "buffer")
           b == Len(buf)
<1>0. /\ pc' = [pc EXCEPT ![t] = "idle"] /\ n' = n /\ pc[t] = "append"
      /\ buf' = Append(buf, r) /\ UNCHANGED <<ib, conn, dials, step, stopping, i, out, lost>>
      /\ lock' = lock \ {t}
    BY DEF AppendRecord, Leave, Release, Goto, Buffered
<1>1. /\ r \in Record /\ r.from = t /\ r.n = n[t] /\ r.via # "direct"
      /\ ib => r.via = "late"
    <2>1. r \in Record
        BY <1>0, LoggedType DEF Steps
    <2> QED BY <2>1 DEF Logged
<1> HIDE DEF r
<1>2. buf \in Seq(Record)
    BY DEF TypeOK
<1>3. /\ buf' \in Seq(Record) /\ b \in Nat /\ Len(buf') = b + 1
      /\ buf'[b + 1] = r /\ \A k \in 1..b : buf'[k] = buf[k]
    BY <1>0, <1>1, <1>2, Longer
<1>4. TypeOK'
    BY <1>0, <1>3 DEF TypeOK
<1>5. /\ \A k \in 1..Len(out) : out[k] \in Record /\ (out[k].from = t => out[k].n < n[t])
      /\ \A k \in 1..b : buf[k] \in Record /\ (buf[k].from = t => buf[k].n < n[t])
    BY <1>0, Newest, Elements DEF Order
<1> HIDE DEF b
<1>6. AllOlder'
    <2>1. ASSUME NEW x \in Record, Older(x) PROVE OlderNext(x)
        BY <1>0, <2>1, StillOlder
    <2>2. OlderNext(r)
        BY <1>0, <1>1 DEF OlderNext, TypeOK
    <2>3. \A k \in 1..Len(out) : OlderNext(out[k])
        BY <2>1, Elements DEF Order, AllOlder
    <2>4. \A k \in 1..b : OlderNext(buf[k])
        BY <2>1, Elements DEF Order, AllOlder, b
    <2>5. \A k \in 1..b + 1 : OlderNext(buf'[k])
        <3>1. ASSUME NEW k \in 1..b + 1, k # b + 1 PROVE k \in 1..b
            BY <1>3, <3>1
        <3> QED BY <1>3, <2>2, <2>4, <3>1
    <2> QED BY <1>0, <1>3, <2>3, <2>5, AllOlderNext
<1>7. BufferInOrder'
    <2>1. ASSUME NEW j \in 1..b + 1, NEW k \in 1..b + 1, j < k, buf'[j].from = buf'[k].from
          PROVE  buf'[j].n < buf'[k].n
        <3>1. j \in 1..b
            BY <1>3, <2>1
        <3>2. CASE k = b + 1
            BY <1>1, <1>3, <1>5, <2>1, <3>1, <3>2
        <3>3. CASE k # b + 1
            <4>1. k \in 1..b
                BY <1>3, <3>3
            <4> QED BY <1>3, <2>1, <3>1, <4>1 DEF Order, BufferInOrder, b
        <3> QED BY <3>2, <3>3
    <2> QED BY <1>3, <2>1 DEF BufferInOrder
<1>8. BufferKept'
    <2>1. ASSUME NEW k \in 1..b + 1 PROVE buf'[k].via # "direct"
        <3>1. k = b + 1 \/ k \in 1..b
            BY <1>3
        <3> QED BY <1>1, <1>3, <3>1 DEF Order, BufferKept, b
    <2> QED BY <1>3, <2>1 DEF BufferKept
<1>9. SentFirst' /\ OutInOrder'
    <2>1. ASSUME NEW j \in 1..Len(out), NEW m \in 1..b + 1, m >= Start
          PROVE  MayPrecede(out[j], buf'[m])
        <3>1. CASE m = b + 1
            BY <1>1, <1>3, <1>5, <3>1 DEF MayPrecede
        <3>2. CASE m # b + 1
            <4>1. m \in 1..b
                BY <1>3, <3>2
            <4> QED BY <1>3, <2>1, <4>1 DEF Order, SentFirst, b
        <3> QED BY <3>1, <3>2
    <2>2. Start' = Start
        BY <1>0 DEF Start
    <2>3. SentFirst'
        BY <1>0, <1>3, <2>1, <2>2 DEF SentFirst, MayPrecede
    <2> QED BY <1>0, <2>3 DEF Order, OutInOrder, MayPrecede
<1>10. Busy' /\ Dialled'
    BY <1>0 DEF Steps, Busy, Dialled, TypeOK
<1>11. t # Main => (NoneOfMain => NoneOfMain')
    <2>1. ASSUME t # Main, NoneOfMain, NEW k \in 1..b + 1 PROVE buf'[k].from # Main
        <3>1. k = b + 1 \/ k \in 1..b
            BY <1>3
        <3> QED BY <1>1, <1>3, <2>1, <3>1 DEF NoneOfMain, b
    <2> QED BY <1>3, <2>1 DEF NoneOfMain
<1>12. MainFirst'
    <2>1. CASE t = Main
        BY <1>0, <2>1, LogAssumption DEF Steps, MainFirst, TypeOK
    <2>2. CASE t # Main
        BY <1>0, <1>11, <2>2, LogAssumption DEF Steps, MainFirst, TypeOK
    <2> QED BY <2>1, <2>2
<1>13. Healthy'
    <2>1. ASSUME conn = "up", ~stopping, step \in {"clear", "set"},
                 NEW k \in 1..b + 1, k >= Start
          PROVE  Late(buf'[k])
        <3>1. k = b + 1 \/ k \in 1..b
            BY <1>3
        <3>2. ib
            BY <2>1 DEF Steps, Healthy
        <3> QED BY <1>1, <1>3, <2>1, <3>1, <3>2 DEF Steps, Healthy, Late, b
    <2>2. Start' = Start
        BY <1>0 DEF Start
    <2> QED BY <1>0, <1>3, <2>1, <2>2 DEF Steps, Healthy, Late
<1>14. Stopping'
    <2>1. stopping => t # Main
        BY <1>0, LogAssumption DEF Steps, Stopping, MainFirst
    <2> QED BY <1>0, <1>11, <2>1 DEF Steps, Stopping
<1> QED BY <1>4, <1>6, <1>7, <1>8, <1>9, <1>10, <1>12, <1>13, <1>14 DEF Order, Steps

\* A record sent directly is newer than those received, and those that the
\* buffer still has are of other threads, or are not sent directly.
LEMMA SendDirectKeeps ==
    ASSUME Inv, NEW t \in Thread, SendRecord(t), out' = Append(out, Logged(t, "direct")),
           Leave(t), UNCHANGED <<ib, lost>>
    PROVE  Inv'
<1> USE DEF Inv
<1> DEFINE r == Logged(t, "direct")
           o == Len(out)
<1>0. /\ pc' = [pc EXCEPT ![t] = "idle"] /\ n' = n /\ pc[t] = "send"
      /\ out' = Append(out, r) /\ UNCHANGED <<ib, buf, conn, dials, step, stopping, i, lost>>
      /\ lock' = lock \ {t}
    BY DEF SendRecord, Leave, Release, Goto
<1>1. r \in Record /\ r.from = t /\ r.n = n[t] /\ r.via = "direct"
    <2>1. r \in Record
        BY <1>0, LoggedType DEF Steps
    <2> QED BY <2>1 DEF Logged
<1> HIDE DEF r
<1>2. out \in Seq(Record)
    BY DEF TypeOK
<1>3. /\ out' \in Seq(Record) /\ o \in Nat /\ Len(out') = o + 1
      /\ out'[o + 1] = r /\ \A k \in 1..o : out'[k] = out[k]
    BY <1>0, <1>1, <1>2, Longer
<1>4. TypeOK'
    BY <1>0, <1>3 DEF TypeOK
<1>5. /\ \A k \in 1..o : out[k] \in Record /\ (out[k].from = t => out[k].n < n[t])
      /\ \A k \in 1..Len(buf) : buf[k] \in Record /\ (buf[k].from = t => buf[k].n < n[t])
    BY <1>0, Newest, Elements DEF Order
<1> HIDE DEF o
<1>6. \A k \in 1..o + 1 : k = o + 1 \/ k \in 1..o
    BY <1>3
<1>7. AllOlder'
    <2>1. ASSUME NEW x \in Record, Older(x) PROVE OlderNext(x)
        BY <1>0, <2>1, StillOlder
    <2>2. OlderNext(r)
        BY <1>0, <1>1 DEF OlderNext, TypeOK
    <2>3. \A k \in 1..Len(buf) : OlderNext(buf[k])
        BY <2>1, Elements DEF Order, AllOlder
    <2>4. \A k \in 1..o : OlderNext(out[k])
        BY <2>1, Elements DEF Order, AllOlder, o
    <2>5. \A k \in 1..o + 1 : OlderNext(out'[k])
        BY <1>3, <1>6, <2>2, <2>4
    <2> QED BY <1>0, <1>3, <2>3, <2>5, AllOlderNext
<1>8. BufferInOrder' /\ BufferKept'
    BY <1>0 DEF Order, BufferInOrder, BufferKept
<1>9. SentFirst'
    <2>1. t = Main => NoneOfMain
        BY <1>0 DEF Steps, MainFirst
    <2>2. ASSUME NEW m \in 1..Len(buf) PROVE MayPrecede(r, buf[m])
        <3>1. buf[m].via # "direct" /\ buf[m] \in Record
            BY <1>5 DEF Order, BufferKept
        <3>2. buf[m].from = t => buf[m].n < n[t] /\ t # Main
            BY <1>5, <2>1 DEF NoneOfMain
        <3>3. buf[m].from = t => n[t] # buf[m].n
            BY <3>1, <3>2 DEF Record, TypeOK
        <3> QED BY <1>1, <3>1, <3>2, <3>3 DEF MayPrecede
    <2>3. ASSUME NEW j \in 1..o + 1, NEW m \in 1..Len(buf), m >= Start
          PROVE  MayPrecede(out'[j], buf[m])
        BY <1>3, <1>6, <2>2, <2>3 DEF Order, SentFirst, o
    <2>4. Start' = Start
        BY <1>0 DEF Start
    <2> QED BY <1>0, <1>3, <2>3, <2>4 DEF SentFirst, MayPrecede
<1>10. OutInOrder'
    <2>1. ASSUME NEW j \in 1..o + 1, NEW k \in 1..o + 1, j < k
          PROVE  MayPrecede(out'[j], out'[k])
        <3>1. j \in 1..o
            BY <1>3, <2>1
        <3>2. CASE k = o + 1
            BY <1>1, <1>3, <1>5, <3>1, <3>2 DEF MayPrecede
        <3>3. CASE k \in 1..o
            BY <1>3, <2>1, <3>1, <3>3 DEF Order, OutInOrder, o
        <3> QED BY <1>6, <3>2, <3>3
    <2> QED BY <1>3, <2>1 DEF OutInOrder, MayPrecede
<1>11. Busy' /\ Dialled'
    BY <1>0 DEF Steps, Busy, Dialled, TypeOK
<1>12. MainFirst'
    BY <1>0, LogAssumption DEF Steps, MainFirst, NoneOfMain, TypeOK
<1>13. Healthy' /\ Stopping'
    BY <1>0 DEF Steps, Healthy, Stopping, NoneOfMain, Start, Late
<1> QED BY <1>4, <1>7, <1>8, <1>9, <1>10, <1>11, <1>12, <1>13 DEF Order, Steps

\* A send fails, and the handler gives up its inbox, only if the logging process
\* is gone or logging is being stopped.
LEMMA FailKeeps ==
    ASSUME Inv, NEW t \in Thread, pc[t] \in {"send", "dial"}, Fail(t),
           pc[t] = "send" => ~ib \/ conn # "up",
           UNCHANGED <<buf, conn, dials, n, step, stopping, i>>
    PROVE  Inv'
<1> USE DEF Inv
<1>0. /\ pc' = [pc EXCEPT ![t] = "idle"] /\ ~ib' /\ lock' = lock \ {t}
      /\ lost' = lost \cup {Logged(t, "direct")} /\ UNCHANGED out
    BY DEF Fail, Leave, Release, Goto
<1>1. Logged(t, "direct") \in Record
    BY LoggedType DEF Steps
<1>2. TypeOK'
    BY <1>0, <1>1 DEF TypeOK, Fail
<1>3. AllOlder'
    <2>1. pc[t] # "idle" /\ UNCHANGED <<buf, out>>
        BY <1>0
    <2> QED BY <1>0, <2>1, OlderKept DEF Order
<1>4. Order'
    <2>1. Start' = Start /\ Start \in Int /\ UNCHANGED <<buf, out>>
        BY <1>0 DEF Start, TypeOK
    <2> QED BY <1>3, <2>1, OrderKept
<1>5. step # "before"
    BY DEF Steps, MainFirst
<1>6. ~(conn = "up" /\ ~stopping)
    BY <1>5 DEF Steps, Healthy, Dialled
<1>7. Busy' /\ Dialled'
    BY <1>0 DEF Steps, Busy, Dialled, TypeOK
<1>8. MainFirst'
    BY <1>0, <1>5, LogAssumption DEF Steps, MainFirst, NoneOfMain, TypeOK
<1>9. Healthy' /\ Stopping'
    BY <1>0, <1>6 DEF Steps, Healthy, Stopping, NoneOfMain
<1> QED BY <1>2, <1>4, <1>7, <1>8, <1>9 DEF Steps

LEMMA SendRecordKeeps ==
    ASSUME Inv, NEW t \in Thread, SendRecord(t) PROVE Inv'
<1>1. CASE out' = Append(out, Logged(t, "direct")) /\ Leave(t) /\ UNCHANGED <<ib, lost>>
    BY <1>1, SendDirectKeeps
<1>2. CASE (~ib \/ conn = "broken" \/ (conn = "removed" /\ ~dials)) /\ Fail(t)
    BY <1>2, FailKeeps DEF SendRecord
<1>3. CASE ib /\ conn = "removed" /\ dials /\ Goto(t, "dial") /\ UNCHANGED <<ib, lock, out, lost>>
    <2> USE DEF Inv
    <2>0. /\ pc' = [pc EXCEPT ![t] = "dial"] /\ n' = n /\ pc[t] = "send" /\ conn # "up"
          /\ UNCHANGED <<ib, buf, conn, dials, lock, step, stopping, i, out, lost>>
        BY <1>3 DEF SendRecord, Goto
    <2>1. TypeOK'
        BY <2>0 DEF TypeOK
    <2>2. AllOlder'
        BY <2>0, OlderKept DEF Order
    <2>3. Order'
        <3>1. Start' = Start /\ Start \in Int
            BY <2>0 DEF Start, TypeOK
        <3> QED BY <2>0, <2>2, <3>1, OrderKept
    <2>4. Busy' /\ Dialled'
        BY <2>0 DEF Steps, Busy, Dialled, TypeOK
    <2>5. MainFirst'
        BY <2>0, LogAssumption DEF Steps, MainFirst, NoneOfMain, TypeOK
    <2>6. Healthy' /\ Stopping'
        BY <2>0 DEF Steps, Healthy, Stopping, NoneOfMain
    <2> QED BY <2>1, <2>3, <2>4, <2>5, <2>6 DEF Steps
<1> QED BY <1>1, <1>2, <1>3 DEF SendRecord

LEMMA SetInboxKeeps ==
    ASSUME Inv, SetInbox PROVE Inv'
<1> USE DEF Inv
<1>0. /\ step' = "loop" /\ i' = 1 /\ step \in {"before", "set"} /\ pc[Main] = "idle"
      /\ step = "before" => ib' /\ ~stopping'
      /\ step = "set" => stopping' /\ ~ib'
      /\ ib' \in BOOLEAN /\ stopping' \in BOOLEAN
      /\ UNCHANGED <<buf, conn, dials, pc, n, lock, out, lost>>
    BY DEF SetInbox, First
<1>1. TypeOK'
    BY <1>0 DEF TypeOK
<1>2. Order'
    <2>1. Start' = 1 /\ Start = 1
        BY <1>0 DEF Start
    <2>2. AllOlder'
        BY <1>0 DEF Order, AllOlder, Older
    <2> QED BY <1>0, <2>1, <2>2, OrderKept
<1>3. Busy' /\ Dialled' /\ MainFirst'
    BY <1>0 DEF Steps, Busy, Dialled, MainFirst
<1>4. Healthy'
    BY <1>0 DEF Steps, Healthy, Late, MainFirst
<1>5. Stopping'
    BY <1>0 DEF Steps, Stopping, NoneOfMain, Healthy, MainFirst
<1> QED BY <1>1, <1>2, <1>3, <1>4, <1>5 DEF Steps

\* What the buffer sends is its oldest record that has not been sent.
LEMMA SendBufferedKeeps ==
    ASSUME Inv, SendBuffered PROVE Inv'
<1> USE DEF Inv
<1>0. /\ step = "loop" /\ i \in 1..Len(buf)
      /\ UNCHANGED <<ib, buf, conn, dials, pc, n, lock, stopping, lost>>
    BY DEF SendBuffered, TypeOK
<1>1. CASE ib /\ conn = "up" /\ out' = Append(out, buf[i]) /\ i' = i + 1 /\ UNCHANGED step
    <2> DEFINE r == buf[i]
               o == Len(out)
    <2>1. r \in Record /\ Older(r)
        BY <1>0, Elements DEF Order, AllOlder
    <2>2. out \in Seq(Record)
        BY DEF TypeOK
    <2>3. /\ out' \in Seq(Record) /\ o \in Nat /\ Len(out') = o + 1
          /\ out'[o + 1] = r /\ \A k \in 1..o : out'[k] = out[k]
        BY <1>1, <2>1, <2>2, Longer
    <2>4. TypeOK'
        BY <1>0, <1>1, <2>3 DEF TypeOK
    <2>5. Start = i /\ Start' = i + 1 /\ i \in Nat
        BY <1>0, <1>1 DEF Start, TypeOK
    <2>6. \A j \in 1..o : MayPrecede(out[j], r)
        BY <1>0, <2>5 DEF Order, SentFirst
    <2>7. \A m \in 1..Len(buf) : m >= i + 1 => MayPrecede(r, buf[m])
        BY <1>0, <2>5, Elements DEF Order, BufferInOrder, MayPrecede
    <2> HIDE DEF o, r
    <2>8. \A k \in 1..o + 1 : k = o + 1 \/ k \in 1..o
        BY <2>3
    <2>9. AllOlder'
        <3>1. \A k \in 1..o : Older(out[k])
            BY DEF Order, AllOlder, o
        <3>2. \A k \in 1..o + 1 : Older(out'[k])
            BY <2>1, <2>3, <2>8, <3>1
        <3>3. \A k \in 1..o + 1 : OlderNext(out'[k])
            BY <1>0, <3>2 DEF Older, OlderNext
        <3>4. \A k \in 1..Len(buf') : OlderNext(buf'[k])
            BY <1>0 DEF Order, AllOlder, Older, OlderNext
        <3> QED BY <2>3, <3>3, <3>4, AllOlderNext
    <2>10. BufferInOrder' /\ BufferKept'
        BY <1>0 DEF Order, BufferInOrder, BufferKept
    <2>11. SentFirst'
        <3>1. ASSUME NEW j \in 1..o + 1, NEW m \in 1..Len(buf), m >= i + 1
              PROVE  MayPrecede(out'[j], buf[m])
            <4>1. CASE j = o + 1
                BY <2>3, <2>7, <3>1, <4>1
            <4>2. CASE j \in 1..o
                <5>1. m >= Start
                    BY <2>5, <3>1
                <5> QED BY <2>3, <4>2, <5>1 DEF Order, SentFirst, o
            <4> QED BY <2>8, <4>1, <4>2
        <3> QED BY <1>0, <2>3, <2>5, <3>1 DEF SentFirst, MayPrecede
    <2>12. OutInOrder'
        <3>1. ASSUME NEW j \in 1..o + 1, NEW k \in 1..o + 1, j < k
              PROVE  MayPrecede(out'[j], out'[k])
            <4>1. j \in 1..o
                BY <2>3, <3>1
            <4>2. CASE k = o + 1
                BY <2>3, <2>6, <4>1, <4>2
            <4>3. CASE k \in 1..o
                BY <2>3, <3>1, <4>1, <4>3 DEF Order, OutInOrder, o
            <4> QED BY <2>8, <4>2, <4>3
        <3> QED BY <2>3, <3>1 DEF OutInOrder, MayPrecede
    <2>13. Busy' /\ Dialled' /\ MainFirst'
        BY <1>0, <1>1 DEF Steps, Busy, Dialled, MainFirst, NoneOfMain
    <2>14. Healthy' /\ Stopping'
        BY <1>0, <1>1 DEF Steps, Healthy, Stopping, NoneOfMain, Late
    <2> QED BY <2>4, <2>9, <2>10, <2>11, <2>12, <2>13, <2>14 DEF Order, Steps
<1>2. CASE /\ ~ib \/ conn = "broken" \/ (conn = "removed" /\ (dials => pc[Reader] = "idle"))
           /\ step' = "raised" /\ UNCHANGED <<i, out>>
    <2>1. TypeOK'
        BY <1>0, <1>2 DEF TypeOK
    <2>2. Order'
        <3>1. AllOlder'
            BY <1>0, <1>2 DEF Order, AllOlder, Older
        <3>2. Start' = Start /\ Start \in Int
            BY <1>0, <1>2 DEF Start, TypeOK
        <3>3. UNCHANGED <<buf, out>>
            BY <1>0, <1>2
        <3> QED BY <3>1, <3>2, <3>3, OrderKept
    <2>3. Busy' /\ Dialled' /\ MainFirst'
        BY <1>0, <1>2 DEF Steps, Busy, Dialled, MainFirst
    <2>4. ~(conn = "up" /\ ~stopping)
        BY <1>0, <1>2 DEF Steps, Healthy
    <2>5. Healthy' /\ Stopping'
        BY <1>0, <1>2, <2>4 DEF Steps, Healthy, Stopping, NoneOfMain
    <2> QED BY <2>1, <2>2, <2>3, <2>5 DEF Steps
<1> QED BY <1>1, <1>2 DEF SendBuffered

LEMMA EndLoopKeeps ==
    ASSUME Inv, EndLoop PROVE Inv'
<1> USE DEF Inv
<1>0. /\ step = "loop" /\ i > Len(buf) /\ step' = "clear"
      /\ UNCHANGED <<ib, buf, conn, dials, pc, n, lock, stopping, i, out, lost>>
    BY DEF EndLoop, Exhausted
<1>1. TypeOK'
    BY <1>0 DEF TypeOK
<1>2. Order'
    <2>1. AllOlder'
        BY <1>0 DEF Order, AllOlder, Older
    <2>2. Start' = Start /\ Start \in Int
        BY <1>0 DEF Start, TypeOK
    <2> QED BY <1>0, <2>1, <2>2, OrderKept
<1>3. Busy' /\ Dialled' /\ MainFirst' /\ Stopping'
    BY <1>0 DEF Steps, Busy, Dialled, MainFirst, Stopping, NoneOfMain
<1>4. \A j \in 1..Len(buf) : ~(j >= i)
    BY <1>0, Elements DEF TypeOK
<1>5. Healthy'
    BY <1>0, <1>4 DEF Steps, Healthy, Late, Start
<1> QED BY <1>1, <1>2, <1>3, <1>5 DEF Steps

\* What is thrown away came into the buffer after the end of the loop.
LEMMA ClearKeeps ==
    ASSUME Inv, Clear PROVE Inv'
<1> USE DEF Inv
<1>0. /\ step = "clear" /\ buf' = <<>> /\ lost' = lost \cup {buf[j] : j \in i..Len(buf)}
      /\ step' = IF stopping THEN "stopped" ELSE "set"
      /\ UNCHANGED <<ib, conn, dials, pc, n, lock, stopping, i, out>>
    BY DEF Clear, Emptied
<1>1. Len(buf') = 0 /\ 1..Len(buf') = {}
    BY <1>0
<1>2. \A j \in i..Len(buf) : j \in 1..Len(buf) /\ j >= i
    BY Elements DEF TypeOK
<1>3. TypeOK'
    <2>1. {buf[j] : j \in i..Len(buf)} \subseteq Record
        BY <1>2, Elements
    <2> QED BY <1>0, <2>1 DEF TypeOK
<1>4. AllOlder'
    BY <1>0, <1>1 DEF Order, AllOlder, Older
<1>5. BufferInOrder' /\ BufferKept' /\ SentFirst' /\ NoneOfMain'
    BY <1>1 DEF BufferInOrder, BufferKept, SentFirst, NoneOfMain
<1>6. OutInOrder'
    BY <1>0 DEF Order, OutInOrder, MayPrecede
<1>7. Busy' /\ Dialled'
    BY <1>0 DEF Steps, Busy, Dialled
<1>8. MainFirst' /\ Stopping'
    BY <1>0, <1>5 DEF Steps, MainFirst, Stopping
<1>9. Healthy'
    <2>1. ASSUME conn = "up", ~stopping, NEW j \in i..Len(buf) PROVE Late(buf[j])
        BY <1>0, <1>2, <2>1 DEF Steps, Healthy, Start
    <2> QED BY <1>0, <1>1, <2>1 DEF Steps, Healthy, Late
<1> QED BY <1>3, <1>4, <1>5, <1>6, <1>7, <1>8, <1>9 DEF Order, Steps

LEMMA LoggingDiesKeeps ==
    ASSUME Inv, LoggingDies PROVE Inv'
<1> USE DEF Inv
<1>0. /\ conn' \in {"broken", "removed"}
      /\ UNCHANGED <<ib, buf, dials, pc, n, lock, step, stopping, i, out, lost>>
    <2>1. CASE conn = "up" BY <2>1 DEF LoggingDies
    <2>2. CASE conn # "up" BY <2>2 DEF LoggingDies
    <2> QED BY <2>1, <2>2
<1>1. TypeOK'
    BY <1>0 DEF TypeOK
<1>2. Order'
    <2>1. AllOlder'
        BY <1>0 DEF Order, AllOlder, Older
    <2>2. Start' = Start /\ Start \in Int
        BY <1>0 DEF Start, TypeOK
    <2> QED BY <1>0, <2>1, <2>2, OrderKept
<1>3. Steps'
    BY <1>0 DEF Steps, Busy, MainFirst, Healthy, Dialled, Stopping, NoneOfMain
<1> QED BY <1>1, <1>2, <1>3

----------------------------------------------------------------------------
(* The theorems.                                                            *)

LEMMA InvInit == Init => Inv
<1> SUFFICES ASSUME Init PROVE Inv OBVIOUS
<1>1. TypeOK
    <2>1. n \in [Thread -> 0..MaxRecords]
        BY LogAssumption DEF Init
    <2>2. buf \in Seq(Record) /\ out \in Seq(Record) /\ lost \subseteq Record
        BY DEF Init
    <2>3. pc \in [Thread -> {"idle", "want", "append", "send", "dial"}]
        BY DEF Init
    <2>4. ib \in BOOLEAN /\ dials \in BOOLEAN /\ stopping \in BOOLEAN
        BY DEF Init
    <2>5. i \in Nat \ {0} /\ lock \subseteq Thread
        BY DEF Init
    <2> QED BY <2>1, <2>2, <2>3, <2>4, <2>5 DEF Init, TypeOK
<1>2. Order
    BY DEF Init, Order, AllOlder, BufferInOrder, BufferKept, SentFirst, OutInOrder
<1>3. Steps
    BY LogAssumption DEF Init, Steps, Busy, MainFirst, Healthy, Dialled, Stopping
<1> QED BY <1>1, <1>2, <1>3 DEF Inv

LEMMA InvStep == Inv /\ [Next]_vars => Inv'
<1> SUFFICES ASSUME Inv, [Next]_vars PROVE Inv' OBVIOUS
<1>1. CASE UNCHANGED vars
    BY <1>1 DEF vars, Inv, TypeOK, Order, AllOlder, Older, BufferInOrder, BufferKept,
                SentFirst, Start, MayPrecede, OutInOrder, Steps, Busy, MainFirst,
                NoneOfMain, Healthy, Late, Dialled, Stopping
<1>2. ASSUME NEW t \in Thread, Log(t) \/ Emit(t) PROVE Inv'
    <2>1. CASE Log(t) BY <2>1, LogKeeps
    <2>2. CASE Look(t) BY <2>2, LookKeeps
    <2>3. CASE AppendRecord(t) BY <2>3, AppendKeeps
    <2>4. CASE SendRecord(t) BY <2>4, SendRecordKeeps
    <2>5. CASE Dial(t) BY <2>5, FailKeeps DEF Dial
    <2> QED BY <1>2, <2>1, <2>2, <2>3, <2>4, <2>5 DEF Emit
<1>3. CASE SetInbox BY <1>3, SetInboxKeeps
<1>4. CASE SendBuffered BY <1>4, SendBufferedKeeps
<1>5. CASE EndLoop BY <1>5, EndLoopKeeps
<1>6. CASE Clear BY <1>6, ClearKeeps
<1>7. CASE LoggingDies BY <1>7, LoggingDiesKeeps
<1> QED BY <1>1, <1>2, <1>3, <1>4, <1>5, <1>6, <1>7 DEF Next, MainStep

LEMMA Invariance == Spec => []Inv
BY InvInit, InvStep, PTL DEF Spec

\* Every variable keeps its type; a record in the buffer or received has the
\* number of a record its thread has logged.
THEOREM TypesCorrect == Spec => []TypeOK
<1>1. Inv => TypeOK
    BY DEF Inv
<1> QED BY <1>1, Invariance, PTL

\* However the loop of set_inbox and the threads that log interleave, and
\* whatever becomes of the logging process, it receives the records of a thread in
\* the order in which they were logged, up to those sent directly past the buffer,
\* and those of the main thread in order altogether.
THEOREM InOrderCorrect == Spec => []InOrder
<1>1. Inv => InOrder
    <2> SUFFICES ASSUME Inv PROVE InOrder OBVIOUS
    <2>1. DOMAIN out = 1..Len(out)
        BY DEF Inv, TypeOK
    <2> QED BY <2>1 DEF Inv, Order, OutInOrder, MayPrecede, InOrder
<1> QED BY <1>1, Invariance, PTL

\* While the logging process is there and logging is not being stopped, only
\* records whose thread looked for the inbox before it was set are lost or left.
THEOREM LostOnlyLateCorrect == Spec => []LostOnlyLate
<1>1. Inv => LostOnlyLate
    <2> SUFFICES ASSUME Inv PROVE LostOnlyLate OBVIOUS
    <2>1. DOMAIN buf = 1..Len(buf)
        BY DEF Inv, TypeOK
    <2>2. \A j \in 1..Len(buf) : j >= 1
        BY Elements DEF Inv
    <2> QED BY <2>1, <2>2 DEF Inv, Steps, Healthy, Start, Late, LostOnlyLate
<1> QED BY <1>1, Invariance, PTL

\* set_inbox does not raise while the logging process is there, but for records
\* that other threads leave in the buffer of a handler that is being stopped.
THEOREM RaisesOnlyForOthersCorrect == Spec => []RaisesOnlyForOthers
<1>1. Inv => RaisesOnlyForOthers
    <2> SUFFICES ASSUME Inv PROVE RaisesOnlyForOthers OBVIOUS
    <2>1. DOMAIN buf = 1..Len(buf)
        BY DEF Inv, TypeOK
    <2> QED BY <2>1 DEF Inv, Steps, Healthy, Stopping, NoneOfMain, RaisesOnlyForOthers
<1> QED BY <1>1, Invariance, PTL
=============================================================================
