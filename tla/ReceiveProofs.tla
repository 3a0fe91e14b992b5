--------------------------- MODULE ReceiveProofs ---------------------------
(****************************************************************************)
(* Theorems about Receive, for every set of kinds, every set of kinds a     *)
(* match function raises on and every number of messages and calls: the     *)
(* three buffers implement the one mailbox, and keep the order of arrival.  *)
(****************************************************************************)
EXTENDS Receive, SequenceTheorems, TLAPS

----------------------------------------------------------------------------
(* Sequences.                                                               *)

\* The elements of a concatenation.
LEMMA Joined ==
    ASSUME NEW S, NEW s \in Seq(S), NEW t \in Seq(S)
    PROVE  /\ s \o t \in Seq(S) /\ Len(s \o t) = Len(s) + Len(t)
           /\ Len(s) \in Nat /\ Len(t) \in Nat
           /\ \A j \in 1..Len(s) : (s \o t)[j] = s[j]
           /\ \A j \in 1..Len(t) : (s \o t)[Len(s) + j] = t[j]
<1>1. Len(s) \in Nat /\ Len(t) \in Nat
  BY LenProperties
<1>2. s \o t \in Seq(S) /\ Len(s \o t) = Len(s) + Len(t)
  BY ConcatProperties
<1>3. ASSUME NEW j \in 1..(Len(s) + Len(t))
      PROVE  (s \o t)[j] = IF j <= Len(s) THEN s[j] ELSE t[j - Len(s)]
  BY ConcatProperties
<1>4. ASSUME NEW j \in 1..Len(s)
      PROVE  (s \o t)[j] = s[j]
  BY <1>1, <1>3
<1>5. ASSUME NEW j \in 1..Len(t)
      PROVE  (s \o t)[Len(s) + j] = t[j]
  <2> DEFINE k == Len(s) + j
  <2>1. k \in 1..(Len(s) + Len(t)) /\ ~(k <= Len(s)) /\ k - Len(s) = j
    BY <1>1
  <2> HIDE DEF k
  <2>2. (s \o t)[k] = t[j]
    BY <1>3, <2>1
  <2> QED BY <2>2 DEF k
<1> QED BY <1>1, <1>2, <1>4, <1>5

\* The elements of a sequence with one more in front.
LEMMA Pushed ==
    ASSUME NEW S, NEW h \in S, NEW u \in Seq(S)
    PROVE  /\ <<h>> \o u \in Seq(S) /\ Len(<<h>> \o u) = 1 + Len(u) /\ Len(u) \in Nat
           /\ (<<h>> \o u)[1] = h
           /\ \A j \in 1..Len(u) : (<<h>> \o u)[1 + j] = u[j]
<1> DEFINE w == <<h>>
<1>1. w \in Seq(S) /\ Len(w) = 1 /\ w[1] = h
  OBVIOUS
<1> HIDE DEF w
<1>2. w \o u \in Seq(S) /\ Len(w \o u) = Len(w) + Len(u) /\ Len(u) \in Nat
  BY <1>1, Joined
<1>3. \A j \in 1..Len(w) : (w \o u)[j] = w[j]
  BY <1>1, Joined
<1>4. ASSUME NEW j \in 1..Len(u)
      PROVE  (w \o u)[1 + j] = u[j]
  <2>1. 1 + j \in 1..(Len(w) + Len(u)) /\ ~(1 + j <= Len(w)) /\ (1 + j) - Len(w) = j
    BY <1>1, <1>2
  <2> DEFINE k == 1 + j
  <2>2. k \in 1..(Len(w) + Len(u))
    BY <2>1
  <2> HIDE DEF k
  <2>3. (w \o u)[k] = IF k <= Len(w) THEN w[k] ELSE u[k - Len(w)]
    BY <1>1, <2>2, ConcatProperties
  <2> QED BY <2>1, <2>3 DEF k
<1>5. (w \o u)[1] = h
  BY <1>1, <1>3
<1> QED BY <1>1, <1>2, <1>4, <1>5 DEF w

\* Where h sits in s \o <<h>> \o u, what is before and what is after it.
LEMMA Cut ==
    ASSUME NEW S, NEW s \in Seq(S), NEW h \in S, NEW u \in Seq(S),
           NEW box, box = s \o (<<h>> \o u)
    PROVE  /\ box \in Seq(S)
           /\ Len(s) + 1 \in 1..Len(box) /\ box[Len(s) + 1] = h
           /\ \A j \in 1..Len(s) : box[j] = s[j]
           /\ SubSeq(box, 1, Len(s)) = s
           /\ SubSeq(box, Len(s) + 2, Len(box)) = u
<1> DEFINE w == <<h>>
           v == w \o u
<1>1. w \in Seq(S) /\ Len(w) = 1 /\ w[1] = h
  OBVIOUS
<1> HIDE DEF w
<1>2. /\ v \in Seq(S) /\ Len(v) = 1 + Len(u) /\ Len(u) \in Nat
      /\ v[1] = h
      /\ \A j \in 1..Len(u) : v[1 + j] = u[j]
  BY Pushed DEF w
<1>3. box = s \o v
  BY DEF w, v
<1> HIDE DEF v
<1>4. /\ box \in Seq(S) /\ Len(box) = Len(s) + Len(v) /\ Len(s) \in Nat
      /\ \A j \in 1..Len(s) : box[j] = s[j]
      /\ \A j \in 1..Len(v) : box[Len(s) + j] = v[j]
  BY <1>2, <1>3, Joined
<1>5. box[Len(s) + 1] = h /\ Len(s) + 1 \in 1..Len(box)
  <2>1. 1 \in 1..Len(v)
    BY <1>2
  <2>2. box[Len(s) + 1] = v[1]
    BY <1>4, <2>1
  <2> QED BY <1>2, <1>4, <2>2
<1>6. \A j \in 1..Len(u) : box[Len(s) + 1 + j] = u[j]
  <2> TAKE j \in 1..Len(u)
  <2>1. 1 + j \in 1..Len(v)
    BY <1>2
  <2>2. box[Len(s) + (1 + j)] = v[1 + j]
    BY <1>4, <2>1
  <2>3. Len(s) + (1 + j) = Len(s) + 1 + j
    BY <1>4
  <2> QED BY <1>2, <2>2, <2>3
<1>7. SubSeq(box, 1, Len(s)) = s
  <2>1. CASE Len(s) = 0
    <3>1. s = <<>>
      BY <2>1, EmptySeq
    <3>2. SubSeq(box, 1, 0) = <<>>
      BY SubSeqEmpty
    <3> QED BY <2>1, <3>1, <3>2
  <2>2. CASE Len(s) # 0
    <3>1. 1 \in 1..Len(s) /\ Len(s) \in 1..Len(s)
      BY <1>4, <2>2
    <3>2. SubSeq(s \o v, 1, Len(s)) = SubSeq(s, 1, Len(s))
      BY <1>2, <3>1, SubSeqOfConcat1
    <3> QED BY <1>3, <3>2, SubSeqFull
  <2> QED BY <2>1, <2>2
<1>8. SubSeq(box, Len(s) + 2, Len(box)) = u
  <2>1. CASE Len(u) = 0
    <3>1. u = <<>>
      BY <2>1, EmptySeq
    <3>2. Len(s) + 2 \in Int /\ Len(box) \in Int /\ Len(box) < Len(s) + 2
      BY <1>2, <1>4, <2>1
    <3> QED BY <3>1, <3>2, SubSeqEmpty
  <2>2. CASE Len(u) # 0
    <3> DEFINE m == Len(s) + 2
               n == Len(box)
    <3>1. /\ m \in (Len(s) + 1)..(Len(s) + Len(v))
          /\ n \in (Len(s) + 1)..(Len(s) + Len(v))
          /\ m - Len(s) = 2 /\ n - Len(s) = Len(v)
      BY <1>2, <1>4, <2>2
    <3> HIDE DEF m, n
    <3>2. SubSeq(s \o v, m, n) = SubSeq(v, m - Len(s), n - Len(s))
      BY <1>2, <3>1, SubSeqOfConcat2
    <3> DEFINE k == Len(v)
    <3>3. /\ 2 \in (Len(w) + 1)..(Len(w) + Len(u))
          /\ k \in (Len(w) + 1)..(Len(w) + Len(u))
          /\ 2 - Len(w) = 1 /\ k - Len(w) = Len(u)
      BY <1>1, <1>2, <2>2
    <3> HIDE DEF k
    <3>4. SubSeq(w \o u, 2, k) = SubSeq(u, 2 - Len(w), k - Len(w))
      BY <1>1, <3>3, SubSeqOfConcat2
    <3>5. SubSeq(v, 2, Len(v)) = u
      BY <3>3, <3>4, SubSeqFull DEF k, v
    <3> QED BY <1>3, <3>1, <3>2, <3>5 DEF m, n
  <2> QED BY <2>1, <2>2
<1> QED BY <1>4, <1>5, <1>7, <1>8

\* Taking the first element of b from the middle of s \o b \o r, skipping it,
\* or dropping it with all before it.
LEMMA Middle ==
    ASSUME NEW S, NEW s \in Seq(S), NEW b \in Seq(S), NEW r \in Seq(S), b # <<>>,
           NEW box, box = (s \o b) \o r
    PROVE  /\ box \in Seq(S)
           /\ Len(s) + 1 \in 1..Len(box) /\ box[Len(s) + 1] = Head(b)
           /\ \A j \in 1..Len(s) : box[j] = s[j]
           /\ (Append(s, Head(b)) \o Tail(b)) \o r = box
           /\ SubSeq(box, 1, Len(s)) = s
           /\ SubSeq(box, Len(s) + 2, Len(box)) = Tail(b) \o r
<1> DEFINE h == Head(b)
           t == Tail(b)
           w == <<h>>
<1>1. h \in S /\ t \in Seq(S) /\ w \in Seq(S)
  BY HeadTailProperties
<1>2. b = w \o t
  <2> DEFINE n == Len(b)
  <2>1. n \in Nat /\ n >= 1 /\ h = b[1]
    BY EmptySeq
  <2>2. b = SubSeq(b, 1, n)
    BY SubSeqFull
  <2>3. SubSeq(b, 1, n) = <<b[1]>> \o SubSeq(b, 1 + 1, n)
    <3>1. 1 \in 1..Len(b) /\ n \in 1..Len(b)
      BY <2>1
    <3> HIDE DEF n
    <3> QED BY <3>1, SubSeqRecursiveFirst
  <2>4. t = SubSeq(b, 1 + 1, n)
    BY TailIsSubSeq
  <2> QED BY <2>1, <2>2, <2>3, <2>4
<1>3. Append(s, h) = s \o w
  BY <1>1, AppendIsConcat
<1> HIDE DEF h, w, t
<1>4. t \o r \in Seq(S) /\ w \o (t \o r) \in Seq(S) /\ s \o w \in Seq(S)
  BY <1>1, ConcatProperties
<1>5. (w \o t) \o r = w \o (t \o r)
  BY <1>1, ConcatAssociative
<1>6. box = s \o (w \o (t \o r))
  <2>1. (s \o b) \o r = s \o (b \o r)
    BY ConcatAssociative
  <2> QED BY <1>2, <1>5, <2>1
<1>7. ((s \o w) \o t) \o r = box
  <2> DEFINE x == s \o w
             y == t \o r
  <2>1. x \in Seq(S) /\ y \in Seq(S)
    BY <1>4
  <2>2. x \o y = s \o (w \o y)
    <3> HIDE DEF y
    <3> QED BY <1>1, <2>1, ConcatAssociative
  <2>3. (x \o t) \o r = x \o y
    <3> HIDE DEF x
    <3> QED BY <1>1, <2>1, ConcatAssociative
  <2> QED BY <1>6, <2>2, <2>3
<1>8. /\ box \in Seq(S)
      /\ Len(s) + 1 \in 1..Len(box) /\ box[Len(s) + 1] = h
      /\ \A j \in 1..Len(s) : box[j] = s[j]
      /\ SubSeq(box, 1, Len(s)) = s
      /\ SubSeq(box, Len(s) + 2, Len(box)) = t \o r
  <2> DEFINE u == t \o r
  <2>1. box = s \o (<<h>> \o u) /\ u \in Seq(S)
    BY <1>4, <1>6 DEF w
  <2> HIDE DEF u
  <2>2. /\ box \in Seq(S)
        /\ Len(s) + 1 \in 1..Len(box) /\ box[Len(s) + 1] = h
        /\ \A j \in 1..Len(s) : box[j] = s[j]
        /\ SubSeq(box, 1, Len(s)) = s
        /\ SubSeq(box, Len(s) + 2, Len(box)) = u
    BY <1>1, <2>1, Cut
  <2> QED BY <2>2 DEF u
<1> QED BY <1>3, <1>7, <1>8 DEF h, t

\* What is put at the back of the queue is put at the back of the inbox.
LEMMA AppendBehind ==
    ASSUME NEW S, NEW x \in Seq(S), NEW y \in Seq(S), NEW e \in S
    PROVE  x \o Append(y, e) = Append(x \o y, e)
<1> DEFINE w == <<e>>
           z == x \o y
<1>1. w \in Seq(S) /\ z \in Seq(S)
  BY ConcatProperties
<1>2. Append(y, e) = y \o w /\ Append(z, e) = z \o w
  BY <1>1, AppendIsConcat
<1>3. x \o (y \o w) = z \o w
  <2> HIDE DEF w
  <2> QED BY <1>1, ConcatAssociative
<1> QED BY <1>2, <1>3

----------------------------------------------------------------------------
(* Types.                                                                   *)

\* The inductive invariant: what the call going on has skipped it does not
\* want, and between calls nothing is held back.
Skips ==
    IF waiting THEN \A i \in 1..Len(mid) : mid[i].kind \notin wants ELSE mid = <<>>
Inv == TypeOK /\ Skips

LEMMA InitInv == Init => Inv
<1> SUFFICES ASSUME Init PROVE Inv
  OBVIOUS
<1>1. <<>> \in Seq(M!Letter)
  BY EmptySeq
<1>2. 0 \in 0..MaxPuts /\ 0 \in 0..MaxCalls
  BY ReceiveAssumption
<1>3. TypeOK
  BY <1>1, <1>2 DEF Init, TypeOK, M!Timeouts
<1>4. Skips
  BY DEF Init, Skips
<1> QED BY <1>3, <1>4 DEF Inv

\* A turn of the loop that looks at the first message of b, in the buffer or
\* in the queue, keeps the types.
LEMMA ExamineTypes ==
    ASSUME TypeOK, NEW b \in Seq(M!Letter), b # <<>>,
           NEW rest \in Seq(M!Letter), Examine(Head(b), rest)
    PROVE  /\ q_buffer' \in Seq(M!Letter) /\ mid' \in Seq(M!Letter)
           /\ waiting' \in BOOLEAN
           /\ outcome' \in M!Letter \cup {M!Nothing, M!TimedOut}
<1> DEFINE h == Head(b)
<1>1. h \in M!Letter /\ <<>> \in Seq(M!Letter) /\ mid \in Seq(M!Letter)
  BY HeadTailProperties, EmptySeq DEF TypeOK
<1> HIDE DEF h
<1>2. mid \o rest \in Seq(M!Letter) /\ Append(mid, h) \in Seq(M!Letter)
  BY <1>1, ConcatProperties, AppendProperties
<1>3. CASE Matched(h, rest)
  BY <1>1, <1>2, <1>3 DEF Matched, PutBack
<1>4. CASE Skipped(h, rest)
  BY <1>2, <1>4 DEF Skipped, TypeOK
<1>5. CASE Raised(h, rest)
  BY <1>1, <1>5 DEF Raised, TypeOK
<1> QED BY <1>3, <1>4, <1>5 DEF Examine, h

LEMMA NextTypes == TypeOK /\ [Next]_vars => TypeOK'
<1> SUFFICES ASSUME TypeOK, [Next]_vars PROVE TypeOK'
  OBVIOUS
<1> USE ReceiveAssumption
<1>1. CASE Put
  <2>1. PICK k \in Kind : q' = Append(q, [id |-> puts + 1, kind |-> k])
    BY <1>1 DEF Put
  <2>2. [id |-> puts + 1, kind |-> k] \in M!Letter
    BY <1>1 DEF Put, TypeOK, M!Letter
  <2>3. q' \in Seq(M!Letter)
    BY <2>1, <2>2, AppendProperties DEF TypeOK
  <2> QED BY <1>1, <2>3 DEF Put, TypeOK
<1>2. CASE Call
  <2>1. <<>> \in Seq(M!Letter)
    BY EmptySeq
  <2> QED BY <1>2, <2>1 DEF Call, TypeOK
<1>3. CASE FromBuffer
  <2>1. /\ q_buffer \in Seq(M!Letter) /\ q_buffer # <<>>
        /\ Tail(q_buffer) \in Seq(M!Letter)
    BY <1>3, HeadTailProperties DEF FromBuffer, TypeOK
  <2> QED BY <1>3, <2>1, ExamineTypes DEF FromBuffer, TypeOK
<1>4. CASE FromQueue
  <2>1. /\ q \in Seq(M!Letter) /\ q # <<>>
        /\ Tail(q) \in Seq(M!Letter) /\ <<>> \in Seq(M!Letter)
    BY <1>4, HeadTailProperties, EmptySeq DEF FromQueue, TypeOK
  <2> QED BY <1>4, <2>1, ExamineTypes DEF FromQueue, TypeOK
<1>5. CASE TimesOut
  <2>1. <<>> \in Seq(M!Letter) /\ mid \o <<>> \in Seq(M!Letter)
    BY EmptySeq, ConcatProperties DEF TypeOK
  <2> QED BY <1>5, <2>1 DEF TimesOut, PutBack, TypeOK
<1>6. CASE UNCHANGED vars
  BY <1>6 DEF vars, TypeOK
<1> QED BY <1>1, <1>2, <1>3, <1>4, <1>5, <1>6 DEF Next, Turn

LEMMA ExamineSkips ==
    ASSUME Inv, waiting, NEW h, NEW rest, wants' = wants, Examine(h, rest),
           h \in M!Letter
    PROVE  Skips'
<1>1. CASE Matched(h, rest)
  BY <1>1 DEF Matched, Skips
<1>2. CASE Raised(h, rest)
  BY <1>2 DEF Raised, Skips
<1>3. CASE Skipped(h, rest)
  <2>1. mid \in Seq(M!Letter) /\ \A i \in 1..Len(mid) : mid[i].kind \notin wants
    BY DEF Inv, TypeOK, Skips
  <2>2. /\ Len(mid') = Len(mid) + 1 /\ Len(mid) \in Nat
        /\ \A i \in 1..Len(mid) : mid'[i] = mid[i]
        /\ mid'[Len(mid) + 1] = h
    BY <1>3, <2>1, AppendProperties, LenProperties DEF Skipped
  <2>3. h.kind \notin wants /\ waiting'
    BY <1>3 DEF Skipped
  <2>4. ASSUME NEW i \in 1..Len(mid')
        PROVE  mid'[i].kind \notin wants
    <3>1. i \in 1..Len(mid) \/ i = Len(mid) + 1
      BY <2>2
    <3> QED BY <2>1, <2>2, <2>3, <3>1
  <2> QED BY <2>3, <2>4 DEF Skips
<1> QED BY <1>1, <1>2, <1>3 DEF Examine

LEMMA NextSkips == Inv /\ [Next]_vars => Skips'
<1> SUFFICES ASSUME Inv, [Next]_vars PROVE Skips'
  OBVIOUS
<1>1. CASE Put
  BY <1>1 DEF Put, Inv, Skips
<1>2. CASE Call
  <2>1. mid' = <<>> /\ Len(mid') = 0 /\ waiting'
    BY <1>2 DEF Call
  <2> QED BY <2>1 DEF Skips
<1>3. CASE FromBuffer
  <2>1. Head(q_buffer) \in M!Letter
    BY <1>3, HeadTailProperties DEF FromBuffer, Inv, TypeOK
  <2> QED BY <1>3, <2>1, ExamineSkips DEF FromBuffer
<1>4. CASE FromQueue
  <2>1. Head(q) \in M!Letter
    BY <1>4, HeadTailProperties DEF FromQueue, Inv, TypeOK
  <2> QED BY <1>4, <2>1, ExamineSkips DEF FromQueue
<1>5. CASE TimesOut
  BY <1>5 DEF TimesOut, Skips
<1>6. CASE UNCHANGED vars
  BY <1>6 DEF vars, Inv, Skips
<1> QED BY <1>1, <1>2, <1>3, <1>4, <1>5, <1>6 DEF Next, Turn

LEMMA AlwaysInv == Spec => []Inv
<1>1. Inv /\ [Next]_vars => Inv'
  BY NextTypes, NextSkips DEF Inv
<1> QED BY InitInv, <1>1, PTL DEF Spec

\* The queue and both buffers hold messages, and a call that has returned or
\* raised leaves none in its own buffer.
THEOREM TypesCorrect == Spec => []TypeOK
<1>1. Inv => TypeOK
  BY DEF Inv
<1> QED BY AlwaysInv, <1>1, PTL

----------------------------------------------------------------------------
(* The refinement.                                                          *)

LEMMA Regroup ==
    ASSUME NEW x \in Seq(M!Letter), NEW y \in Seq(M!Letter), NEW z \in Seq(M!Letter)
    PROVE  x \o (y \o z) = (x \o y) \o z
BY ConcatAssociative

\* The wanted first message of b, behind what the call has skipped, is the
\* message the mailbox takes.
LEMMA Takes ==
    ASSUME Inv, waiting, NEW b \in Seq(M!Letter), NEW r \in Seq(M!Letter), b # <<>>,
           Inbox = (mid \o b) \o r, Inbox' = (mid \o Tail(b)) \o r,
           Head(b).kind \in wants, M!Return(Head(b)), puts' = puts
    PROVE  M!Take
<1> DEFINE i == Len(mid) + 1
<1>1. mid \in Seq(M!Letter) /\ \A j \in 1..Len(mid) : mid[j].kind \notin wants
  BY DEF Inv, TypeOK, Skips
<1>2. /\ Inbox \in Seq(M!Letter)
      /\ i \in 1..Len(Inbox) /\ Inbox[i] = Head(b)
      /\ \A j \in 1..Len(mid) : Inbox[j] = mid[j]
      /\ M!RemoveAt(Inbox, i) = Inbox'
  <2> DEFINE box == Inbox
  <2>1. box = (mid \o b) \o r
    OBVIOUS
  <2> HIDE DEF box
  <2> HIDE DEF i
  <2>2. /\ box \in Seq(M!Letter)
        /\ Len(mid) + 1 \in 1..Len(box) /\ box[Len(mid) + 1] = Head(b)
        /\ \A j \in 1..Len(mid) : box[j] = mid[j]
    BY <1>1, <2>1, Middle
  <2>3. /\ SubSeq(box, 1, Len(mid)) = mid
        /\ SubSeq(box, Len(mid) + 2, Len(box)) = Tail(b) \o r
    BY <1>1, <2>1, Middle
  <2>4. Len(mid) \in Nat /\ i - 1 = Len(mid) /\ i + 1 = Len(mid) + 2
    BY <1>1, LenProperties DEF i
  <2>5. mid \o (Tail(b) \o r) = (mid \o Tail(b)) \o r
    <3> DEFINE t == Tail(b)
    <3>1. t \in Seq(M!Letter) /\ mid \in Seq(M!Letter)
      BY <1>1, HeadTailProperties
    <3> HIDE DEF t
    <3>2. mid \o (t \o r) = (mid \o t) \o r
      BY <3>1, Regroup, Zenon
    <3> QED BY <3>2 DEF t
  <2>6. M!RemoveAt(box, i) = (mid \o Tail(b)) \o r
    BY <2>3, <2>4, <2>5 DEF M!RemoveAt
  <2> QED BY <2>2, <2>6 DEF box, i
<1>3. i - 1 = Len(mid) /\ DOMAIN Inbox = 1..Len(Inbox)
  BY <1>1, <1>2, LenProperties
<1> HIDE DEF i
<1>4. /\ i \in DOMAIN Inbox
      /\ Inbox[i].kind \in wants
      /\ \A j \in 1..(i - 1) : Inbox[j].kind \notin wants
      /\ Inbox' = M!RemoveAt(Inbox, i)
      /\ M!Return(Inbox[i])
  BY <1>1, <1>2, <1>3
<1> QED BY <1>4 DEF M!Take

\* A match function that raises on the first message of b takes it and what
\* was skipped out of the mailbox.
LEMMA Aborts ==
    ASSUME Inv, waiting, NEW b \in Seq(M!Letter), NEW r \in Seq(M!Letter), b # <<>>,
           Inbox = (mid \o b) \o r, Inbox' = Tail(b) \o r,
           Head(b).kind \in Raising, M!Return(outcome), puts' = puts
    PROVE  M!Abort
<1> DEFINE i == Len(mid) + 1
<1>1. mid \in Seq(M!Letter) /\ \A j \in 1..Len(mid) : mid[j].kind \notin wants
  BY DEF Inv, TypeOK, Skips
<1>2. /\ Inbox \in Seq(M!Letter)
      /\ i \in 1..Len(Inbox) /\ Inbox[i] = Head(b)
      /\ \A j \in 1..Len(mid) : Inbox[j] = mid[j]
      /\ SubSeq(Inbox, Len(mid) + 2, Len(Inbox)) = Inbox'
  <2> DEFINE box == Inbox
  <2>1. box = (mid \o b) \o r
    OBVIOUS
  <2> HIDE DEF box
  <2> HIDE DEF i
  <2>2. /\ box \in Seq(M!Letter)
        /\ Len(mid) + 1 \in 1..Len(box) /\ box[Len(mid) + 1] = Head(b)
        /\ \A j \in 1..Len(mid) : box[j] = mid[j]
    BY <1>1, <2>1, Middle
  <2>3. SubSeq(box, Len(mid) + 2, Len(box)) = Tail(b) \o r
    BY <1>1, <2>1, Middle
  <2> QED BY <2>2, <2>3 DEF box, i
<1>3. i - 1 = Len(mid) /\ i + 1 = Len(mid) + 2 /\ DOMAIN Inbox = 1..Len(Inbox)
  BY <1>1, <1>2, LenProperties
<1> HIDE DEF i
<1>4. /\ i \in DOMAIN Inbox
      /\ Inbox[i].kind \in Raising
      /\ \A j \in 1..(i - 1) : Inbox[j].kind \notin wants
      /\ Inbox' = SubSeq(Inbox, i + 1, Len(Inbox))
  BY <1>1, <1>2, <1>3
<1> QED BY <1>4 DEF M!Abort

\* A turn of the loop on the first message of b: the message is taken, or
\* skipped, which the mailbox does not see, or the match function raises.
\* A call that raises on its timeout loses what it has skipped and no more.
LEMMA AbortsLate ==
    ASSUME Inv, waiting, timeout # "never", "timeout" \in Raising,
           timeout = "zero" => q = <<>>,
           Inbox = mid \o q, Inbox' = q, M!Return(outcome), puts' = puts
    PROVE  M!AbortLate
<1> DEFINE n == Len(mid)
           box == Inbox
<1>1. mid \in Seq(M!Letter) /\ q \in Seq(M!Letter) /\ \A j \in 1..n : mid[j].kind \notin wants
  BY DEF Inv, TypeOK, Skips
<1>2. box = mid \o q
  OBVIOUS
<1> HIDE DEF box
<1>3. /\ box \in Seq(M!Letter) /\ Len(box) = n + Len(q) /\ n \in Nat /\ Len(q) \in Nat
      /\ \A j \in 1..n : box[j] = mid[j]
  BY <1>1, <1>2, Joined
<1>4. SubSeq(box, n + 1, Len(box)) = q
  <2>1. CASE Len(q) = 0
    <3>1. q = <<>>
      BY <1>1, <2>1, EmptySeq
    <3>2. n + 1 \in Int /\ Len(box) \in Int /\ Len(box) < n + 1
      BY <1>3, <2>1
    <3> QED BY <3>1, <3>2, SubSeqEmpty
  <2>2. CASE Len(q) # 0
    <3> DEFINE m == n + 1
               l == Len(box)
    <3>1. /\ m \in (Len(mid) + 1)..(Len(mid) + Len(q))
          /\ l \in (Len(mid) + 1)..(Len(mid) + Len(q))
          /\ m - Len(mid) = 1 /\ l - Len(mid) = Len(q)
      BY <1>3, <2>2
    <3> HIDE DEF m, l
    <3>2. SubSeq(mid \o q, m, l) = SubSeq(q, m - Len(mid), l - Len(mid))
      BY <1>1, <3>1, SubSeqOfConcat2
    <3> QED BY <1>1, <1>2, <3>1, <3>2, SubSeqFull DEF m, l
  <2> QED BY <2>1, <2>2
<1>5. timeout = "zero" => n = Len(box)
  <2> SUFFICES ASSUME timeout = "zero" PROVE n = Len(box)
    OBVIOUS
  <2>1. Len(q) = 0
    BY EmptySeq
  <2> QED BY <1>3, <2>1
<1>6. n \in 0..Len(box) /\ \A j \in 1..n : box[j].kind \notin wants
  BY <1>1, <1>3
<1> HIDE DEF n
<1>7. \E k \in 0..Len(box) :
        /\ \A j \in 1..k : box[j].kind \notin wants
        /\ timeout = "zero" => k = Len(box)
        /\ Inbox' = SubSeq(box, k + 1, Len(box))
  BY <1>4, <1>5, <1>6
<1> QED BY <1>7 DEF M!AbortLate, box

LEMMA Examined ==
    ASSUME Inv, waiting, NEW b \in Seq(M!Letter), NEW r \in Seq(M!Letter), b # <<>>,
           NEW rest \in Seq(M!Letter), Examine(Head(b), rest),
           Inbox = (mid \o b) \o r,
           \A s \in Seq(M!Letter) : (s \o rest) \o q' = (s \o Tail(b)) \o r,
           UNCHANGED <<puts, calls, wants, timeout>>
    PROVE  [M!Next]_M!vars
<1> DEFINE h == Head(b)
<1>1. /\ mid \in Seq(M!Letter) /\ <<>> \in Seq(M!Letter) /\ h \in M!Letter
      /\ Tail(b) \in Seq(M!Letter)
  BY HeadTailProperties, EmptySeq DEF Inv, TypeOK
<1>2. Inbox' = (mid' \o q_buffer') \o q'
  BY DEF Inbox
<1>3. CASE Matched(h, rest)
  <2> DEFINE x == mid \o rest
  <2>1. mid' = <<>> /\ q_buffer' = x /\ x \in Seq(M!Letter)
    BY <1>1, <1>3, ConcatProperties DEF Matched, PutBack
  <2> HIDE DEF x
  <2>2. mid' \o q_buffer' = x
    BY <2>1, ConcatEmptySeq
  <2>3. x \o q' = (mid \o Tail(b)) \o r
    BY <1>1 DEF x
  <2>4. Inbox' = (mid \o Tail(b)) \o r
    BY <1>2, <2>2, <2>3
  <2>5. h.kind \in wants /\ M!Return(h) /\ puts' = puts
    BY <1>3 DEF Matched, M!Return
  <2>6. M!Take
    BY <2>4, <2>5, Takes
  <2> QED BY <2>6 DEF M!Next
<1>4. CASE Skipped(h, rest)
  <2> DEFINE x == Append(mid, h)
  <2>1. mid' = x /\ q_buffer' = rest /\ x \in Seq(M!Letter)
    BY <1>1, <1>4, AppendProperties DEF Skipped
  <2>2. (x \o Tail(b)) \o r = Inbox
    <3> DEFINE box == Inbox
    <3>1. box = (mid \o b) \o r
      OBVIOUS
    <3> HIDE DEF box
    <3>2. (x \o Tail(b)) \o r = box
      BY <1>1, <3>1, Middle
    <3> QED BY <3>2 DEF box
  <2> HIDE DEF x
  <2>3. (x \o rest) \o q' = (x \o Tail(b)) \o r
    BY <2>1
  <2>4. Inbox' = Inbox
    BY <1>2, <2>1, <2>2, <2>3
  <2> QED BY <1>4, <2>4 DEF Skipped, M!vars, M!callVars
<1>5. CASE Raised(h, rest)
  <2>1. mid' = <<>> /\ q_buffer' = rest
    BY <1>5 DEF Raised
  <2>2. (<<>> \o rest) \o q' = (<<>> \o Tail(b)) \o r
    BY <1>1
  <2>3. <<>> \o Tail(b) = Tail(b)
    BY <1>1, ConcatEmptySeq
  <2>4. Inbox' = Tail(b) \o r
    BY <1>2, <2>1, <2>2, <2>3
  <2>5. h.kind \in Raising /\ M!Return(outcome) /\ puts' = puts
    BY <1>5 DEF Raised, M!Return
  <2>6. M!Abort
    BY <2>4, <2>5, Aborts
  <2> QED BY <2>6 DEF M!Next
<1> QED BY <1>3, <1>4, <1>5 DEF Examine

LEMMA StepRefines == Inv /\ [Next]_vars => [M!Next]_M!vars
<1> SUFFICES ASSUME Inv, [Next]_vars PROVE [M!Next]_M!vars
  OBVIOUS
<1>1. /\ mid \in Seq(M!Letter) /\ q_buffer \in Seq(M!Letter) /\ q \in Seq(M!Letter)
      /\ mid \o q_buffer \in Seq(M!Letter) /\ <<>> \in Seq(M!Letter)
      /\ Inbox = (mid \o q_buffer) \o q
      /\ Inbox' = (mid' \o q_buffer') \o q'
  BY ConcatProperties, EmptySeq DEF Inv, TypeOK, Inbox
<1>2. CASE Put
  <2>1. PICK k \in Kind : q' = Append(q, [id |-> puts + 1, kind |-> k])
    BY <1>2 DEF Put
  <2> DEFINE e == [id |-> puts + 1, kind |-> k]
             x == mid \o q_buffer
  <2>2. e \in M!Letter /\ x \in Seq(M!Letter)
    BY <1>1, <1>2, ReceiveAssumption DEF Put, Inv, TypeOK, M!Letter
  <2>3. Inbox' = x \o Append(q, e) /\ Inbox = x \o q
    BY <1>1, <1>2, <2>1 DEF Put
  <2> HIDE DEF e, x
  <2>4. Inbox' = Append(Inbox, e)
    BY <1>1, <2>2, <2>3, AppendBehind
  <2>5. M!Arrive
    BY <1>2, <2>4 DEF Put, M!Arrive, M!callVars, e
  <2> QED BY <2>5 DEF M!Next
<1>3. CASE Call
  <2>1. mid = <<>> /\ mid' = <<>> /\ q_buffer' = q_buffer /\ q' = q
    BY <1>3 DEF Call, Inv, Skips
  <2>2. Inbox' = Inbox
    BY <1>1, <2>1
  <2>3. M!Call
    BY <1>3, <2>2 DEF Call, M!Call
  <2> QED BY <2>3 DEF M!Next
<1>4. CASE FromBuffer
  <2> DEFINE b == q_buffer
             rest == Tail(q_buffer)
  <2>1. /\ waiting /\ b # <<>> /\ Examine(Head(b), rest) /\ q' = q
        /\ UNCHANGED <<puts, calls, wants, timeout>>
        /\ b \in Seq(M!Letter) /\ rest \in Seq(M!Letter) /\ rest = Tail(b)
    BY <1>1, <1>4, HeadTailProperties DEF FromBuffer
  <2>2. Inbox = (mid \o b) \o q
    BY <1>1
  <2>3. \A s \in Seq(M!Letter) : (s \o rest) \o q' = (s \o Tail(b)) \o q
    BY <2>1
  <2> HIDE DEF b, rest
  <2> QED BY <1>1, <2>1, <2>2, <2>3, Examined
<1>5. CASE FromQueue
  <2> DEFINE t == Tail(q)
  <2>1. /\ waiting /\ q # <<>> /\ q_buffer = <<>> /\ q' = t
        /\ Examine(Head(q), <<>>)
        /\ UNCHANGED <<puts, calls, wants, timeout>>
        /\ t \in Seq(M!Letter) /\ t = Tail(q)
    BY <1>1, <1>5, HeadTailProperties DEF FromQueue
  <2> HIDE DEF t
  <2>2. Inbox = (mid \o q) \o <<>>
    <3> DEFINE y == mid \o q
    <3>1. y \in Seq(M!Letter)
      BY <1>1, ConcatProperties
    <3>2. mid \o q_buffer = mid
      BY <1>1, <2>1, ConcatEmptySeq
    <3>3. Inbox = y
      BY <1>1, <3>2
    <3> HIDE DEF y
    <3>4. y \o <<>> = y
      BY <3>1, ConcatEmptySeq
    <3> QED BY <3>3, <3>4 DEF y
  <2>3. ASSUME NEW s \in Seq(M!Letter)
        PROVE  (s \o <<>>) \o q' = (s \o Tail(q)) \o <<>>
    <3> DEFINE y == s \o t
    <3>1. y \in Seq(M!Letter)
      BY <2>1, ConcatProperties
    <3>2. s \o <<>> = s
      BY ConcatEmptySeq
    <3> HIDE DEF y
    <3>3. y \o <<>> = y
      BY <3>1, ConcatEmptySeq
    <3> QED BY <2>1, <3>2, <3>3 DEF y
  <2> DEFINE e == <<>>
  <2>4. /\ waiting /\ q \in Seq(M!Letter) /\ e \in Seq(M!Letter) /\ q # <<>>
        /\ Examine(Head(q), e)
        /\ Inbox = (mid \o q) \o e
        /\ UNCHANGED <<puts, calls, wants, timeout>>
    BY <1>1, <2>1, <2>2
  <2>5. \A s \in Seq(M!Letter) : (s \o e) \o q' = (s \o Tail(q)) \o e
    BY <2>3
  <2> HIDE DEF e
  <2> QED BY <2>4, <2>5, Examined
<1>6. CASE TimesOut
  <2>1. /\ waiting /\ q_buffer = <<>> /\ mid' = <<>> /\ q' = q
        /\ timeout # "never" /\ puts' = puts /\ (timeout = "zero" => q = <<>>)
    BY <1>6 DEF TimesOut, OutOfTime
  <2>2. mid \o <<>> = mid /\ <<>> \o q = q
    BY <1>1, ConcatEmptySeq
  <2>3. Inbox = mid \o q
    BY <1>1, <2>1, <2>2
  <2>4. CASE q_buffer' = PutBack(<<>>) /\ outcome' = M!TimedOut
    <3>1. Inbox' = mid \o q
      <4>1. q_buffer' = mid
        BY <2>2, <2>4 DEF PutBack
      <4>2. <<>> \o mid = mid
        BY <1>1, ConcatEmptySeq
      <4> QED BY <1>1, <2>1, <4>1, <4>2
    <3>2. M!Return(M!TimedOut)
      BY <1>6, <2>4 DEF TimesOut, M!Return
    <3>3. ASSUME timeout = "zero"
          PROVE  \A i \in DOMAIN Inbox : Inbox[i].kind \notin wants
      <4>1. Inbox = mid
        BY <2>1, <2>2, <2>3, <3>3, ConcatEmptySeq, <1>1
      <4>2. DOMAIN Inbox = 1..Len(mid)
        BY <1>1, <4>1, LenProperties
      <4> QED BY <2>1, <4>1, <4>2 DEF Inv, Skips
    <3>4. M!GiveUp
      BY <2>1, <2>3, <3>1, <3>2, <3>3 DEF M!GiveUp
    <3> QED BY <3>4 DEF M!Next
  <2>5. CASE "timeout" \in Raising /\ UNCHANGED <<q_buffer, outcome>>
    <3>1. Inbox' = q
      <4>1. <<>> \o <<>> = <<>>
        BY <1>1, ConcatEmptySeq
      <4> QED BY <1>1, <2>1, <2>2, <2>5, <4>1
    <3>2. M!Return(outcome)
      BY <1>6, <2>5 DEF TimesOut, M!Return
    <3>3. M!AbortLate
      BY <2>1, <2>3, <2>5, <3>1, <3>2, AbortsLate
    <3> QED BY <3>3 DEF M!Next
  <2> QED BY <1>6, <2>4, <2>5 DEF TimesOut
<1>7. CASE UNCHANGED vars
  <2>1. Inbox' = Inbox
    BY <1>1, <1>7 DEF vars
  <2> QED BY <1>7, <2>1 DEF vars, M!vars, M!callVars
<1> QED BY <1>2, <1>3, <1>4, <1>5, <1>6, <1>7 DEF Next, Turn

LEMMA InitRefines == Init => M!Init
<1> SUFFICES ASSUME Init PROVE M!Init
  OBVIOUS
<1>1. mid = <<>> /\ q_buffer = <<>> /\ q = <<>>
  BY DEF Init
<1>2. Inbox = <<>>
  <2>1. <<>> \o <<>> = <<>>
    BY EmptySeq, ConcatEmptySeq
  <2> QED BY <1>1, <2>1 DEF Inbox
<1> QED BY <1>2 DEF Init, M!Init

\* The queue and the two buffers are one mailbox: every turn of the loop takes
\* the oldest wanted message, gives up, raises, or changes nothing the caller
\* can see.
THEOREM RefinesMailbox == Spec => ImplementsMailbox
<1>1. Spec => M!Init /\ [][M!Next]_M!vars
  BY AlwaysInv, InitRefines, StepRefines, PTL DEF Spec
<1> QED BY <1>1 DEF ImplementsMailbox, M!Spec

----------------------------------------------------------------------------
(* The order of arrival.                                                    *)

\* The elements of a part of a sequence.
LEMMA Part ==
    ASSUME NEW S, NEW box \in Seq(S), NEW m \in Nat \ {0}, NEW n \in Nat,
           n <= Len(box), m <= n + 1
    PROVE  /\ SubSeq(box, m, n) \in Seq(S)
           /\ Len(SubSeq(box, m, n)) = n - m + 1
           /\ \A j \in 1..(n - m + 1) : SubSeq(box, m, n)[j] = box[m + j - 1]
<1>1. \A j \in m..n : box[j] \in S
  BY ElementOfSeq, LenProperties
<1>2. m \in Int /\ n \in Int
  OBVIOUS
<1>3. /\ SubSeq(box, m, n) \in Seq(S)
      /\ Len(SubSeq(box, m, n)) = IF m <= n THEN n - m + 1 ELSE 0
  BY <1>1, <1>2, SubSeqProperties
<1>4. \A j \in 1..(n - m + 1) : SubSeq(box, m, n)[j] = box[m + j - 1]
  BY <1>1, <1>2, SubSeqProperties
<1> QED BY <1>3, <1>4

LEMMA Removed ==
    ASSUME NEW S, NEW box \in Seq(S), NEW i \in 1..Len(box),
           NEW t, t = M!RemoveAt(box, i)
    PROVE  /\ t \in Seq(S)
           /\ \A j \in 1..Len(t) :
                 /\ j < i => j \in 1..Len(box) /\ t[j] = box[j]
                 /\ j >= i => j + 1 \in 1..Len(box) /\ t[j] = box[j + 1]
<1> DEFINE n == Len(box)
           k == i - 1
           l == i + 1
           u == SubSeq(box, 1, k)
           v == SubSeq(box, l, n)
<1>1. n \in Nat /\ i \in 1..n /\ k \in Nat /\ l \in Nat \ {0} /\ k <= n /\ l <= n + 1
      /\ k = i - 1 /\ l = i + 1 /\ 1 \in Nat \ {0} /\ 1 <= k + 1 /\ n <= n /\ n = Len(box)
  BY LenProperties
<1>2. t = u \o v
  BY DEF M!RemoveAt
<1> HIDE DEF n, k, l
<1>3. /\ u \in Seq(S) /\ Len(u) = k - 1 + 1
      /\ \A j \in 1..(k - 1 + 1) : u[j] = box[1 + j - 1]
  BY <1>1, Part
<1>4. /\ v \in Seq(S) /\ Len(v) = n - l + 1
      /\ \A j \in 1..(n - l + 1) : v[j] = box[l + j - 1]
  BY <1>1, Part
<1> HIDE DEF u, v
<1>5. t \in Seq(S) /\ Len(t) = Len(u) + Len(v)
  BY <1>2, <1>3, <1>4, ConcatProperties
<1>6. ASSUME NEW j \in 1..Len(t)
      PROVE  t[j] = IF j <= Len(u) THEN u[j] ELSE v[j - Len(u)]
  <2>1. u \in Seq(S) /\ v \in Seq(S) /\ j \in 1..(Len(u) + Len(v))
    BY <1>3, <1>4, <1>5
  <2>2. (u \o v)[j] = IF j <= Len(u) THEN u[j] ELSE v[j - Len(u)]
    BY <2>1, ConcatProperties
  <2> QED BY <1>2, <2>2
<1>7. ASSUME NEW j \in 1..Len(t), j < i
      PROVE  j \in 1..Len(box) /\ t[j] = box[j]
  <2>1. j <= Len(u) /\ j \in 1..(k - 1 + 1) /\ 1 + j - 1 = j /\ j \in 1..n
    BY <1>1, <1>3, <1>4, <1>5, <1>7
  <2>2. u[j] = box[j]
    BY <1>3, <2>1
  <2> QED BY <1>1, <1>6, <2>1, <2>2
<1>8. ASSUME NEW j \in 1..Len(t), j >= i
      PROVE  j + 1 \in 1..Len(box) /\ t[j] = box[j + 1]
  <2> DEFINE x == j - Len(u)
  <2>1. /\ ~(j <= Len(u)) /\ x \in 1..(n - l + 1) /\ l + x - 1 = j + 1 /\ j + 1 \in 1..n
    BY <1>1, <1>3, <1>4, <1>5, <1>8
  <2>2. t[j] = v[x]
    BY <1>6, <2>1
  <2> HIDE DEF x
  <2>3. v[x] = box[l + x - 1]
    BY <1>4, <2>1
  <2> QED BY <1>1, <2>1, <2>2, <2>3
<1> QED BY <1>5, <1>7, <1>8

\* The mailbox is in order of arrival, and nothing in it is yet to arrive.
Ordered(box) == \A i, j \in 1..Len(box) : i < j => box[i].id < box[j].id
Arrived(box, n) == \A i \in 1..Len(box) : box[i].id <= n

LEMMA RemovedOrdered ==
    ASSUME NEW box \in Seq(M!Letter), NEW i \in 1..Len(box), NEW n \in Nat,
           Ordered(box), Arrived(box, n), NEW t, t = M!RemoveAt(box, i)
    PROVE  t \in Seq(M!Letter) /\ Ordered(t) /\ Arrived(t, n)
<1>1. /\ t \in Seq(M!Letter) /\ Len(t) \in Nat /\ Len(box) \in Nat
      /\ \A j \in 1..Len(t) :
            /\ j < i => j \in 1..Len(box) /\ t[j] = box[j]
            /\ j >= i => j + 1 \in 1..Len(box) /\ t[j] = box[j + 1]
  BY Removed, LenProperties
<1>2. ASSUME NEW j \in 1..Len(t), NEW k \in 1..Len(t), j < k
      PROVE  t[j].id < t[k].id
  <2>1. CASE k < i
    BY <1>1, <1>2, <2>1 DEF Ordered
  <2>2. CASE j < i /\ k >= i
    <3>1. j < k + 1
      BY <1>2
    <3> QED BY <1>1, <2>2, <3>1 DEF Ordered
  <2>3. CASE j >= i
    <3>1. k >= i /\ j + 1 < k + 1
      BY <1>2, <2>3
    <3> QED BY <1>1, <2>3, <3>1 DEF Ordered
  <2> QED BY <1>2, <2>1, <2>2, <2>3
<1>3. ASSUME NEW j \in 1..Len(t)
      PROVE  t[j].id <= n
  <2>1. j < i \/ j >= i
    OBVIOUS
  <2> QED BY <1>1, <2>1 DEF Arrived
<1> QED BY <1>1, <1>2, <1>3 DEF Ordered, Arrived

LEMMA RestOrdered ==
    ASSUME NEW box \in Seq(M!Letter), NEW i \in 0..Len(box), NEW n \in Nat,
           Ordered(box), Arrived(box, n), NEW t, t = SubSeq(box, i + 1, Len(box))
    PROVE  t \in Seq(M!Letter) /\ Ordered(t) /\ Arrived(t, n)
<1> DEFINE l == Len(box)
           m == i + 1
<1>1. l \in Nat /\ m \in Nat \ {0} /\ l <= Len(box) /\ m <= l + 1 /\ m = i + 1 /\ l = Len(box)
  BY LenProperties
<1> HIDE DEF l, m
<1>2. /\ t \in Seq(M!Letter) /\ Len(t) = l - m + 1
      /\ \A j \in 1..(l - m + 1) : t[j] = box[m + j - 1]
  BY <1>1, Part
<1>3. ASSUME NEW j \in 1..Len(t)
      PROVE  i + j \in 1..Len(box) /\ t[j] = box[i + j]
  <2>1. m + j - 1 = i + j /\ j \in 1..(l - m + 1) /\ i + j \in 1..Len(box)
    BY <1>1, <1>2
  <2> QED BY <1>2, <2>1
<1>4. ASSUME NEW j \in 1..Len(t), NEW k \in 1..Len(t), j < k
      PROVE  t[j].id < t[k].id
  <2>1. i + j < i + k
    BY <1>4
  <2> QED BY <1>3, <2>1 DEF Ordered
<1>5. ASSUME NEW j \in 1..Len(t)
      PROVE  t[j].id <= n
  BY <1>3 DEF Arrived
<1> QED BY <1>2, <1>4, <1>5 DEF Ordered, Arrived

OrderInv ==
    /\ Inbox \in Seq(M!Letter) /\ puts \in Nat
    /\ Ordered(Inbox) /\ Arrived(Inbox, puts)

LEMMA OrderKept ==
    ASSUME OrderInv, [M!Next]_M!vars, puts' \in Nat
    PROVE  OrderInv'
<1>1. CASE M!Arrive
  <2>1. PICK k \in Kind : Inbox' = Append(Inbox, [id |-> puts + 1, kind |-> k])
    BY <1>1 DEF M!Arrive
  <2> DEFINE e == [id |-> puts + 1, kind |-> k]
             box == Inbox
             t == Inbox'
  <2>2. e \in M!Letter /\ e.id = puts + 1 /\ puts' = puts + 1
    BY <1>1, ReceiveAssumption DEF M!Arrive, M!Letter, OrderInv
  <2>3. box \in Seq(M!Letter) /\ t = Append(box, e) /\ Ordered(box) /\ Arrived(box, puts)
    BY <2>1 DEF OrderInv
  <2>4. puts \in Nat
    BY DEF OrderInv
  <2> HIDE DEF e, box, t
  <2>5. /\ t \in Seq(M!Letter) /\ Len(t) = Len(box) + 1 /\ Len(box) \in Nat
        /\ \A i \in 1..Len(box) : t[i] = box[i]
        /\ t[Len(box) + 1] = e
    BY <2>2, <2>3, AppendProperties, LenProperties
  <2>6. \A i \in 1..Len(t) : i \in 1..Len(box) \/ i = Len(box) + 1
    BY <2>5
  <2>7. \A i \in 1..Len(box) : box[i].id <= puts /\ box[i].id \in Int
    <3>1. \A i \in 1..Len(box) : box[i] \in M!Letter
      BY <2>3, ElementOfSeq
    <3> QED BY <2>3, <3>1, ReceiveAssumption DEF Arrived, M!Letter
  <2>8. ASSUME NEW i \in 1..Len(t), NEW j \in 1..Len(t), i < j
        PROVE  t[i].id < t[j].id
    <3>1. i \in 1..Len(box) /\ t[i] = box[i]
      BY <2>5, <2>6, <2>8
    <3>2. CASE j \in 1..Len(box)
      BY <2>3, <2>5, <2>8, <3>1, <3>2 DEF Ordered
    <3>3. CASE j = Len(box) + 1
      BY <2>2, <2>4, <2>5, <2>7, <3>1, <3>3
    <3> QED BY <2>6, <3>2, <3>3
  <2>9. ASSUME NEW i \in 1..Len(t)
        PROVE  t[i].id <= puts + 1
    <3>1. CASE i \in 1..Len(box)
      BY <2>4, <2>5, <2>7, <3>1
    <3>2. CASE i = Len(box) + 1
      BY <2>2, <2>4, <2>5, <3>2
    <3> QED BY <2>6, <3>1, <3>2
  <2>10. t \in Seq(M!Letter) /\ Ordered(t) /\ Arrived(t, puts')
    BY <2>2, <2>5, <2>8, <2>9 DEF Ordered, Arrived
  <2> QED BY <2>2, <2>10 DEF OrderInv, t
<1>2. CASE M!Call \/ M!GiveUp \/ UNCHANGED M!vars
  BY <1>2 DEF M!Call, M!GiveUp, M!vars, OrderInv
<1>3. CASE M!Take
  <2>1. PICK i \in DOMAIN Inbox : Inbox' = M!RemoveAt(Inbox, i)
    BY <1>3 DEF M!Take
  <2>2. i \in 1..Len(Inbox)
    BY LenProperties DEF OrderInv
  <2>3. Inbox' \in Seq(M!Letter) /\ Ordered(Inbox') /\ Arrived(Inbox', puts)
    BY <2>1, <2>2, RemovedOrdered DEF OrderInv
  <2> QED BY <1>3, <2>3 DEF M!Take, OrderInv
<1>4. CASE M!Abort
  <2>1. PICK i \in DOMAIN Inbox : Inbox' = SubSeq(Inbox, i + 1, Len(Inbox))
    BY <1>4 DEF M!Abort
  <2>2. i \in 0..Len(Inbox)
    BY LenProperties DEF OrderInv
  <2>3. Inbox' \in Seq(M!Letter) /\ Ordered(Inbox') /\ Arrived(Inbox', puts)
    BY <2>1, <2>2, RestOrdered DEF OrderInv
  <2> QED BY <1>4, <2>3 DEF M!Abort, OrderInv
<1>5. CASE M!AbortLate
  <2>1. PICK i \in 0..Len(Inbox) : Inbox' = SubSeq(Inbox, i + 1, Len(Inbox))
    BY <1>5 DEF M!AbortLate
  <2>2. Inbox' \in Seq(M!Letter) /\ Ordered(Inbox') /\ Arrived(Inbox', puts)
    BY <2>1, RestOrdered DEF OrderInv
  <2> QED BY <1>5, <2>2 DEF M!AbortLate, OrderInv
<1> QED BY <1>1, <1>2, <1>3, <1>4, <1>5 DEF M!Next

\* No skip, no timeout and no exception of a match function moves a message
\* before an older one.
THEOREM OrderOfArrival == Spec => []InOrder
<1>1. Init => OrderInv
  <2> SUFFICES ASSUME Init PROVE OrderInv
    OBVIOUS
  <2>1. Inbox = <<>> /\ puts = 0
    BY InitRefines DEF M!Init
  <2>2. <<>> \in Seq(M!Letter) /\ Len(<<>>) = 0
    BY EmptySeq
  <2> QED BY <2>1, <2>2 DEF OrderInv, Ordered, Arrived
<1>2. Inv /\ Inv' /\ OrderInv /\ [Next]_vars => OrderInv'
  <2>1. Inv' => puts' \in Nat
    BY ReceiveAssumption DEF Inv, TypeOK
  <2> QED BY <2>1, StepRefines, OrderKept
<1>3. OrderInv => InOrder
  <2>1. OrderInv => DOMAIN Inbox = 1..Len(Inbox)
    BY LenProperties DEF OrderInv
  <2> QED BY <2>1 DEF OrderInv, Ordered, InOrder
<1> QED BY AlwaysInv, <1>1, <1>2, <1>3, PTL DEF Spec
=============================================================================
