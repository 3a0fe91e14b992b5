---------------------------- MODULE ConnectProofs ----------------------------
(****************************************************************************)
(* Theorems about how user processes connect: types, that the caches of two *)
(* processes agree, that answers do not leak to the user's receive, and     *)
(* that messages of uncrossed processes come in order.                      *)
(****************************************************************************)
EXTENDS Connect, FiniteSetTheorems, SequenceTheorems, TLAPS

----------------------------------------------------------------------------
(* Types.                                                                   *)

\* The connect-to messages that are still to be written, as <<p, 0>>, and
\* those central has not handled.
Asking ==
    {x \in Proc \X Nat :
        IF x[2] = 0 THEN pc[x[1]] = "absent" ELSE x[2] <= Len(requests[x[1]])}

\* A send asks for one connection at most, and central makes one for each.
Counted ==
    /\ IsFiniteSet(Asking)
    /\ Cardinality(Asking) + Len(conns) <= sends

Writes ==
    \A p, t \in Proc :
        wrote[p][t] <= sends /\ (pc[p] # "idle" => wrote[p][t] < sends)

Picked ==
    \A p \in Proc :
        /\ pc[p] # "idle" => tgt[p] \in Proc
        /\ pc[p] = "write" => sock[p] # 0

\* An answer that is no error names a connection.
Named ==
    \A p \in Proc : \A i \in 1..Len(notices[p]) :
        notices[p][i].type = "have-a-connection" => notices[p][i].n # 0

Inv == TypeOK /\ Counted /\ Writes /\ Picked /\ Named

\* The sequence t consists of elements of s, in their order, without the i-th.
Without(t, s, i) ==
    \E f \in [1..Len(t) -> 1..Len(s)] :
        /\ \A j \in 1..Len(t) : t[j] = s[f[j]] /\ f[j] # i
        /\ \A j, k \in 1..Len(t) : j < k => f[j] < f[k]

\* What a failed or successful receive(match=m) leaves of the queue: the other
\* elements, or those behind the notice.
LEMMA Removed ==
    ASSUME NEW S, NEW s \in Seq(S), NEW i \in 1..Len(s),
           NEW t, t = RemoveAt(s, i) \/ t = SubSeq(s, i + 1, Len(s))
    PROVE  t \in Seq(S) /\ Without(t, s, i)
<1> DEFINE n == Len(s)
           u == SubSeq(s, 1, i - 1)
           v == SubSeq(s, i + 1, n)
<1>1. n \in Nat /\ i \in 1..n
  BY LenProperties
<1>2. /\ v \in Seq(S) /\ Len(v) = n - i
      /\ \A j \in 1..(n - i) : v[j] = s[i + j]
  <2>1. \A j \in (i + 1)..n : s[j] \in S
    BY <1>1
  <2>2. /\ v \in Seq(S)
        /\ Len(v) = IF i + 1 <= n THEN n - (i + 1) + 1 ELSE 0
        /\ \A j \in 1..(n - (i + 1) + 1) : v[j] = s[(i + 1) + j - 1]
    <3> HIDE DEF n
    <3> QED BY <1>1, <2>1, SubSeqProperties
  <2> QED BY <1>1, <2>2
<1>3. /\ u \in Seq(S) /\ Len(u) = i - 1
      /\ \A j \in 1..(i - 1) : u[j] = s[j]
  <2>1. \A j \in 1..(i - 1) : s[j] \in S
    BY <1>1
  <2>2. /\ u \in Seq(S)
        /\ Len(u) = IF 1 <= i - 1 THEN (i - 1) - 1 + 1 ELSE 0
        /\ \A j \in 1..((i - 1) - 1 + 1) : u[j] = s[1 + j - 1]
    <3> HIDE DEF n
    <3> QED BY <1>1, <2>1, SubSeqProperties
  <2> QED BY <1>1, <2>2
<1>4. CASE t = RemoveAt(s, i)
  <2>1. t = u \o v
    BY <1>4 DEF RemoveAt
  <2> HIDE DEF u, v, n
  <2>2. /\ t \in Seq(S) /\ Len(t) = n - 1
        /\ \A j \in 1..(n - 1) : t[j] = IF j <= i - 1 THEN u[j] ELSE v[j - (i - 1)]
    BY <1>1, <1>2, <1>3, <2>1, ConcatProperties
  <2> DEFINE f == [j \in 1..Len(t) |-> IF j < i THEN j ELSE j + 1]
  <2>3. f \in [1..Len(t) -> 1..n]
    BY <1>1, <2>2
  <2>4. \A j \in 1..Len(t) : t[j] = s[f[j]] /\ f[j] # i
    <3> SUFFICES ASSUME NEW j \in 1..Len(t) PROVE t[j] = s[f[j]] /\ f[j] # i
      OBVIOUS
    <3>1. CASE j < i
      BY <1>1, <1>3, <2>2, <3>1
    <3>2. CASE j >= i
      <4>1. j - (i - 1) \in 1..(n - i) /\ i + (j - (i - 1)) = j + 1
        BY <1>1, <2>2, <3>2
      <4>2. t[j] = v[j - (i - 1)]
        BY <1>1, <2>2, <3>2
      <4>3. v[j - (i - 1)] = s[j + 1]
        BY <1>2, <4>1
      <4> QED BY <1>1, <3>2, <4>2, <4>3
    <3> QED BY <1>1, <2>2, <3>1, <3>2
  <2>5. \A j, k \in 1..Len(t) : j < k => f[j] < f[k]
    BY <1>1, <2>2
  <2> HIDE DEF f
  <2> QED BY <2>2, <2>3, <2>4, <2>5 DEF n, Without
<1>5. CASE t = SubSeq(s, i + 1, Len(s))
  <2> DEFINE f == [j \in 1..Len(t) |-> j + i]
  <2>0. t = v
    BY <1>5
  <2> HIDE DEF v, n
  <2>1. f \in [1..Len(t) -> 1..n]
    BY <1>1, <1>2, <2>0
  <2>2. \A j \in 1..Len(t) : t[j] = s[f[j]] /\ f[j] # i
    BY <1>1, <1>2, <2>0
  <2>3. \A j, k \in 1..Len(t) : j < k => f[j] < f[k]
    BY <1>1, <1>2, <2>0
  <2> HIDE DEF f
  <2> QED BY <1>2, <2>0, <2>1, <2>2, <2>3 DEF n, Without
<1> QED BY <1>4, <1>5

LEMMA InitInv == Init => Inv
<1> SUFFICES ASSUME Init PROVE Inv
  OBVIOUS
<1>1. TypeOK
  BY ConnectAssumption DEF Init, TypeOK, Conn
<1>2. Counted
  <2>1. Asking = {}
    BY DEF Init, Asking
  <2> QED BY <2>1, FS_EmptySet DEF Init, Counted
<1>3. Writes /\ Picked /\ Named
  BY DEF Init, Writes, Picked, Named
<1> QED BY <1>1, <1>2, <1>3 DEF Inv

\* A request that is handled leaves room for the connection.
LEMMA RoomFor ==
    ASSUME Inv, NEW p \in Proc, requests[p] # <<>>
    PROVE  /\ Len(conns) + 1 \in Conn /\ Len(conns) \in Nat
           /\ <<p, Len(requests[p])>> \in Asking
           /\ Cardinality(Asking) \in Nat /\ sends \in Nat
<1>1. requests[p] \in Seq(Proc) /\ Len(requests[p]) \in Nat \ {0}
  BY DEF Inv, TypeOK
<1>2. <<p, Len(requests[p])>> \in Asking
  BY <1>1 DEF Asking
<1>3. Cardinality(Asking) \in Nat \ {0}
  BY <1>2, FS_CardinalityType, FS_EmptySet DEF Inv, Counted
<1>4. Len(conns) \in Nat /\ sends \in 0..MaxSends
  BY DEF Inv, TypeOK
<1> QED BY <1>2, <1>3, <1>4, ConnectAssumption DEF Inv, Counted, Conn

\* What nothing asks for or answers keeps the count.
LEMMA CountKept ==
    ASSUME Inv, sends' = sends, conns' = conns, Asking' \subseteq Asking
    PROVE  Counted'
<1>1. IsFiniteSet(Asking') /\ Cardinality(Asking') <= Cardinality(Asking)
  BY FS_Subset DEF Inv, Counted
<1>2. Cardinality(Asking') \in Nat /\ Cardinality(Asking) \in Nat
  BY <1>1, FS_CardinalityType DEF Inv, Counted
<1> QED BY <1>1, <1>2 DEF Inv, Counted, TypeOK

\* A step that leaves the requests alone, and no thread about to make one.
LEMMA NotAsking ==
    ASSUME Inv, sends' = sends, conns' = conns, requests' = requests,
           \A p \in Proc : pc'[p] = "absent" => pc[p] = "absent"
    PROVE  Counted'
<1>1. Asking' \subseteq Asking
  BY DEF Asking
<1> QED BY <1>1, CountKept

LEMMA NamedKept ==
    ASSUME Inv, notices' = notices PROVE Named'
BY DEF Inv, Named

LEMMA StartSendInv ==
    ASSUME Inv, NEW p \in Proc, NEW t \in Proc, StartSend(p, t) PROVE Inv'
<1>0. /\ sends' = sends + 1 /\ sends' \in 0..MaxSends /\ sends \in Nat
      /\ tgt' = [tgt EXCEPT ![p] = t]
      /\ \E at \in {"cached", "absent"} : pc' = [pc EXCEPT ![p] = at]
      /\ UNCHANGED <<alive, sock, wrote, took, asked, flag, cache, box, pending,
                     attached, requests, notices, conns, stream, shut>>
  <2>1. sends \in 0..MaxSends /\ sends < MaxSends /\ sends' = sends + 1
    BY DEF Inv, TypeOK, StartSend
  <2>2. sends' \in 0..MaxSends /\ sends \in Nat
    BY <2>1, ConnectAssumption
  <2>3. \E at \in {"cached", "absent"} : pc' = [pc EXCEPT ![p] = at]
    BY DEF StartSend, Goto
  <2> QED BY <2>1, <2>2, <2>3 DEF StartSend, netVars
<1>1. TypeOK'
  <2>1. tgt' \in [Proc -> Proc \cup {None}]
    BY <1>0 DEF Inv, TypeOK
  <2>2. pc' \in [Proc -> {"idle", "cached", "absent", "await", "connected", "write"}]
    BY <1>0 DEF Inv, TypeOK
  <2> QED BY <1>0, <2>1, <2>2 DEF Inv, TypeOK
<1>2. Writes' /\ Picked'
  <2>1. /\ \A r, k \in Proc : wrote[r][k] \in Int /\ wrote[r][k] <= sends
        /\ \A r \in Proc \ {p} : pc'[r] = pc[r] /\ tgt'[r] = tgt[r]
        /\ \A r, k \in Proc : pc[r] # "idle" => wrote[r][k] < sends
        /\ pc'[p] # "write" /\ tgt'[p] = t
    BY <1>0 DEF Inv, TypeOK, Writes
  <2>2. Writes'
    BY <1>0, <2>1 DEF Writes
  <2>3. Picked'
    BY <1>0, <2>1 DEF Inv, Picked
  <2> QED BY <2>2, <2>3
<1>3. Counted'
  <2>1. Asking' \subseteq Asking \cup {<<p, 0>>}
    <3> SUFFICES ASSUME NEW r \in Proc, NEW k \in Nat, <<r, k>> \in Asking',
                        <<r, k>> # <<p, 0>>
                 PROVE  <<r, k>> \in Asking
      BY DEF Asking
    <3>1. k # 0 \/ r # p
      OBVIOUS
    <3>2. requests' = requests /\ (r # p => pc'[r] = pc[r])
      BY <1>0 DEF Inv, TypeOK
    <3> QED BY <3>1, <3>2 DEF Asking
  <2>2. /\ IsFiniteSet(Asking) /\ IsFiniteSet(Asking \cup {<<p, 0>>})
        /\ Cardinality(Asking \cup {<<p, 0>>}) <= Cardinality(Asking) + 1
    <3>1. IsFiniteSet(Asking) /\ Cardinality(Asking) \in Nat
      BY FS_CardinalityType DEF Inv, Counted
    <3> DEFINE x == <<p, 0>>
    <3> HIDE DEF x
    <3>2. /\ IsFiniteSet(Asking \cup {x})
          /\ Cardinality(Asking \cup {x}) =
               IF x \in Asking THEN Cardinality(Asking) ELSE Cardinality(Asking) + 1
      BY ONLY <3>1, FS_AddElement
    <3> QED BY <3>1, <3>2 DEF x
  <2>3. /\ IsFiniteSet(Asking')
        /\ Cardinality(Asking') <= Cardinality(Asking \cup {<<p, 0>>})
    BY <2>1, <2>2, FS_Subset
  <2>4. /\ Cardinality(Asking') \in Nat /\ Cardinality(Asking) \in Nat
        /\ Cardinality(Asking \cup {<<p, 0>>}) \in Nat
    BY <2>2, <2>3, FS_CardinalityType
  <2>5. Len(conns) \in Nat /\ sends \in Nat /\ sends' = sends + 1 /\ conns' = conns
    BY DEF Inv, TypeOK, StartSend, netVars
  <2> QED BY <2>2, <2>3, <2>4, <2>5 DEF Inv, Counted
<1>9. Named'
  BY NamedKept DEF StartSend, netVars
<1> QED BY <1>1, <1>2, <1>3, <1>9 DEF Inv

LEMMA RequestConnectInv ==
    ASSUME Inv, NEW p \in Proc, RequestConnect(p) PROVE Inv'
<1>0. tgt[p] \in Proc /\ pc[p] = "absent" /\ requests[p] \in Seq(Proc)
  BY DEF Inv, TypeOK, Picked, RequestConnect, At
<1>1. TypeOK'
  <2>1. flag' \in [Proc -> Proc \cup {None}]
    BY <1>0 DEF Inv, TypeOK, RequestConnect, SetFlag
  <2>2. requests' \in [Proc -> Seq(Proc)] /\ asked' \subseteq Proc \X Proc
    BY <1>0 DEF Inv, TypeOK, RequestConnect
  <2>3. pc' \in [Proc -> {"idle", "cached", "absent", "await", "connected", "write"}]
    BY DEF Inv, TypeOK, RequestConnect, Goto
  <2> QED BY <2>1, <2>2, <2>3 DEF Inv, TypeOK, RequestConnect
<1>2. Writes' /\ Picked'
  BY <1>0 DEF Inv, TypeOK, Writes, Picked, RequestConnect, Goto
<1>3. Counted'
  <2> DEFINE n == Len(requests[p]) + 1
             fewer == Asking \ {<<p, 0>>}
  <2>1. <<p, 0>> \in Asking /\ n \in Nat
    BY <1>0 DEF Asking
  <2>2. Asking' \subseteq fewer \cup {<<p, n>>}
    <3> SUFFICES ASSUME NEW r \in Proc, NEW k \in Nat, <<r, k>> \in Asking',
                        <<r, k>> # <<p, n>>
                 PROVE  <<r, k>> \in fewer
      BY DEF Asking
    <3>1. CASE r # p
      BY <3>1 DEF Inv, TypeOK, Asking, RequestConnect, Goto
    <3>2. CASE r = p
      <4>1. requests'[p] = Append(requests[p], tgt[p]) /\ pc'[p] = "await"
        BY DEF Inv, TypeOK, RequestConnect, Goto
      <4>2. Len(requests'[p]) = n /\ k # 0 /\ k <= Len(requests'[p]) /\ k # n
        BY <1>0, <3>2, <4>1 DEF Asking
      <4> QED BY <1>0, <3>2, <4>2 DEF Asking
    <3> QED BY <3>1, <3>2
  <2> HIDE DEF n
  <2>3. /\ IsFiniteSet(Asking) /\ IsFiniteSet(fewer)
        /\ Cardinality(fewer) = Cardinality(Asking) - 1
    BY <2>1, FS_RemoveElement DEF Inv, Counted
  <2> HIDE DEF fewer
  <2>4. /\ IsFiniteSet(fewer \cup {<<p, n>>})
        /\ Cardinality(fewer \cup {<<p, n>>}) <= Cardinality(fewer) + 1
    <3>1. Cardinality(fewer) \in Nat
      BY <2>3, FS_CardinalityType
    <3> DEFINE x == <<p, n>>
    <3> HIDE DEF x
    <3>2. /\ IsFiniteSet(fewer \cup {x})
          /\ Cardinality(fewer \cup {x}) <= Cardinality(fewer) + 1
      BY <2>3, <3>1, FS_AddElement
    <3> QED BY <3>2 DEF x
  <2>5. /\ IsFiniteSet(Asking')
        /\ Cardinality(Asking') <= Cardinality(fewer \cup {<<p, n>>})
    BY <2>2, <2>4, FS_Subset
  <2>6. /\ Cardinality(Asking') \in Nat /\ Cardinality(Asking) \in Nat
        /\ Cardinality(fewer) \in Nat /\ Cardinality(fewer \cup {<<p, n>>}) \in Nat
    BY <2>3, <2>4, <2>5, FS_CardinalityType
  <2>7. Len(conns) \in Nat /\ sends \in Nat /\ sends' = sends /\ conns' = conns
    BY DEF Inv, TypeOK, RequestConnect
  <2> QED BY <2>3, <2>4, <2>5, <2>6, <2>7 DEF Inv, Counted
<1>9. Named'
  BY NamedKept DEF RequestConnect
<1> QED BY <1>1, <1>2, <1>3, <1>9 DEF Inv

LEMMA AwaitConnectInv ==
    ASSUME Inv, NEW p \in Proc, AwaitConnect(p) PROVE Inv'
<1>1. box'[p] \in Seq(Letter \cup Notice)
  <2>1. PICK i \in 1..Len(box[p]) :
          \/ box' = [box EXCEPT ![p] = RemoveAt(box[p], i)]
          \/ box' = [box EXCEPT ![p] = SubSeq(box[p], i + 1, Len(box[p]))]
    <3>1. PICK i \in DOMAIN box[p] :
            box' = [box EXCEPT ![p] =
                      IF box[p][i].type = "have-a-connection" /\ box[p][i].from = tgt[p]
                      THEN RemoveAt(box[p], i)
                      ELSE SubSeq(box[p], i + 1, Len(box[p]))]
      BY DEF AwaitConnect
    <3>2. i \in 1..Len(box[p])
      BY DEF Inv, TypeOK
    <3> QED BY <3>1, <3>2
  <2>2. box[p] \in Seq(Letter \cup Notice)
    BY DEF Inv, TypeOK
  <2>3. \/ box'[p] = RemoveAt(box[p], i)
        \/ box'[p] = SubSeq(box[p], i + 1, Len(box[p]))
    BY <2>1 DEF Inv, TypeOK
  <2> QED BY <2>2, <2>3, Removed
<1>2. /\ box' \in [Proc -> Seq(Letter \cup Notice)]
      /\ \E at \in {"connected", "idle"} : pc' = [pc EXCEPT ![p] = at]
  <2>1. \E b : box' = [box EXCEPT ![p] = b]
    BY DEF AwaitConnect
  <2>2. box' \in [Proc -> Seq(Letter \cup Notice)]
    BY <1>1, <2>1 DEF Inv, TypeOK
  <2> QED BY <2>2 DEF AwaitConnect, Goto
<1>3. TypeOK' /\ Writes' /\ Picked'
  <2>1. pc' \in [Proc -> {"idle", "cached", "absent", "await", "connected", "write"}]
    BY <1>2 DEF Inv, TypeOK
  <2>2. TypeOK'
    BY <1>2, <2>1 DEF Inv, TypeOK, AwaitConnect, threadVars, netVars
  <2>3. pc[p] # "idle"
    BY DEF AwaitConnect, At
  <2>4. /\ \A r \in Proc : pc'[r] # "idle" => pc[r] # "idle"
        /\ \A r \in Proc : pc'[r] = "write" => pc[r] = "write"
        /\ tgt' = tgt /\ sock' = sock /\ wrote' = wrote /\ sends' = sends
    BY <1>2, <2>3 DEF Inv, TypeOK, AwaitConnect, threadVars
  <2> QED BY <2>2, <2>4 DEF Inv, Writes, Picked
<1>4. Counted'
  BY <1>2, NotAsking DEF Inv, TypeOK, AwaitConnect, threadVars, netVars
<1>9. Named'
  BY NamedKept DEF AwaitConnect, netVars
<1> QED BY <1>3, <1>4, <1>9 DEF Inv

LEMMA WriteInv ==
    ASSUME Inv, NEW p \in Proc, Write(p) PROVE Inv'
<1>1. tgt[p] \in Proc /\ sock[p] \in Conn /\ pc[p] = "write" /\ Goto(p, "idle")
  BY DEF Inv, TypeOK, Picked, Write, At
<1>2. wrote[p][tgt[p]] + 1 \in 1..MaxSends /\ wrote[p][tgt[p]] + 1 <= sends
  <2>1. /\ wrote[p][tgt[p]] \in 0..MaxSends /\ sends \in 0..MaxSends
        /\ wrote[p][tgt[p]] < sends
    BY <1>1 DEF Inv, TypeOK, Writes
  <2> QED BY <2>1, ConnectAssumption
<1>3. TypeOK' /\ Writes' /\ Picked'
  <2> DEFINE n == wrote[p][tgt[p]] + 1
             m == [type |-> "message", from |-> p, n |-> n]
  <2>0. /\ pc' = [pc EXCEPT ![p] = "idle"]
        /\ UNCHANGED <<alive, tgt, sock, sends, took, asked, flag, cache, box,
                       pending, attached, requests, notices, conns>>
    BY DEF Write, Goto, netVars
  <2>1. CASE /\ wrote' = [wrote EXCEPT ![p][tgt[p]] = n]
             /\ stream' = [stream EXCEPT ![sock[p]][tgt[p]] = Append(@, m)]
             /\ UNCHANGED shut
    <3>1. m \in Letter
      BY <1>2 DEF Letter
    <3>2. n \in 0..MaxSends
      BY <1>2
    <3> HIDE DEF m
    <3>3. stream' \in [Conn -> [Proc -> Seq(Letter)]]
      BY <1>1, <2>1, <3>1 DEF Inv, TypeOK
    <3>4. wrote' \in [Proc -> [Proc -> 0..MaxSends]]
      BY <1>1, <2>1, <3>2 DEF Inv, TypeOK
    <3>5. TypeOK'
      BY <2>0, <2>1, <3>3, <3>4 DEF Inv, TypeOK
    <3>6. \A r, t \in Proc :
            wrote'[r][t] = wrote[r][t] \/ (r = p /\ wrote'[r][t] = n)
      <4>1. wrote \in [Proc -> [Proc -> 0..MaxSends]]
        BY DEF Inv, TypeOK
      <4> HIDE DEF n
      <4> QED BY <1>1, <2>1, <4>1
    <3>7. Writes' /\ Picked'
      BY <1>1, <1>2, <2>0, <3>6 DEF Inv, TypeOK, Writes, Picked
    <3> QED BY <3>5, <3>7
  <2>2. CASE shut' = shut \cup {<<sock[p], p>>} /\ UNCHANGED <<wrote, stream>>
    <3>1. TypeOK'
      <4>1. pc' \in [Proc -> {"idle", "cached", "absent", "await", "connected", "write"}]
        BY <2>0 DEF Inv, TypeOK
      <4>2. shut' \subseteq Conn \X Proc
        BY <1>1, <2>2 DEF Inv, TypeOK
      <4> QED BY <2>0, <2>2, <4>1, <4>2 DEF Inv, TypeOK
    <3>2. Writes' /\ Picked'
      BY <2>0, <2>2 DEF Inv, TypeOK, Writes, Picked
    <3> QED BY <3>1, <3>2
  <2> QED BY <2>1, <2>2 DEF Write
<1>4. Counted'
  BY <1>1, NotAsking DEF Inv, TypeOK, Write, Goto, netVars
<1>9. Named'
  BY NamedKept DEF Write, netVars
<1> QED BY <1>3, <1>4, <1>9 DEF Inv

LEMMA UserReceiveInv ==
    ASSUME Inv, NEW p \in Proc, UserReceive(p) PROVE Inv'
<1> DEFINE m == Head(box[p])
<1>1. m \in Letter \cup Notice /\ box[p] \in Seq(Letter \cup Notice) /\ box[p] # <<>>
  BY DEF Inv, TypeOK, UserReceive
<1>2. ~IsNotice(m) => m.from \in Proc /\ m.n \in 0..MaxSends
  BY <1>1, ConnectAssumption DEF IsNotice, Letter, Notice
<1>3. took' \in [Proc -> [Proc -> 0..MaxSends]]
  <2>1. took' = IF IsNotice(m) THEN took ELSE [took EXCEPT ![p][m.from] = m.n]
    BY DEF UserReceive
  <2>2. took \in [Proc -> [Proc -> 0..MaxSends]]
    BY DEF Inv, TypeOK
  <2> HIDE DEF m
  <2> QED BY <1>2, <2>1, <2>2
<1>4. box' \in [Proc -> Seq(Letter \cup Notice)]
  BY <1>1 DEF Inv, TypeOK, UserReceive
<1>5. UNCHANGED <<alive, pc, tgt, sock, sends, wrote, asked, flag, cache,
                  pending, attached, requests, notices, conns, stream, shut>>
  BY DEF UserReceive, netVars
<1>6. TypeOK'
  BY <1>3, <1>4, <1>5 DEF Inv, TypeOK
<1>7. Writes' /\ Picked'
  BY <1>5 DEF Inv, Writes, Picked
<1>8. Counted'
  BY <1>5, NotAsking
<1>9. Named'
  BY NamedKept DEF UserReceive, netVars
<1> QED BY <1>6, <1>7, <1>8, <1>9 DEF Inv

\* What central answers to a request of p, and to whom.
LEMMA Answering ==
    ASSUME Inv, NEW p \in Proc, HandleConnect(p),
           NEW t, t = Head(requests[p]), NEW c, c = Len(conns) + 1
    PROVE  /\ t \in Proc /\ c \in Conn /\ Len(conns) \in Nat
           /\ requests[p] \in Seq(Proc) /\ requests[p] # <<>>
           /\ requests' = [requests EXCEPT ![p] = Tail(@)]
           /\ notices' \in [Proc -> Seq(Notice)]
           /\ \A r \in Proc :
                /\ Len(notices[r]) <= Len(notices'[r])
                /\ \A i \in 1..Len(notices[r]) : notices'[r][i] = notices[r][i]
                /\ \A i \in 1..Len(notices'[r]) : i > Len(notices[r]) =>
                     \/ r = t /\ t \in alive /\ notices'[r][i] = Have(p, c)
                     \/ r = p /\ t \in alive /\ notices'[r][i] = Have(t, c)
                     \/ r = p /\ t \notin alive /\ notices'[r][i] = Failed(t)
                /\ r # p /\ r # t => notices'[r] = notices[r]
           /\ t # p /\ t \in alive =>
                /\ notices'[t] = Append(notices[t], Have(p, c))
                /\ notices'[p] = Append(notices[p], Have(t, c))
           /\ t # p /\ t \notin alive =>
                /\ notices'[p] = Append(notices[p], Failed(t))
                /\ notices'[t] = notices[t]
           /\ conns' = IF t \in alive THEN Append(conns, <<p, t>>) ELSE conns
<1>1. /\ requests[p] \in Seq(Proc) /\ requests[p] # <<>> /\ t \in Proc
      /\ requests' = [requests EXCEPT ![p] = Tail(@)]
  <2>1. requests[p] \in Seq(Proc)
    BY DEF Inv, TypeOK
  <2>2. requests[p] # <<>> /\ requests' = [requests EXCEPT ![p] = Tail(@)]
    BY DEF HandleConnect
  <2> QED BY <2>1, <2>2
<1>2. c \in Conn /\ Len(conns) \in Nat
  BY <1>1, RoomFor
<1>3. Have(p, c) \in Notice /\ Have(t, c) \in Notice /\ Failed(t) \in Notice
  BY <1>1, <1>2 DEF Have, Failed, Notice
<1>4. notices \in [Proc -> Seq(Notice)]
  BY DEF Inv, TypeOK
<1>5. CASE t \in alive
  <2>1. /\ notices' = [notices EXCEPT ![t] = Append(notices[t], Have(p, c)),
                                      ![p] = Append(notices[p], Have(t, c))]
        /\ conns' = Append(conns, <<p, t>>)
    BY <1>5 DEF HandleConnect
  <2>2. /\ notices' \in [Proc -> Seq(Notice)]
        /\ \A r \in Proc : notices'[r] = IF r = p THEN Append(notices[p], Have(t, c))
                                         ELSE IF r = t THEN Append(notices[t], Have(p, c))
                                         ELSE notices[r]
    <3> DEFINE forT == Append(notices[t], Have(p, c))
               forP == Append(notices[p], Have(t, c))
    <3>1. forT \in Seq(Notice) /\ forP \in Seq(Notice)
      BY <1>1, <1>3, <1>4
    <3>2. notices' = [notices EXCEPT ![t] = forT, ![p] = forP]
      BY <2>1
    <3> HIDE DEF forT, forP
    <3>3. /\ notices' \in [Proc -> Seq(Notice)]
          /\ \A r \in Proc : notices'[r] = IF r = p THEN forP ELSE IF r = t THEN forT
                                           ELSE notices[r]
      BY <1>1, <1>4, <3>1, <3>2
    <3> QED BY <3>3 DEF forT, forP
  <2>3. \A s \in Seq(Notice), e \in Notice :
            /\ Len(s) \in Nat /\ Len(Append(s, e)) = Len(s) + 1
            /\ \A i \in 1..Len(s) : Append(s, e)[i] = s[i]
            /\ Append(s, e)[Len(s) + 1] = e
    BY AppendProperties
  <2>4. ASSUME NEW r \in Proc
        PROVE  /\ Len(notices[r]) <= Len(notices'[r])
               /\ \A i \in 1..Len(notices[r]) : notices'[r][i] = notices[r][i]
               /\ \A i \in 1..Len(notices'[r]) : i > Len(notices[r]) =>
                     \/ r = t /\ notices'[r][i] = Have(p, c)
                     \/ r = p /\ notices'[r][i] = Have(t, c)
    <3>1. notices[r] \in Seq(Notice)
      BY <1>4
    <3>2. CASE r = p
      <4>1. notices'[r] = Append(notices[r], Have(t, c))
        BY <2>2, <3>2
      <4> QED BY <1>3, <2>3, <3>1, <3>2, <4>1
    <3>3. CASE r = t /\ r # p
      <4>1. notices'[r] = Append(notices[r], Have(p, c))
        BY <2>2, <3>3
      <4> QED BY <1>3, <2>3, <3>1, <3>3, <4>1
    <3>4. CASE r # t /\ r # p
      BY <2>2, <2>3, <3>1, <3>4
    <3> QED BY <3>2, <3>3, <3>4
  <2>5. t # p => /\ notices'[t] = Append(notices[t], Have(p, c))
                 /\ notices'[p] = Append(notices[p], Have(t, c))
    BY <1>1, <2>2
  <2>6. \A r \in Proc : r # p /\ r # t => notices'[r] = notices[r]
    BY <2>2
  <2> QED BY <1>1, <1>2, <1>5, <2>1, <2>2, <2>4, <2>5, <2>6
<1>6. CASE t \notin alive
  <2>1. /\ notices' = [notices EXCEPT ![p] = Append(@, Failed(t))]
        /\ conns' = conns
    BY <1>6 DEF HandleConnect
  <2>2. /\ notices' \in [Proc -> Seq(Notice)]
        /\ \A r \in Proc : notices'[r] = IF r = p THEN Append(notices[p], Failed(t)) ELSE notices[r]
    BY <1>3, <1>4, <2>1
  <2>3. ASSUME NEW r \in Proc
        PROVE  /\ Len(notices[r]) <= Len(notices'[r])
               /\ \A i \in 1..Len(notices[r]) : notices'[r][i] = notices[r][i]
               /\ \A i \in 1..Len(notices'[r]) : i > Len(notices[r]) =>
                     r = p /\ notices'[r][i] = Failed(t)
    <3>1. notices[r] \in Seq(Notice)
      BY <1>4
    <3> QED BY <1>3, <2>2, <3>1
  <2> QED BY <1>1, <1>2, <1>6, <2>1, <2>2, <2>3
<1> QED BY <1>5, <1>6

LEMMA HandleConnectInv ==
    ASSUME Inv, NEW p \in Proc, HandleConnect(p) PROVE Inv'
<1> DEFINE t == Head(requests[p])
           c == Len(conns) + 1
<1> HIDE DEF t, c
<1>1. /\ t \in Proc /\ c \in Conn /\ Len(conns) \in Nat
      /\ requests[p] \in Seq(Proc) /\ requests[p] # <<>>
      /\ Len(requests[p]) \in Nat \ {0}
      /\ requests' = [requests EXCEPT ![p] = Tail(@)]
      /\ notices' \in [Proc -> Seq(Notice)]
      /\ conns' = IF t \in alive THEN Append(conns, <<p, t>>) ELSE conns
  BY Answering DEF t, c
<1>3. UNCHANGED <<alive, pc, tgt, sock, sends, wrote, took, asked, flag, cache,
                  box, pending, attached, stream, shut>>
  BY DEF HandleConnect, threadVars
<1>5. /\ conns' \in Seq(Proc \X Proc) /\ Len(conns') <= MaxSends
      /\ Len(conns') <= Len(conns) + 1
  <2>1. conns \in Seq(Proc \X Proc) /\ Len(conns) <= MaxSends
    BY DEF Inv, TypeOK
  <2>2. Len(conns) + 1 <= MaxSends
    BY <1>1, ConnectAssumption DEF c, Conn
  <2> QED BY <1>1, <2>1, <2>2
<1>6. TypeOK'
  <2>1. requests' \in [Proc -> Seq(Proc)]
    BY <1>1 DEF Inv, TypeOK
  <2> QED BY <1>1, <1>3, <1>5, <2>1 DEF Inv, TypeOK
<1>7. Writes' /\ Picked'
  BY <1>3 DEF Inv, Writes, Picked
<1>8. Counted'
  <2> DEFINE x == <<p, Len(requests[p])>>
             fewer == Asking \ {x}
  <2>1. x \in Asking /\ Cardinality(Asking) \in Nat /\ Len(conns) \in Nat /\ sends \in Nat
    BY <1>1, RoomFor
  <2>2. Asking' \subseteq fewer
    <3> SUFFICES ASSUME NEW r \in Proc, NEW k \in Nat, <<r, k>> \in Asking'
                 PROVE  <<r, k>> \in fewer
      BY DEF Asking
    <3>1. CASE r # p
      BY <1>1, <1>3, <3>1 DEF Inv, TypeOK, Asking
    <3>2. CASE r = p
      <4>1. requests'[p] = Tail(requests[p]) /\ pc'[p] = pc[p]
        BY <1>1, <1>3 DEF Inv, TypeOK
      <4>2. Len(requests'[p]) = Len(requests[p]) - 1
        <5>1. requests[p] \in Seq(Proc) /\ requests[p] # <<>>
          BY <1>1
        <5> QED BY <4>1, <5>1
      <4> QED BY <1>1, <3>2, <4>1, <4>2 DEF Asking
    <3> QED BY <3>1, <3>2
  <2>3. IsFiniteSet(fewer) /\ Cardinality(fewer) = Cardinality(Asking) - 1
    <3>1. IsFiniteSet(Asking)
      BY DEF Inv, Counted
    <3> HIDE DEF x
    <3> QED BY <2>1, <3>1, FS_RemoveElement
  <2> HIDE DEF fewer
  <2>4. /\ IsFiniteSet(Asking') /\ Cardinality(Asking') <= Cardinality(fewer)
    BY <2>2, <2>3, FS_Subset
  <2>5. Cardinality(Asking') \in Nat /\ Cardinality(fewer) \in Nat
    BY <2>3, <2>4, FS_CardinalityType
  <2>6. Len(conns') \in Nat
    BY <1>5
  <2> QED BY <1>3, <1>5, <2>1, <2>3, <2>4, <2>5, <2>6 DEF Inv, Counted
<1>9. Named'
  <2> SUFFICES ASSUME NEW r \in Proc, NEW i \in 1..Len(notices'[r]),
                      notices'[r][i].type = "have-a-connection"
               PROVE  notices'[r][i].n # 0
    BY DEF Named
  <2>1. notices[r] \in Seq(Notice)
    BY DEF Inv, TypeOK
  <2>2. CASE i \in 1..Len(notices[r])
    <3>1. notices'[r][i] = notices[r][i]
      BY <2>2, Answering
    <3> QED BY <2>2, <3>1 DEF Inv, Named
  <2>3. CASE i > Len(notices[r])
    <3>1. \/ notices'[r][i] = Have(p, c) \/ notices'[r][i] = Have(t, c)
          \/ notices'[r][i] = Failed(t)
      BY <2>3, Answering DEF t, c
    <3>2. c # 0
      BY <1>1 DEF c
    <3> QED BY <3>1, <3>2 DEF Have, Failed
  <2> QED BY <2>1, <2>2, <2>3
<1> QED BY <1>6, <1>7, <1>8, <1>9 DEF Inv

LEMMA DieInv ==
    ASSUME Inv, NEW p \in Proc, Die(p) PROVE Inv'
<1>1. /\ alive' \subseteq Proc
      /\ requests' = [requests EXCEPT ![p] = <<>>]
      /\ UNCHANGED <<pc, tgt, sock, sends, wrote, took, asked, flag, cache, box,
                     pending, attached, notices, conns, stream, shut>>
  BY DEF Inv, TypeOK, Die, threadVars
<1>2. TypeOK'
  <2>1. requests' \in [Proc -> Seq(Proc)]
    BY <1>1 DEF Inv, TypeOK
  <2> QED BY <1>1, <2>1 DEF Inv, TypeOK
<1>3. Writes' /\ Picked'
  BY <1>1 DEF Inv, Writes, Picked
<1>4. Counted'
  <2>1. Asking' \subseteq Asking
    <3> SUFFICES ASSUME NEW r \in Proc, NEW k \in Nat, <<r, k>> \in Asking'
                 PROVE  <<r, k>> \in Asking
      BY DEF Asking
    <3>1. requests'[r] = requests[r] \/ requests'[r] = <<>>
      BY <1>1 DEF Inv, TypeOK
    <3> QED BY <1>1, <3>1 DEF Asking
  <2> QED BY <1>1, <2>1, CountKept
<1>9. Named'
  BY NamedKept DEF Die
<1> QED BY <1>2, <1>3, <1>4, <1>9 DEF Inv

\* The connections are those central has made, and both ends are processes.
LEMMA PeerType ==
    ASSUME Inv, NEW p \in Proc, NEW c \in DOMAIN conns
    PROVE  c \in Conn /\ c \in 1..Len(conns) /\ Peer(c, p) \in Proc
<1>1. conns \in Seq(Proc \X Proc) /\ Len(conns) <= MaxSends
  BY DEF Inv, TypeOK
<1>2. c \in 1..Len(conns) /\ conns[c] \in Proc \X Proc
  BY <1>1
<1> QED BY <1>1, <1>2, ConnectAssumption DEF Conn, Peer

\* Where nothing of a process but its caches and its queue changes.
LEMMA QuietInv ==
    ASSUME Inv, TypeOK', Named', UNCHANGED <<pc, tgt, sock, sends, wrote, requests, conns>>
    PROVE  Inv'
<1>1. Writes' /\ Picked'
  BY DEF Inv, Writes, Picked
<1> QED BY <1>1, NotAsking DEF Inv

LEMMA ReadNoticeInv ==
    ASSUME Inv, NEW p \in Proc, ReadNotice(p) PROVE Inv'
<1> DEFINE m == Head(notices[p])
<1>1. notices[p] \in Seq(Notice) /\ notices[p] # <<>>
  BY DEF Inv, TypeOK, ReadNotice
<1>2. m \in Notice /\ m = notices[p][1] /\ 1 \in 1..Len(notices[p])
  BY <1>1
<1>3. m.from \in Proc /\ m.n \in Conn \cup {0}
  BY <1>2 DEF Notice
<1>4. m.type = "have-a-connection" => m.n \in Conn
  BY <1>2, <1>3 DEF Inv, Named
<1>5. UNCHANGED <<alive, pc, tgt, sock, sends, wrote, took, asked, flag, requests,
                  conns, stream, shut>>
  BY DEF ReadNotice, threadVars
<1> HIDE DEF m
<1>6. notices' = [notices EXCEPT ![p] = Tail(@)]
  BY DEF ReadNotice
<1>7. TypeOK'
  <2>1. notices' \in [Proc -> Seq(Notice)]
    BY <1>1, <1>6 DEF Inv, TypeOK
  <2>2. CASE /\ m.type = "have-a-connection"
             /\ cache' = Attach(p, m) /\ attached' = StartReader(p, m)
             /\ pending' = [pending EXCEPT ![p] = {m}]
             /\ UNCHANGED box
    <3>1. cache' \in [Proc -> [Proc -> Conn \cup {0}]]
      <4>1. cache \in [Proc -> [Proc -> Conn \cup {0}]]
        BY DEF Inv, TypeOK
      <4> QED BY <1>3, <2>2, <4>1 DEF Attach
    <3>2. pending' \in [Proc -> SUBSET Notice]
      BY <1>2, <2>2 DEF Inv, TypeOK
    <3>3. attached' \subseteq Conn \X Proc
      BY <1>4, <2>2 DEF Inv, TypeOK, StartReader
    <3> QED BY <1>5, <2>1, <2>2, <3>1, <3>2, <3>3 DEF Inv, TypeOK
  <2>3. CASE Queue(p, m) /\ UNCHANGED <<cache, attached, pending>>
    <3>1. box' \in [Proc -> Seq(Letter \cup Notice)]
      BY <1>2, <2>3 DEF Inv, TypeOK, Queue
    <3> QED BY <1>5, <2>1, <2>3, <3>1 DEF Inv, TypeOK
  <2> QED BY <2>2, <2>3 DEF ReadNotice, m
<1>8. Named'
  <2> SUFFICES ASSUME NEW r \in Proc, NEW i \in 1..Len(notices'[r]),
                      notices'[r][i].type = "have-a-connection"
               PROVE  notices'[r][i].n # 0
    BY DEF Named
  <2>1. CASE r # p
    <3>1. notices'[r] = notices[r]
      BY <1>6, <2>1 DEF Inv, TypeOK
    <3> QED BY <3>1 DEF Inv, Named
  <2>2. CASE r = p
    <3>1. notices'[p] = Tail(notices[p])
      BY <1>6 DEF Inv, TypeOK
    <3>2. i + 1 \in 1..Len(notices[p]) /\ notices'[p][i] = notices[p][i + 1]
      BY <1>1, <2>2, <3>1
    <3> QED BY <2>2, <3>2 DEF Inv, Named
  <2> QED BY <2>1, <2>2
<1> QED BY <1>5, <1>7, <1>8, QuietInv

LEMMA CheckFlagInv ==
    ASSUME Inv, NEW p \in Proc, CheckFlag(p) PROVE Inv'
<1>1. PICK m \in pending[p] :
        /\ pending' = [pending EXCEPT ![p] = {}]
        /\ Queue(p, m) \/ UNCHANGED box
        /\ UNCHANGED <<alive, pc, tgt, sock, sends, wrote, took, asked, flag, cache,
                       attached, requests, notices, conns, stream, shut>>
  BY DEF CheckFlag, threadVars, netVars
<1>2. m \in Notice
  BY DEF Inv, TypeOK
<1>3. box' \in [Proc -> Seq(Letter \cup Notice)]
  <2>1. box' = box \/ box' = [box EXCEPT ![p] = Append(@, m)]
    BY <1>1 DEF Queue
  <2>2. box \in [Proc -> Seq(Letter \cup Notice)]
    BY DEF Inv, TypeOK
  <2> QED BY <1>2, <2>1, <2>2
<1>4. pending' \in [Proc -> SUBSET Notice]
  BY <1>1 DEF Inv, TypeOK
<1>5. TypeOK'
  BY <1>1, <1>3, <1>4 DEF Inv, TypeOK
<1> QED BY <1>1, <1>5, NamedKept, QuietInv

LEMMA ReadMessageInv ==
    ASSUME Inv, NEW p \in Proc, NEW c \in DOMAIN conns, ReadMessage(c, p) PROVE Inv'
<1>1. c \in Conn
  BY PeerType
<1>2. stream[c][p] \in Seq(Letter) /\ stream[c][p] # <<>>
  BY <1>1 DEF Inv, TypeOK, ReadMessage
<1>3. Head(stream[c][p]) \in Letter /\ Tail(stream[c][p]) \in Seq(Letter)
  BY <1>2
<1>4. stream' \in [Conn -> [Proc -> Seq(Letter)]]
  <2>1. stream' = [stream EXCEPT ![c][p] = Tail(@)]
    BY DEF ReadMessage
  <2>2. stream \in [Conn -> [Proc -> Seq(Letter)]]
    BY DEF Inv, TypeOK
  <2> QED BY <1>1, <1>3, <2>1, <2>2
<1>5. box' \in [Proc -> Seq(Letter \cup Notice)]
  <2>1. box' = [box EXCEPT ![p] = Append(@, Head(stream[c][p]))]
    BY DEF ReadMessage, Queue
  <2>2. box \in [Proc -> Seq(Letter \cup Notice)]
    BY DEF Inv, TypeOK
  <2> QED BY <1>3, <2>1, <2>2
<1>6. UNCHANGED <<alive, pc, tgt, sock, sends, wrote, took, asked, flag, cache, pending,
                  attached, requests, notices, conns, shut>>
  BY DEF ReadMessage, threadVars, netVars
<1>7. TypeOK'
  BY <1>4, <1>5, <1>6 DEF Inv, TypeOK
<1> QED BY <1>6, <1>7, NamedKept, QuietInv

LEMMA ReadOverInv ==
    ASSUME Inv, NEW p \in Proc, NEW c \in DOMAIN conns, ReadEnd(c, p) \/ ReadShut(c, p)
    PROVE  Inv'
<1>1. UNCHANGED <<alive, pc, tgt, sock, sends, wrote, took, asked, flag, box, pending,
                  requests, notices, conns, stream, shut>>
  BY DEF ReadEnd, ReadShut, threadVars, netVars
<1>2. cache' \in [Proc -> [Proc -> Conn \cup {0}]]
  <2>1. cache \in [Proc -> [Proc -> Conn \cup {0}]]
    BY DEF Inv, TypeOK
  <2>2. cache' = cache \/ cache' = [cache EXCEPT ![p][Peer(c, p)] = 0]
    BY DEF ReadEnd, ReadShut
  <2>3. Peer(c, p) \in Proc
    BY PeerType
  <2> QED BY <2>1, <2>2, <2>3
<1>3. attached' \subseteq Conn \X Proc
  BY DEF Inv, TypeOK, ReadEnd, ReadShut
<1>4. TypeOK'
  BY <1>1, <1>2, <1>3 DEF Inv, TypeOK
<1> QED BY <1>1, <1>4, NamedKept, QuietInv

LEMMA GetInv ==
    ASSUME Inv, NEW p \in Proc, GetCached(p) \/ GetConnected(p) PROVE Inv'
<1>1. tgt[p] \in Proc /\ pc[p] # "idle" /\ Cached(p) \in Conn \cup {0}
  BY DEF Inv, TypeOK, Picked, GetCached, GetConnected, At, Cached
<1>2. /\ sock' = [sock EXCEPT ![p] = Cached(p)]
      /\ pc' = [pc EXCEPT ![p] = IF Cached(p) # 0 THEN "write" ELSE "idle"]
      /\ flag' = flag \/ flag' = [flag EXCEPT ![p] = None]
      /\ UNCHANGED <<alive, tgt, sends, wrote, took, asked, cache, box, pending, attached,
                     requests, notices, conns, stream, shut>>
  BY DEF GetCached, GetConnected, Goto, threadVars, netVars
<1>3. /\ sock' \in [Proc -> Conn \cup {0}] /\ flag' \in [Proc -> Proc \cup {None}]
      /\ pc' \in [Proc -> {"idle", "cached", "absent", "await", "connected", "write"}]
  BY <1>1, <1>2 DEF Inv, TypeOK
<1>4. TypeOK'
  BY <1>2, <1>3 DEF Inv, TypeOK
<1>5. /\ \A r \in Proc \ {p} : pc'[r] = pc[r] /\ sock'[r] = sock[r]
      /\ sock'[p] = Cached(p)
      /\ pc'[p] = IF Cached(p) # 0 THEN "write" ELSE "idle"
  BY <1>2 DEF Inv, TypeOK
<1>6. Writes' /\ Picked'
  BY <1>1, <1>2, <1>5 DEF Inv, Writes, Picked
<1>7. Counted'
  BY <1>2, <1>5, NotAsking
<1> QED BY <1>2, <1>4, <1>6, <1>7, NamedKept DEF Inv

LEMMA NextInv == Inv /\ [Next]_vars => Inv'
<1> SUFFICES ASSUME Inv, [Next]_vars PROVE Inv'
  OBVIOUS
<1>1. ASSUME NEW p \in Proc, NEW t \in Proc, StartSend(p, t) PROVE Inv'
  BY <1>1, StartSendInv
<1>2. ASSUME NEW p \in Proc, SendStep(p) PROVE Inv'
  BY <1>2, GetInv, RequestConnectInv, AwaitConnectInv, WriteInv DEF SendStep
<1>3. ASSUME NEW p \in Proc, UserReceive(p) PROVE Inv'
  BY <1>3, UserReceiveInv
<1>4. ASSUME NEW p \in Proc, ReaderStep(p) PROVE Inv'
  BY <1>4, ReadNoticeInv, CheckFlagInv, ReadMessageInv, ReadOverInv DEF ReaderStep
<1>5. ASSUME NEW p \in Proc, HandleConnect(p) PROVE Inv'
  BY <1>5, HandleConnectInv
<1>6. ASSUME NEW p \in Proc, Die(p) PROVE Inv'
  BY <1>6, DieInv
<1>7. CASE UNCHANGED vars
  <2>1. TypeOK' /\ Named'
    BY <1>7 DEF Inv, TypeOK, Named, vars, threadVars, netVars
  <2> QED BY <1>7, <2>1, QuietInv DEF vars, threadVars, netVars
<1> QED BY <1>1, <1>2, <1>3, <1>4, <1>5, <1>6, <1>7 DEF Next

LEMMA AlwaysInv == Spec => []Inv
BY InitInv, NextInv, PTL DEF Spec

\* However many processes and sends there are, central never makes more
\* connections than there were sends, and every answer and every entry of a
\* cache names one of them.
THEOREM TypesCorrect == Spec => []TypeOK
<1>1. Inv => TypeOK
  BY DEF Inv
<1> QED BY <1>1, AlwaysInv, PTL

----------------------------------------------------------------------------
(* Caches.                                                                  *)

\* The connection p has for r once it has read what central has sent.
Tells(m, r) == m.type = "have-a-connection" /\ m.from = r
Known(p, r, c) ==
    \/ /\ \A i \in 1..Len(notices[p]) : ~Tells(notices[p][i], r)
       /\ cache[p][r] = c
    \/ \E i \in 1..Len(notices[p]) :
         /\ Tells(notices[p][i], r) /\ notices[p][i].n = c
         /\ \A j \in 1..Len(notices[p]) : j > i => ~Tells(notices[p][j], r)

\* Two living processes come to know the same connection.
Agreed ==
    \A p, r \in alive :
        p # r => \E c \in Conn \cup {0} : Known(p, r, c) /\ Known(r, p, c)

\* What central sends about others changes nothing.
LEMMA KnownLonger ==
    ASSUME Inv, NEW p \in Proc, NEW r \in Proc, NEW c, Known(p, r, c),
           notices'[p] \in Seq(Notice), cache'[p][r] = cache[p][r],
           Len(notices[p]) <= Len(notices'[p]),
           \A i \in 1..Len(notices[p]) : notices'[p][i] = notices[p][i],
           \A i \in 1..Len(notices'[p]) :
               i > Len(notices[p]) => ~Tells(notices'[p][i], r)
    PROVE  Known(p, r, c)'
<1>1. Len(notices[p]) \in Nat /\ Len(notices'[p]) \in Nat
  BY DEF Inv, TypeOK
<1>2. \A i \in 1..Len(notices'[p]) :
        \/ i \in 1..Len(notices[p]) /\ notices'[p][i] = notices[p][i]
        \/ ~Tells(notices'[p][i], r)
  BY <1>1
<1>3. CASE /\ \A i \in 1..Len(notices[p]) : ~Tells(notices[p][i], r)
           /\ cache[p][r] = c
  <2>1. \A i \in 1..Len(notices'[p]) : ~Tells(notices'[p][i], r)
    BY <1>2, <1>3
  <2> QED BY <1>3, <2>1 DEF Known, Tells
<1>4. CASE \E i \in 1..Len(notices[p]) :
             /\ Tells(notices[p][i], r) /\ notices[p][i].n = c
             /\ \A j \in 1..Len(notices[p]) : j > i => ~Tells(notices[p][j], r)
  <2>1. PICK i \in 1..Len(notices[p]) :
             /\ Tells(notices[p][i], r) /\ notices[p][i].n = c
             /\ \A j \in 1..Len(notices[p]) : j > i => ~Tells(notices[p][j], r)
    BY <1>4
  <2>2. i \in 1..Len(notices'[p]) /\ notices'[p][i] = notices[p][i]
    BY <1>1
  <2>3. \A j \in 1..Len(notices'[p]) : j > i => ~Tells(notices'[p][j], r)
    BY <1>2, <2>1
  <2> QED BY <2>1, <2>2, <2>3 DEF Known, Tells
<1> QED BY <1>3, <1>4 DEF Known

\* The last answer counts.
LEMMA KnownLast ==
    ASSUME Inv, NEW p \in Proc, NEW r \in Proc, NEW m \in Notice, Tells(m, r),
           notices'[p] = Append(notices[p], m)
    PROVE  Known(p, r, m.n)'
<1> DEFINE i == Len(notices[p]) + 1
<1>1. notices[p] \in Seq(Notice) /\ Len(notices[p]) \in Nat
  BY DEF Inv, TypeOK
<1>2. Len(notices'[p]) = i /\ i \in 1..Len(notices'[p]) /\ notices'[p][i] = m
  BY <1>1
<1>3. \A j \in 1..Len(notices'[p]) : ~(j > i)
  BY <1>1, <1>2
<1> HIDE DEF i
<1> QED BY <1>2, <1>3 DEF Known, Tells

LEMMA HandleConnectAgreed ==
    ASSUME Inv, Agreed, NEW p \in Proc, HandleConnect(p),
           NEW t, t = Head(requests[p]), NEW c, c = Len(conns) + 1
    PROVE  Agreed'
<1>1. /\ t \in Proc /\ c \in Conn
      /\ notices' \in [Proc -> Seq(Notice)]
  BY Answering
<1>2. \A r \in Proc :
        /\ Len(notices[r]) <= Len(notices'[r])
        /\ \A i \in 1..Len(notices[r]) : notices'[r][i] = notices[r][i]
        /\ \A i \in 1..Len(notices'[r]) : i > Len(notices[r]) =>
             \/ r = t /\ t \in alive /\ notices'[r][i] = Have(p, c)
             \/ r = p /\ t \in alive /\ notices'[r][i] = Have(t, c)
             \/ r = p /\ t \notin alive /\ notices'[r][i] = Failed(t)
  BY Answering
<1>3. t # p /\ t \in alive =>
        /\ notices'[t] = Append(notices[t], Have(p, c))
        /\ notices'[p] = Append(notices[p], Have(t, c))
  <2> SUFFICES ASSUME t # p, t \in alive
               PROVE  /\ notices'[t] = Append(notices[t], Have(p, c))
                      /\ notices'[p] = Append(notices[p], Have(t, c))
    OBVIOUS
  <2>1. notices'[t] = Append(notices[t], Have(p, c))
    BY Answering
  <2>2. notices'[p] = Append(notices[p], Have(t, c))
    BY Answering
  <2> QED BY <2>1, <2>2
<1>4. UNCHANGED <<alive, cache>> /\ p \in alive /\ alive \subseteq Proc
  BY DEF HandleConnect, Inv, TypeOK
<1> SUFFICES ASSUME NEW a \in alive, NEW b \in alive, a # b
             PROVE  \E d \in Conn \cup {0} : Known(a, b, d)' /\ Known(b, a, d)'
  BY <1>4 DEF Agreed
<1>5. CASE t \in alive /\ {a, b} = {p, t}
  <2>1. t # p
    BY <1>5
  <2>2. Tells(Have(p, c), p) /\ Tells(Have(t, c), t) /\ Have(p, c).n = c /\ Have(t, c).n = c
    BY DEF Tells, Have
  <2>3. Have(p, c) \in Notice /\ Have(t, c) \in Notice
    BY <1>1 DEF Have, Notice
  <2>4. Known(t, p, c)'
    <3>1. Known(t, p, Have(p, c).n)'
      BY <1>1, <1>3, <1>5, <2>1, <2>2, <2>3, KnownLast
    <3> QED BY <2>2, <3>1
  <2>5. Known(p, t, c)'
    <3>1. Known(p, t, Have(t, c).n)'
      BY <1>1, <1>3, <1>5, <2>1, <2>2, <2>3, KnownLast
    <3> QED BY <2>2, <3>1
  <2> QED BY <1>1, <1>5, <2>4, <2>5
<1>6. CASE ~(t \in alive /\ {a, b} = {p, t})
  <2>1. PICK d \in Conn \cup {0} : Known(a, b, d) /\ Known(b, a, d)
    BY DEF Agreed
  <2>2. ASSUME NEW x \in alive, NEW y \in alive, {x, y} = {a, b}, x # y, Known(x, y, d)
        PROVE  Known(x, y, d)'
    <3>1. x \in Proc /\ y \in Proc
      BY <1>4
    <3>2. \A i \in 1..Len(notices'[x]) : i > Len(notices[x]) => ~Tells(notices'[x][i], y)
      <4> SUFFICES ASSUME NEW i \in 1..Len(notices'[x]), i > Len(notices[x]),
                          Tells(notices'[x][i], y)
                   PROVE  FALSE
        OBVIOUS
      <4>1. \/ x = t /\ t \in alive /\ notices'[x][i] = Have(p, c)
            \/ x = p /\ t \in alive /\ notices'[x][i] = Have(t, c)
            \/ x = p /\ t \notin alive /\ notices'[x][i] = Failed(t)
        BY <1>2, <3>1
      <4>2. Have(p, c).from = p /\ Have(t, c).from = t /\ Failed(t).type = "connection-error"
        BY DEF Have, Failed
      <4> QED BY <1>6, <2>2, <4>1, <4>2 DEF Tells
    <3>3. /\ notices'[x] \in Seq(Notice) /\ cache'[x][y] = cache[x][y]
          /\ Len(notices[x]) <= Len(notices'[x])
          /\ \A i \in 1..Len(notices[x]) : notices'[x][i] = notices[x][i]
      BY <1>1, <1>2, <1>4, <3>1
    <3> QED BY <2>2, <3>1, <3>2, <3>3, KnownLonger
  <2>3. Known(a, b, d)' /\ Known(b, a, d)'
    BY <2>1, <2>2
  <2> QED BY <2>3
<1> QED BY <1>5, <1>6

\* An answer that is read goes from the notices to the cache.
LEMMA ReadNoticeAgreed ==
    ASSUME Inv, Agreed, NEW p \in Proc, ReadNotice(p) PROVE Agreed'
<1> DEFINE m == Head(notices[p])
<1>1. notices[p] \in Seq(Notice) /\ notices[p] # <<>>
  BY DEF Inv, TypeOK, ReadNotice
<1>2. /\ m \in Notice /\ m = notices[p][1] /\ Len(Tail(notices[p])) = Len(notices[p]) - 1
      /\ \A i \in 1..Len(Tail(notices[p])) : Tail(notices[p])[i] = notices[p][i + 1]
      /\ Len(notices[p]) \in Nat /\ 1 \in 1..Len(notices[p])
  BY <1>1
<1>3. m.from \in Proc
  BY <1>2 DEF Notice
<1>4. alive' = alive /\ alive \subseteq Proc
  BY DEF ReadNotice, Inv, TypeOK
<1>5. /\ notices'[p] = Tail(notices[p])
      /\ \A r \in Proc \ {p} : notices'[r] = notices[r] /\ cache'[r] = cache[r]
      /\ \A r \in Proc : cache'[p][r] = IF Tells(m, r) THEN m.n ELSE cache[p][r]
  <2>1. notices' = [notices EXCEPT ![p] = Tail(@)]
    BY DEF ReadNotice
  <2>2. \/ m.type = "have-a-connection" /\ cache' = [cache EXCEPT ![p][m.from] = m.n]
        \/ m.type = "connection-error" /\ cache' = cache
    BY DEF ReadNotice, Attach
  <2>3. /\ notices \in [Proc -> Seq(Notice)]
        /\ cache \in [Proc -> [Proc -> Conn \cup {0}]]
    BY DEF Inv, TypeOK
  <2> HIDE DEF m
  <2>4. \A r \in Proc \ {p} : cache'[r] = cache[r]
    BY <2>2, <2>3
  <2>5. \A r \in Proc : cache'[p][r] = IF Tells(m, r) THEN m.n ELSE cache[p][r]
    BY <1>3, <2>2, <2>3 DEF Tells
  <2> QED BY <2>1, <2>3, <2>4, <2>5
<1> HIDE DEF m
<1>6. ASSUME NEW a \in Proc, NEW b \in Proc, NEW d, Known(a, b, d)
      PROVE  Known(a, b, d)'
  <2>1. CASE a # p
    BY <1>5, <1>6, <2>1 DEF Known, Tells
  <2>2. CASE a = p /\ \A i \in 1..Len(notices[p]) : ~Tells(notices[p][i], b)
    <3>1. cache'[p][b] = d
      BY <1>2, <1>5, <1>6, <2>2 DEF Known
    <3>2. \A i \in 1..Len(notices'[p]) : ~Tells(notices'[p][i], b)
      BY <1>2, <1>5, <2>2
    <3> QED BY <2>2, <3>1, <3>2 DEF Known, Tells
  <2>3. CASE /\ a = p
             /\ \E i \in 1..Len(notices[p]) :
                  /\ Tells(notices[p][i], b) /\ notices[p][i].n = d
                  /\ \A j \in 1..Len(notices[p]) : j > i => ~Tells(notices[p][j], b)
    <3>1. PICK i \in 1..Len(notices[p]) :
                  /\ Tells(notices[p][i], b) /\ notices[p][i].n = d
                  /\ \A j \in 1..Len(notices[p]) : j > i => ~Tells(notices[p][j], b)
      BY <2>3
    <3>2. CASE i = 1
      <4>1. cache'[p][b] = d
        BY <1>2, <1>5, <3>1, <3>2
      <4>2. \A j \in 1..Len(notices'[p]) : ~Tells(notices'[p][j], b)
        BY <1>2, <1>5, <3>1, <3>2
      <4> QED BY <2>3, <4>1, <4>2 DEF Known, Tells
    <3>3. CASE i > 1
      <4>1. i - 1 \in 1..Len(notices'[p]) /\ notices'[p][i - 1] = notices[p][i]
        BY <1>2, <1>5, <3>3
      <4>2. \A j \in 1..Len(notices'[p]) : j > i - 1 => ~Tells(notices'[p][j], b)
        BY <1>2, <1>5, <3>1, <3>3
      <4> QED BY <2>3, <3>1, <4>1, <4>2 DEF Known, Tells
    <3> QED BY <3>2, <3>3
  <2> QED BY <1>6, <2>1, <2>2, <2>3 DEF Known
<1> QED BY <1>4, <1>6 DEF Agreed

\* What happens to other caches than those of living processes for each other.
LEMMA AgreedKept ==
    ASSUME Inv, Agreed, alive' \subseteq alive, notices' = notices,
           \A a, b \in alive : cache'[a][b] = cache[a][b]
    PROVE  Agreed'
<1> SUFFICES ASSUME NEW a \in alive', NEW b \in alive', a # b
             PROVE  \E d \in Conn \cup {0} : Known(a, b, d)' /\ Known(b, a, d)'
  BY DEF Agreed
<1>1. PICK d \in Conn \cup {0} : Known(a, b, d) /\ Known(b, a, d)
  BY DEF Agreed
<1>2. cache'[a][b] = cache[a][b] /\ cache'[b][a] = cache[b][a]
  OBVIOUS
<1>3. Known(a, b, d)'
  BY <1>1, <1>2 DEF Known, Tells
<1>4. Known(b, a, d)'
  BY <1>1, <1>2 DEF Known, Tells
<1> QED BY <1>3, <1>4

LEMMA NextAgreed == Inv /\ Agreed /\ [Next]_vars => Agreed'
<1> SUFFICES ASSUME Inv, Agreed, [Next]_vars PROVE Agreed'
  OBVIOUS
<1>1. CASE UNCHANGED <<alive, notices, cache>>
  BY <1>1, AgreedKept
<1>2. ASSUME NEW p \in Proc, HandleConnect(p) PROVE Agreed'
  BY <1>2, HandleConnectAgreed
<1>3. ASSUME NEW p \in Proc, ReadNotice(p) PROVE Agreed'
  BY <1>3, ReadNoticeAgreed
<1>4. ASSUME NEW p \in Proc, Die(p) PROVE Agreed'
  BY <1>4, AgreedKept DEF Die
<1>5. ASSUME NEW p \in Proc, NEW c \in DOMAIN conns, ReadEnd(c, p) PROVE Agreed'
  <2>1. /\ UNCHANGED <<alive, notices>> /\ Peer(c, p) \notin alive
        /\ cache' = [cache EXCEPT ![p][Peer(c, p)] = 0]
    BY <1>5 DEF ReadEnd, netVars
  <2>2. /\ cache \in [Proc -> [Proc -> Conn \cup {0}]] /\ alive \subseteq Proc
        /\ Peer(c, p) \in Proc
    BY PeerType DEF Inv, TypeOK
  <2>3. \A a, b \in alive : cache'[a][b] = cache[a][b]
    BY <2>1, <2>2
  <2> QED BY <2>1, <2>3, AgreedKept
<1>6. ASSUME NEW p \in Proc, SendStep(p) \/ UserReceive(p) \/ (\E t \in Proc : StartSend(p, t))
      PROVE  UNCHANGED <<alive, notices, cache>>
  BY <1>6 DEF SendStep, GetCached, RequestConnect, AwaitConnect, GetConnected, Write,
              UserReceive, StartSend, netVars
<1>7. ASSUME NEW p \in Proc, NEW c \in DOMAIN conns,
             CheckFlag(p) \/ ReadMessage(c, p) \/ ReadShut(c, p)
      PROVE  UNCHANGED <<alive, notices, cache>>
  BY <1>7 DEF CheckFlag, ReadMessage, ReadShut, netVars
<1>8. ASSUME NEW p \in Proc, CheckFlag(p)
      PROVE  UNCHANGED <<alive, notices, cache>>
  BY <1>8 DEF CheckFlag, netVars
<1>9. ASSUME NEW p \in Proc, ReaderStep(p) PROVE Agreed'
  BY <1>1, <1>3, <1>5, <1>7, <1>8, <1>9 DEF ReaderStep
<1> QED BY <1>1, <1>2, <1>4, <1>6, <1>9 DEF Next, vars, netVars

\* However the connects of two living processes cross, and whatever order their
\* reader threads take, both end up with the same connection in their caches,
\* or neither has one.
THEOREM CachesAgreeCorrect == Spec => []CachesAgree
<1>1. Init => Agreed
  <2> SUFFICES ASSUME Init PROVE Agreed
    OBVIOUS
  <2>1. \A p, r \in Proc : cache[p][r] = 0 /\ notices[p] = <<>>
    BY DEF Init
  <2>2. \A p, r \in Proc : Known(p, r, 0)
    BY <2>1 DEF Known
  <2> QED BY <2>2 DEF Agreed, Init
<1>2. Inv /\ Agreed => CachesAgree
  <2> SUFFICES ASSUME Inv, Agreed, NEW p \in alive, NEW r \in alive,
                      notices[p] = <<>>, notices[r] = <<>>
               PROVE  cache[p][r] = cache[r][p]
    BY DEF CachesAgree
  <2>1. CASE p # r
    BY <2>1 DEF Agreed, Known
  <2> QED BY <2>1
<1> QED BY <1>1, <1>2, NextAgreed, AlwaysInv, PTL DEF Spec

----------------------------------------------------------------------------
(* Answers.                                                                 *)

\* What p has asked for, and what its flag says it waits for.
Asked   == \A p \in Proc : \A i \in 1..Len(requests[p]) : <<p, requests[p][i]>> \in asked
Flagged == \A p \in Proc : flag[p] # None => <<p, flag[p]>> \in asked

\* A notice that answers a connect of p, as far as p can tell; the others
\* announce connections that their makers have asked for.
Own(p, m)       == m.type = "connection-error" \/ m.from = flag[p]
ForeignTo(p, m) == Own(p, m) \/ <<m.from, p>> \in asked
Foreign(p) ==
    /\ \A i \in 1..Len(notices[p]) : ForeignTo(p, notices[p][i])
    /\ \A m \in pending[p] : ForeignTo(p, m)

NoneSent(p)  == \A i \in 1..Len(notices[p]) : ~Own(p, notices[p][i])
OneSent(p)   == \A i, j \in 1..Len(notices[p]) :
                    Own(p, notices[p][i]) /\ Own(p, notices[p][j]) => i = j
NoneRead(p)  == \A m \in pending[p] : ~Own(p, m)
NoneQueued(p) == \A i \in 1..Len(box[p]) : ~IsNotice(box[p][i])
OneQueued(p)  == \A i, j \in 1..Len(box[p]) :
                    IsNotice(box[p][i]) /\ IsNotice(box[p][j]) => i = j

\* Where the answer is that p waits for: not asked for, with central, on the
\* way, with the reader thread, or in the queue, and never in two places.
NotAsked(p)  == requests[p] = <<>> /\ NoneSent(p) /\ NoneRead(p) /\ NoneQueued(p)
AtCentral(p) == requests[p] = <<flag[p]>> /\ NoneSent(p) /\ NoneRead(p) /\ NoneQueued(p)
OnWay(p)     == requests[p] = <<>> /\ OneSent(p) /\ NoneRead(p) /\ NoneQueued(p)
AtReader(p)  == requests[p] = <<>> /\ NoneSent(p) /\ NoneQueued(p)
InQueue(p)   == requests[p] = <<>> /\ NoneSent(p) /\ NoneRead(p) /\ OneQueued(p)

Outstanding(p) ==
    IF pc[p] = "await" THEN AtCentral(p) \/ OnWay(p) \/ AtReader(p) \/ InQueue(p)
    ELSE NotAsked(p)

Answered(p) == Crossed(p) \/ (Outstanding(p) /\ Foreign(p))
Answers == \A p \in alive : Answered(p)
InvN == Asked /\ Flagged /\ Answers /\ NoticesAwaited

LEMMA CrossedStays ==
    ASSUME asked \subseteq asked', NEW p, Crossed(p) PROVE Crossed(p)'
BY DEF Crossed

LEMMA OwnAsked ==
    ASSUME Inv, InvN, NEW p \in Proc, NEW m \in Notice, m.type # "connection-error", Own(p, m)
    PROVE  <<p, m.from>> \in asked
BY ConnectAssumption DEF InvN, Flagged, Own, Notice

LEMMA FlagsKept ==
    ASSUME InvN, flag' = flag, requests' = requests, asked' = asked
    PROVE  Asked' /\ Flagged'
BY DEF InvN, Asked, Flagged

\* A process with nothing of its own changed.
LEMMA SameAnswered ==
    ASSUME NEW p, Answered(p), asked \subseteq asked', pc'[p] = pc[p], flag'[p] = flag[p],
           requests'[p] = requests[p], notices'[p] = notices[p], pending'[p] = pending[p],
           box'[p] = box[p]
    PROVE  Answered(p)'
<1>1. Crossed(p) => Crossed(p)'
  BY DEF Crossed
<1>2. Foreign(p) => Foreign(p)'
  BY DEF Foreign, ForeignTo, Own
<1>3. Outstanding(p) => Outstanding(p)'
  BY DEF Outstanding, AtCentral, OnWay, AtReader, InQueue, NotAsked, NoneSent, OneSent,
         NoneRead, NoneQueued, OneQueued, Own, IsNotice
<1> QED BY <1>1, <1>2, <1>3 DEF Answered

\* A step of p touches nobody else.
LEMMA OthersAnswered ==
    ASSUME Inv, InvN, NEW p \in Proc, alive' \subseteq alive, asked \subseteq asked',
           \A q \in Proc \ {p} :
               /\ pc'[q] = pc[q] /\ flag'[q] = flag[q] /\ requests'[q] = requests[q]
               /\ notices'[q] = notices[q] /\ pending'[q] = pending[q] /\ box'[q] = box[q],
           p \in alive' => Answered(p)'
    PROVE  Answers'
<1>1. \A q \in alive' \ {p} : q \in Proc /\ Answered(q)
  BY DEF Inv, TypeOK, InvN, Answers
<1>2. \A q \in alive' \ {p} : Answered(q)'
  BY <1>1, SameAnswered
<1> QED BY <1>2 DEF Answers

\* Only living processes touch their queues.
LEMMA Awaiting ==
    ASSUME Inv, InvN, Answers', box' \in [Proc -> Seq(Letter \cup Notice)],
           asked \subseteq asked',
           \A q \in Proc : q \in alive' \/ (pc'[q] = pc[q] /\ box'[q] = box[q])
    PROVE  NoticesAwaited'
<1> SUFFICES ASSUME NEW q \in Proc, ~Crossed(q)', NEW i \in DOMAIN box'[q],
                    IsNotice(box'[q][i])
             PROVE  pc'[q] = "await"
  BY DEF NoticesAwaited, IsNotice
<1>1. CASE q \in alive'
  <2>1. Outstanding(q)'
    BY <1>1 DEF Answers, Answered
  <2>2. i \in 1..Len(box'[q])
    OBVIOUS
  <2>3. ~NoneQueued(q)'
    BY <2>2 DEF NoneQueued, IsNotice
  <2> QED BY <2>1, <2>3 DEF Outstanding, NotAsked
<1>2. CASE pc'[q] = pc[q] /\ box'[q] = box[q]
  <2>1. ~Crossed(q)
    BY CrossedStays
  <2> QED BY <1>2, <2>1 DEF InvN, NoticesAwaited
<1> QED BY <1>1, <1>2

LEMMA Rest ==
    ASSUME NEW S, NEW s \in Seq(S), s # <<>>, NEW t, t = Tail(s)
    PROVE  /\ Len(s) \in Nat /\ Len(t) = Len(s) - 1 /\ 1 \in 1..Len(s) /\ s[1] = Head(s)
           /\ \A i \in 1..Len(t) : i + 1 \in 1..Len(s) /\ t[i] = s[i + 1]
OBVIOUS

\* A step of the user's thread outside of a connect.
LEMMA IdleStep ==
    ASSUME Inv, InvN, NEW p \in alive, pc[p] # "await", pc'[p] # "await",
           UNCHANGED <<alive, asked, flag, requests, notices, pending>>,
           \A q \in Proc \ {p} : pc'[q] = pc[q] /\ box'[q] = box[q],
           \A i \in 1..Len(box'[p]) : \E j \in 1..Len(box[p]) : box'[p][i] = box[p][j],
           box' \in [Proc -> Seq(Letter \cup Notice)]
    PROVE  InvN'
<1>0. p \in Proc
  BY DEF Inv, TypeOK
<1>1. Answered(p)'
  <2>1. CASE Crossed(p)
    BY <2>1, CrossedStays DEF Answered
  <2>2. CASE NotAsked(p) /\ Foreign(p)
    <3>1. NoneQueued(p)'
      BY <2>2 DEF NotAsked, NoneQueued, IsNotice
    <3>2. NotAsked(p)' /\ Foreign(p)'
      BY <2>2, <3>1 DEF NotAsked, NoneSent, NoneRead, Foreign, ForeignTo, Own
    <3> QED BY <3>2 DEF Answered, Outstanding
  <2> QED BY <2>1, <2>2 DEF InvN, Answers, Answered, Outstanding
<1>2. Answers'
  BY <1>0, <1>1, OthersAnswered
<1>3. NoticesAwaited'
  BY <1>0, <1>2, Awaiting
<1> QED BY <1>2, <1>3, FlagsKept DEF InvN

LEMMA UserStep ==
    ASSUME Inv, InvN, NEW p \in Proc,
           GetCached(p) \/ Write(p) \/ UserReceive(p) \/ (\E t \in Proc : StartSend(p, t))
    PROVE  InvN'
<1>1. /\ p \in alive /\ pc[p] # "await" /\ pc'[p] # "await"
      /\ \A q \in Proc \ {p} : pc'[q] = pc[q]
      /\ UNCHANGED <<alive, asked, flag, requests, notices, pending>>
  BY DEF Inv, TypeOK, GetCached, Write, UserReceive, StartSend, At, Goto, threadVars, netVars
<1>2. /\ box' \in [Proc -> Seq(Letter \cup Notice)]
      /\ \A q \in Proc \ {p} : box'[q] = box[q]
      /\ \A i \in 1..Len(box'[p]) : \E j \in 1..Len(box[p]) : box'[p][i] = box[p][j]
  <2>1. box \in [Proc -> Seq(Letter \cup Notice)]
    BY DEF Inv, TypeOK
  <2>2. CASE UNCHANGED box
    BY <2>1, <2>2
  <2>3. CASE box[p] # <<>> /\ box' = [box EXCEPT ![p] = Tail(@)]
    <3>1. box[p] \in Seq(Letter \cup Notice) /\ box'[p] = Tail(box[p])
      BY <2>1, <2>3
    <3>2. \A i \in 1..Len(box'[p]) : i + 1 \in 1..Len(box[p]) /\ box'[p][i] = box[p][i + 1]
      <4>1. box[p] # <<>>
        BY <2>3
      <4> QED BY <3>1, <4>1, Rest
    <3> QED BY <2>1, <2>3, <3>1, <3>2
  <2> QED BY <2>2, <2>3 DEF GetCached, Write, UserReceive, StartSend
<1> QED BY <1>1, <1>2, IdleStep

LEMMA RequestStep ==
    ASSUME Inv, InvN, NEW p \in Proc, RequestConnect(p) PROVE InvN'
<1>1. /\ p \in alive /\ pc[p] = "absent" /\ tgt[p] \in Proc
      /\ pc'[p] = "await" /\ flag'[p] = tgt[p]
      /\ requests'[p] = Append(requests[p], tgt[p])
      /\ asked' = asked \cup {<<p, tgt[p]>>}
      /\ UNCHANGED <<alive, notices, pending, box>>
      /\ \A q \in Proc \ {p} : pc'[q] = pc[q] /\ flag'[q] = flag[q] /\ requests'[q] = requests[q]
  BY DEF Inv, TypeOK, Picked, RequestConnect, At, Goto, SetFlag
<1>2. Answered(p)'
  <2> SUFFICES ASSUME ~Crossed(p)' PROVE Answered(p)'
    BY DEF Answered
  <2>1. NotAsked(p) /\ Foreign(p)
    BY <1>1, CrossedStays DEF InvN, Answers, Answered, Outstanding
  <2>2. <<tgt[p], p>> \notin asked
    BY <1>1 DEF Crossed
  <2>3. \A i \in 1..Len(notices[p]) : ~Own(p, notices[p][i])'
    BY <1>1, <2>1, <2>2 DEF NotAsked, NoneSent, Foreign, ForeignTo, Own
  <2>4. \A m \in pending[p] : m.type # "connection-error" /\ m.from # flag'[p]
    BY <1>1, <2>1, <2>2 DEF NotAsked, NoneRead, Foreign, ForeignTo, Own
  <2>5. requests'[p] = <<flag'[p]>>
    BY <1>1, <2>1 DEF NotAsked
  <2>6. AtCentral(p)'
    BY <1>1, <2>1, <2>3, <2>4, <2>5
       DEF NotAsked, AtCentral, NoneSent, NoneRead, NoneQueued, Own, IsNotice
  <2>7. Foreign(p)'
    BY <1>1, <2>1 DEF NotAsked, NoneSent, NoneRead, Foreign, ForeignTo, Own
  <2> QED BY <1>1, <2>6, <2>7 DEF Answered, Outstanding
<1>3. Answers'
  BY <1>1, <1>2, OthersAnswered
<1>4. NoticesAwaited'
  <2>1. box' \in [Proc -> Seq(Letter \cup Notice)]
    BY <1>1 DEF Inv, TypeOK
  <2> QED BY <1>1, <1>3, <2>1, Awaiting
<1>5. Asked'
  <2> SUFFICES ASSUME NEW q \in Proc, NEW i \in 1..Len(requests'[q])
               PROVE  <<q, requests'[q][i]>> \in asked'
    BY DEF Asked
  <2>1. CASE q # p
    BY <1>1, <2>1 DEF InvN, Asked
  <2>2. CASE q = p
    <3>1. requests[p] \in Seq(Proc)
      BY DEF Inv, TypeOK
    <3>2. \/ i \in 1..Len(requests[p]) /\ requests'[p][i] = requests[p][i]
          \/ requests'[p][i] = tgt[p]
      BY <1>1, <2>2, <3>1
    <3> QED BY <1>1, <2>2, <3>2 DEF InvN, Asked
  <2> QED BY <2>1, <2>2
<1>6. Flagged'
  BY <1>1 DEF InvN, Flagged
<1> QED BY <1>3, <1>4, <1>5, <1>6 DEF InvN

LEMMA AwaitStep ==
    ASSUME Inv, InvN, NEW p \in Proc, AwaitConnect(p) PROVE InvN'
<1>1. PICK i \in 1..Len(box[p]) :
        /\ IsNotice(box[p][i])
        /\ \/ box' = [box EXCEPT ![p] = RemoveAt(box[p], i)]
           \/ box' = [box EXCEPT ![p] = SubSeq(box[p], i + 1, Len(box[p]))]
  <2>1. PICK i \in DOMAIN box[p] :
          /\ IsNotice(box[p][i])
          /\ box' = [box EXCEPT ![p] =
                       IF box[p][i].type = "have-a-connection" /\ box[p][i].from = tgt[p]
                       THEN RemoveAt(box[p], i)
                       ELSE SubSeq(box[p], i + 1, Len(box[p]))]
    BY DEF AwaitConnect
  <2>2. i \in 1..Len(box[p])
    BY DEF Inv, TypeOK
  <2> QED BY <2>1, <2>2
<1>2. /\ p \in alive /\ pc[p] = "await" /\ pc'[p] # "await"
      /\ \A q \in Proc \ {p} : pc'[q] = pc[q]
      /\ UNCHANGED <<alive, asked, flag, requests, notices, pending>>
  BY DEF Inv, TypeOK, AwaitConnect, At, Goto, threadVars, netVars
<1>3. /\ box' \in [Proc -> Seq(Letter \cup Notice)]
      /\ \A q \in Proc \ {p} : box'[q] = box[q]
  BY AwaitConnectInv, <1>1 DEF Inv, TypeOK
<1>4. Without(box'[p], box[p], i)
  <2>1. box[p] \in Seq(Letter \cup Notice)
    BY DEF Inv, TypeOK
  <2>2. \/ box'[p] = RemoveAt(box[p], i)
        \/ box'[p] = SubSeq(box[p], i + 1, Len(box[p]))
    BY <1>1 DEF Inv, TypeOK
  <2> QED BY <2>1, <2>2, Removed
<1>5. Answered(p)'
  <2>1. CASE Crossed(p)
    BY <1>2, <2>1, CrossedStays DEF Answered
  <2>2. CASE Outstanding(p) /\ Foreign(p)
    <3>1. InQueue(p)
      BY <1>1, <1>2, <2>2 DEF Outstanding, AtCentral, OnWay, AtReader, NoneQueued
    <3>2. NoneQueued(p)'
      <4> SUFFICES ASSUME NEW j \in 1..Len(box'[p]), IsNotice(box'[p][j]) PROVE FALSE
        BY DEF NoneQueued, IsNotice
      <4>1. PICK f \in [1..Len(box'[p]) -> 1..Len(box[p])] :
               \A k \in 1..Len(box'[p]) : box'[p][k] = box[p][f[k]] /\ f[k] # i
        BY <1>4 DEF Without
      <4>2. f[j] \in 1..Len(box[p]) /\ f[j] # i /\ IsNotice(box[p][f[j]])
        BY <4>1
      <4> QED BY <1>1, <3>1, <4>2 DEF InQueue, OneQueued
    <3>3. NotAsked(p)' /\ Foreign(p)'
      BY <1>2, <2>2, <3>1, <3>2 DEF InQueue, NotAsked, NoneSent, NoneRead, Foreign, ForeignTo, Own
    <3> QED BY <1>2, <3>3 DEF Answered, Outstanding
  <2> QED BY <1>2, <2>1, <2>2 DEF InvN, Answers, Answered
<1>6. Answers'
  BY <1>2, <1>3, <1>5, OthersAnswered
<1>7. NoticesAwaited'
  BY <1>2, <1>3, <1>6, Awaiting
<1> QED BY <1>2, <1>6, <1>7, FlagsKept DEF InvN

LEMMA GetConnectedStep ==
    ASSUME Inv, InvN, NEW p \in Proc, GetConnected(p) PROVE InvN'
<1>1. /\ p \in alive /\ pc[p] # "await" /\ pc'[p] # "await"
      /\ flag'[p] = flag[p] \/ flag'[p] = None
      /\ \A q \in Proc \ {p} : pc'[q] = pc[q] /\ flag'[q] = flag[q]
      /\ UNCHANGED <<alive, asked, requests, notices, pending, box>>
  BY DEF Inv, TypeOK, GetConnected, At, Goto, threadVars, netVars
<1>2. Answered(p)'
  <2>1. CASE Crossed(p)
    BY <1>1, <2>1, CrossedStays DEF Answered
  <2>2. CASE NotAsked(p) /\ Foreign(p)
    <3>1. /\ \A i \in 1..Len(notices[p]) : notices[p][i].from \in Proc
          /\ \A m \in pending[p] : m.from \in Proc
      <4>1. notices[p] \in Seq(Notice) /\ pending[p] \subseteq Notice
        BY DEF Inv, TypeOK
      <4>2. \A m \in Notice : m.from \in Proc
        BY DEF Notice
      <4> QED BY <4>1, <4>2
    <3>2. None \notin Proc
      BY ConnectAssumption
    <3>3. NoneSent(p)' /\ NoneRead(p)'
      BY <1>1, <2>2, <3>1, <3>2 DEF NotAsked, NoneSent, NoneRead, Own
    <3>4. NotAsked(p)' /\ Foreign(p)'
      BY <1>1, <2>2, <3>3 DEF NotAsked, NoneSent, NoneRead, NoneQueued, IsNotice, Foreign, ForeignTo, Own
    <3> QED BY <1>1, <3>4 DEF Answered, Outstanding
  <2> QED BY <1>1, <2>1, <2>2 DEF InvN, Answers, Answered, Outstanding
<1>3. Answers'
  BY <1>1, <1>2, OthersAnswered
<1>4. NoticesAwaited'
  <2>1. box' \in [Proc -> Seq(Letter \cup Notice)]
    BY <1>1 DEF Inv, TypeOK
  <2> QED BY <1>1, <1>3, <2>1, Awaiting
<1>5. Asked' /\ Flagged'
  BY <1>1 DEF InvN, Asked, Flagged
<1> QED BY <1>3, <1>4, <1>5 DEF InvN

LEMMA DieStep ==
    ASSUME Inv, InvN, NEW p \in Proc, Die(p) PROVE InvN'
<1>1. /\ alive' = alive \ {p}
      /\ requests' = [requests EXCEPT ![p] = <<>>]
      /\ UNCHANGED <<pc, asked, flag, notices, pending, box>>
  BY DEF Die, threadVars
<1>2. requests'[p] = <<>> /\ \A q \in Proc \ {p} : requests'[q] = requests[q]
  BY <1>1 DEF Inv, TypeOK
<1>3. Answers'
  BY <1>1, <1>2, OthersAnswered
<1>4. NoticesAwaited'
  <2>1. box' \in [Proc -> Seq(Letter \cup Notice)]
    BY <1>1 DEF Inv, TypeOK
  <2> QED BY <1>1, <1>3, <2>1, Awaiting
<1>5. Asked' /\ Flagged'
  BY <1>1, <1>2 DEF InvN, Asked, Flagged
<1> QED BY <1>3, <1>4, <1>5 DEF InvN

LEMMA HandleStep ==
    ASSUME Inv, InvN, NEW p \in Proc, HandleConnect(p),
           NEW t, t = Head(requests[p]), NEW c, c = Len(conns) + 1
    PROVE  InvN'
<1>1. /\ t \in Proc
      /\ requests[p] \in Seq(Proc) /\ requests[p] # <<>>
      /\ requests' = [requests EXCEPT ![p] = Tail(@)]
      /\ notices' \in [Proc -> Seq(Notice)]
  BY Answering
<1>2. \A r \in Proc :
        /\ Len(notices[r]) <= Len(notices'[r])
        /\ \A i \in 1..Len(notices[r]) : notices'[r][i] = notices[r][i]
        /\ \A i \in 1..Len(notices'[r]) : i > Len(notices[r]) =>
             \/ r = t /\ t \in alive /\ notices'[r][i] = Have(p, c)
             \/ r = p /\ t \in alive /\ notices'[r][i] = Have(t, c)
             \/ r = p /\ t \notin alive /\ notices'[r][i] = Failed(t)
  BY Answering
<1>0. \A r \in Proc : r # p /\ r # t => notices'[r] = notices[r]
  BY Answering
<1>3. t # p /\ t \in alive => Len(notices'[p]) = Len(notices[p]) + 1
  <2> SUFFICES ASSUME t # p, t \in alive PROVE Len(notices'[p]) = Len(notices[p]) + 1
    OBVIOUS
  <2>1. notices'[p] = Append(notices[p], Have(t, c))
    BY Answering
  <2>2. notices[p] \in Seq(Notice)
    BY DEF Inv, TypeOK
  <2> QED BY <2>1, <2>2
<1>4. t # p /\ t \notin alive => Len(notices'[p]) = Len(notices[p]) + 1
  <2> SUFFICES ASSUME t # p, t \notin alive PROVE Len(notices'[p]) = Len(notices[p]) + 1
    OBVIOUS
  <2>1. notices'[p] = Append(notices[p], Failed(t))
    BY Answering
  <2>2. notices[p] \in Seq(Notice)
    BY DEF Inv, TypeOK
  <2> QED BY <2>1, <2>2
<1>5. UNCHANGED <<alive, pc, asked, flag, pending, box>> /\ alive \subseteq Proc
  BY DEF HandleConnect, threadVars, Inv, TypeOK
<1>6. /\ \A q \in Proc \ {p} : requests'[q] = requests[q]
      /\ requests'[p] = Tail(requests[p])
      /\ \A q \in Proc : Len(notices[q]) \in Nat /\ Len(notices'[q]) \in Nat
  <2>1. requests \in [Proc -> Seq(Proc)] /\ notices \in [Proc -> Seq(Notice)]
    BY DEF Inv, TypeOK
  <2>2. \A q \in Proc : Len(notices[q]) \in Nat /\ Len(notices'[q]) \in Nat
    BY <1>1, <2>1
  <2> QED BY <1>1, <2>1, <2>2
<1>7. <<p, t>> \in asked
  <2>1. 1 \in 1..Len(requests[p]) /\ requests[p][1] = t
    BY <1>1
  <2> QED BY <2>1 DEF InvN, Asked
<1>8. /\ Have(t, c).type = "have-a-connection" /\ Have(t, c).from = t
      /\ Have(p, c).type = "have-a-connection" /\ Have(p, c).from = p
      /\ Failed(t).type = "connection-error"
  BY DEF Have, Failed
<1>9. p \in alive => Answered(p)'
  <2> SUFFICES ASSUME p \in alive, ~Crossed(p) PROVE Answered(p)'
    BY <1>5, CrossedStays DEF Answered
  <2>1. Outstanding(p) /\ Foreign(p)
    BY DEF InvN, Answers, Answered
  <2>2. pc[p] = "await" /\ AtCentral(p) /\ t = flag[p]
    BY <1>1, <2>1 DEF Outstanding, NotAsked, AtCentral, OnWay, AtReader, InQueue
  <2>3. t # p
    BY <1>1, <1>7 DEF Crossed
  <2>4. Len(notices'[p]) = Len(notices[p]) + 1
    BY <1>3, <1>4, <2>3
  <2>5. \A i \in 1..Len(notices'[p]) :
          \/ i \in 1..Len(notices[p]) /\ notices'[p][i] = notices[p][i]
          \/ i = Len(notices[p]) + 1 /\ Own(p, notices'[p][i])
    <3> SUFFICES ASSUME NEW i \in 1..Len(notices'[p]), i \notin 1..Len(notices[p])
                 PROVE  i = Len(notices[p]) + 1 /\ Own(p, notices'[p][i])
      BY <1>2
    <3>1. i > Len(notices[p]) /\ i = Len(notices[p]) + 1
      BY <1>6, <2>4
    <3>2. notices'[p][i] = Have(t, c) \/ notices'[p][i] = Failed(t)
      BY <1>2, <2>3, <3>1
    <3> QED BY <1>8, <2>2, <3>1, <3>2 DEF Own
  <2>6. OneSent(p)'
    <3>1. \A i \in 1..Len(notices'[p]) :
             Own(p, notices'[p][i]) => i = Len(notices[p]) + 1
      BY <2>2, <2>5 DEF AtCentral, NoneSent
    <3> QED BY <1>5, <3>1 DEF OneSent, Own
  <2>7. requests'[p] = <<>>
    BY <1>6, <2>2 DEF AtCentral
  <2>8. OnWay(p)'
    BY <1>5, <2>2, <2>6, <2>7 DEF AtCentral, OnWay, NoneRead, NoneQueued, Own, IsNotice
  <2>9. Foreign(p)'
    BY <1>5, <2>1, <2>5 DEF Foreign, ForeignTo, Own
  <2> QED BY <1>5, <2>2, <2>8, <2>9 DEF Answered, Outstanding
<1>10. t \in alive /\ t # p => Answered(t)'
  <2> SUFFICES ASSUME t \in alive, t # p, ~Crossed(t) PROVE Answered(t)'
    BY <1>5, CrossedStays DEF Answered
  <2>1. Outstanding(t) /\ Foreign(t)
    BY DEF InvN, Answers, Answered
  <2>2. p # flag[t]
    <3>1. None \notin Proc
      BY ConnectAssumption
    <3>2. p = flag[t] => <<t, p>> \in asked
      BY <1>1, <3>1 DEF InvN, Flagged
    <3> QED BY <1>7, <3>2 DEF Crossed
  <2>3. \A i \in 1..Len(notices'[t]) :
          \/ i \in 1..Len(notices[t]) /\ notices'[t][i] = notices[t][i]
          \/ ~Own(t, notices'[t][i]) /\ notices'[t][i] = Have(p, c)
    <3> SUFFICES ASSUME NEW i \in 1..Len(notices'[t]), i \notin 1..Len(notices[t])
                 PROVE  ~Own(t, notices'[t][i]) /\ notices'[t][i] = Have(p, c)
      BY <1>1, <1>2
    <3>1. i > Len(notices[t])
      BY <1>1, <1>6
    <3>2. notices'[t][i] = Have(p, c)
      BY <1>1, <1>2, <3>1
    <3> QED BY <1>8, <2>2, <3>2 DEF Own
  <2>4. NoneSent(t) => NoneSent(t)'
    BY <1>5, <2>3 DEF NoneSent, Own
  <2>5. OneSent(t) => OneSent(t)'
    <3> SUFFICES ASSUME OneSent(t), NEW i \in 1..Len(notices'[t]), NEW j \in 1..Len(notices'[t]),
                        Own(t, notices'[t][i]), Own(t, notices'[t][j])
                 PROVE  i = j
      BY <1>5 DEF OneSent, Own
    <3> QED BY <2>3 DEF OneSent
  <2>6. Outstanding(t)'
    <3>1. requests'[t] = requests[t]
      BY <1>1, <1>6
    <3> QED BY <1>5, <2>1, <2>4, <2>5, <3>1
            DEF Outstanding, AtCentral, OnWay, AtReader, InQueue, NotAsked,
                NoneRead, NoneQueued, OneQueued, Own, IsNotice
  <2>7. Foreign(t)'
    BY <1>5, <1>7, <1>8, <2>1, <2>3 DEF Foreign, ForeignTo, Own
  <2> QED BY <2>6, <2>7 DEF Answered
<1>11. Answers'
  <2> SUFFICES ASSUME NEW q \in alive, q # p, q # t PROVE Answered(q)'
    BY <1>5, <1>9, <1>10 DEF Answers
  <2>1. Answered(q) /\ q \in Proc
    BY <1>5 DEF InvN, Answers
  <2> QED BY <1>0, <1>5, <1>6, <2>1, SameAnswered
<1>12. NoticesAwaited'
  <2>1. box' \in [Proc -> Seq(Letter \cup Notice)]
    BY <1>5 DEF Inv, TypeOK
  <2> QED BY <1>5, <1>11, <2>1, Awaiting
<1>13. Asked'
  <2> SUFFICES ASSUME NEW q \in Proc, NEW i \in 1..Len(requests'[q])
               PROVE  <<q, requests'[q][i]>> \in asked
    BY <1>5 DEF Asked
  <2>1. CASE q # p
    BY <1>6, <2>1 DEF InvN, Asked
  <2>2. CASE q = p
    <3>1. i + 1 \in 1..Len(requests[p]) /\ requests'[p][i] = requests[p][i + 1]
      <4>1. requests'[p] = Tail(requests[p])
        BY <1>6
      <4>2. \A j \in 1..Len(requests'[p]) :
              j + 1 \in 1..Len(requests[p]) /\ requests'[p][j] = requests[p][j + 1]
        BY <1>1, <4>1, Rest
      <4> QED BY <2>2, <4>2
    <3> QED BY <2>2, <3>1 DEF InvN, Asked
  <2> QED BY <2>1, <2>2
<1>14. Flagged'
  BY <1>5 DEF InvN, Flagged
<1> QED BY <1>11, <1>12, <1>13, <1>14 DEF InvN

\* A notice behind those that are there.
LEMMA OneMore ==
    ASSUME Inv, NEW p \in Proc, NEW m \in Letter \cup Notice, box'[p] = Append(box[p], m)
    PROVE  /\ NoneQueued(p) => OneQueued(p)'
           /\ ~IsNotice(m) => /\ NoneQueued(p) => NoneQueued(p)'
                              /\ OneQueued(p) => OneQueued(p)'
<1>1. box[p] \in Seq(Letter \cup Notice) /\ Len(box[p]) \in Nat
  BY DEF Inv, TypeOK
<1>2. \A i \in 1..Len(box'[p]) :
        \/ i \in 1..Len(box[p]) /\ box'[p][i] = box[p][i]
        \/ i = Len(box[p]) + 1 /\ box'[p][i] = m
  BY <1>1
<1>3. NoneQueued(p) => OneQueued(p)'
  BY <1>2 DEF NoneQueued, OneQueued, IsNotice
<1>4. ~IsNotice(m) => (NoneQueued(p) => NoneQueued(p)')
  BY <1>2 DEF NoneQueued, IsNotice
<1>5. ~IsNotice(m) => (OneQueued(p) => OneQueued(p)')
  <2> SUFFICES ASSUME ~IsNotice(m), OneQueued(p), NEW i \in 1..Len(box'[p]),
                      NEW j \in 1..Len(box'[p]), IsNotice(box'[p][i]), IsNotice(box'[p][j])
               PROVE  i = j
    BY DEF OneQueued, IsNotice
  <2>1. i \in 1..Len(box[p]) /\ j \in 1..Len(box[p]) /\ box'[p][i] = box[p][i] /\ box'[p][j] = box[p][j]
    BY <1>2
  <2> QED BY <2>1 DEF OneQueued
<1> QED BY <1>3, <1>4, <1>5

LEMMA ReadNoticeStep ==
    ASSUME Inv, InvN, NEW p \in Proc, ReadNotice(p), NEW m, m = Head(notices[p])
    PROVE  InvN'
<1>1. notices[p] \in Seq(Notice) /\ notices[p] # <<>>
  BY DEF Inv, TypeOK, ReadNotice
<1>2. /\ m \in Notice /\ 1 \in 1..Len(notices[p]) /\ notices[p][1] = m
      /\ notices'[p] = Tail(notices[p])
  BY <1>1 DEF Inv, TypeOK, ReadNotice
<1>3. \A i \in 1..Len(notices'[p]) :
        i + 1 \in 1..Len(notices[p]) /\ notices'[p][i] = notices[p][i + 1] /\ i + 1 # 1
  BY <1>1, <1>2, Rest
<1>4. /\ p \in alive /\ pending[p] = {}
      /\ UNCHANGED <<alive, pc, asked, flag, requests>>
      /\ \A q \in Proc \ {p} : /\ notices'[q] = notices[q] /\ pending'[q] = pending[q]
                               /\ box'[q] = box[q]
  BY DEF Inv, TypeOK, ReadNotice, threadVars, Queue
<1>5. \/ /\ m.type = "have-a-connection" /\ pending'[p] = {m} /\ box'[p] = box[p]
      \/ /\ m.type = "connection-error" /\ pending'[p] = {}
         /\ box'[p] = Append(box[p], m)
  <2>1. pending \in [Proc -> SUBSET Notice] /\ box \in [Proc -> Seq(Letter \cup Notice)]
    BY DEF Inv, TypeOK
  <2> QED BY <1>4, <2>1 DEF ReadNotice, Queue
<1>6. box' \in [Proc -> Seq(Letter \cup Notice)]
  BY ReadNoticeInv DEF Inv, TypeOK
<1>7. Answered(p)'
  <2> SUFFICES ASSUME ~Crossed(p) PROVE Answered(p)'
    BY <1>4, CrossedStays DEF Answered
  <2>1. Outstanding(p) /\ Foreign(p)
    BY <1>4 DEF InvN, Answers, Answered
  <2>2. Foreign(p)'
    BY <1>2, <1>3, <1>4, <1>5, <2>1 DEF Foreign, ForeignTo, Own
  <2>3. NoneSent(p) => NoneSent(p)'
    BY <1>3, <1>4 DEF NoneSent, Own
  <2>4. OneSent(p) => OneSent(p)'
    <3> SUFFICES ASSUME OneSent(p), NEW i \in 1..Len(notices'[p]), NEW j \in 1..Len(notices'[p]),
                        Own(p, notices'[p][i]), Own(p, notices'[p][j])
                 PROVE  i = j
      BY <1>4 DEF OneSent, Own
    <3>1. i + 1 = j + 1
      BY <1>3 DEF OneSent
    <3> QED BY <3>1
  <2>5. CASE ~Own(p, m)
    <3>1. m.type = "have-a-connection" /\ pending'[p] = {m} /\ box'[p] = box[p]
      BY <1>5, <2>5 DEF Own
    <3>2. NoneRead(p)'
      BY <1>4, <2>5, <3>1 DEF NoneRead, Own
    <3>3. Outstanding(p)'
      BY <1>4, <2>1, <2>3, <2>4, <3>1, <3>2
         DEF Outstanding, AtCentral, OnWay, AtReader, InQueue, NotAsked,
             NoneQueued, OneQueued, IsNotice
    <3> QED BY <2>2, <3>3 DEF Answered
  <2>6. CASE Own(p, m)
    <3>1. ~NoneSent(p)
      BY <1>2, <2>6 DEF NoneSent
    <3>2. pc[p] = "await" /\ OnWay(p)
      BY <2>1, <3>1 DEF Outstanding, AtCentral, AtReader, InQueue, NotAsked
    <3>3. NoneSent(p)'
      <4> SUFFICES ASSUME NEW i \in 1..Len(notices'[p]), Own(p, notices'[p][i]) PROVE FALSE
        BY <1>4 DEF NoneSent, Own
      <4>1. i + 1 = 1
        BY <1>2, <1>3, <2>6, <3>2 DEF OnWay, OneSent
      <4> QED BY <1>3, <4>1
    <3>4. CASE box'[p] = box[p]
      <4>1. AtReader(p)'
        BY <1>4, <3>2, <3>3, <3>4 DEF OnWay, AtReader, NoneQueued, IsNotice
      <4> QED BY <1>4, <2>2, <3>2, <4>1 DEF Answered, Outstanding
    <3>5. CASE pending'[p] = {} /\ box'[p] = Append(box[p], m)
      <4>1. OneQueued(p)'
        BY <1>2, <3>2, <3>5, OneMore DEF OnWay
      <4>2. InQueue(p)'
        BY <1>4, <3>2, <3>3, <3>5, <4>1 DEF OnWay, InQueue, NoneRead
      <4> QED BY <1>4, <2>2, <3>2, <4>2 DEF Answered, Outstanding
    <3> QED BY <1>5, <3>4, <3>5
  <2> QED BY <2>5, <2>6
<1>8. Answers'
  BY <1>4, <1>7, OthersAnswered
<1>9. NoticesAwaited'
  BY <1>4, <1>6, <1>8, Awaiting
<1> QED BY <1>4, <1>8, <1>9, FlagsKept DEF InvN

LEMMA CheckFlagStep ==
    ASSUME Inv, InvN, NEW p \in Proc, CheckFlag(p) PROVE InvN'
<1>1. PICK m \in pending[p] :
        /\ p \in alive /\ pending' = [pending EXCEPT ![p] = {}]
        /\ IF Expects(p, m) THEN Queue(p, m) ELSE UNCHANGED box
        /\ UNCHANGED <<alive, pc, asked, flag, requests, notices>>
  BY DEF CheckFlag, threadVars, netVars
<1>2. /\ m \in Notice /\ pending'[p] = {}
      /\ \A q \in Proc \ {p} : pending'[q] = pending[q] /\ box'[q] = box[q]
      /\ IF Expects(p, m) THEN box'[p] = Append(box[p], m) ELSE box'[p] = box[p]
  BY <1>1 DEF Inv, TypeOK, Queue
<1>3. box' \in [Proc -> Seq(Letter \cup Notice)]
  BY CheckFlagInv DEF Inv, TypeOK
<1>4. Answered(p)'
  <2> SUFFICES ASSUME ~Crossed(p) PROVE Answered(p)'
    BY <1>1, CrossedStays DEF Answered
  <2>1. Outstanding(p) /\ Foreign(p)
    BY <1>1 DEF InvN, Answers, Answered
  <2>2. Foreign(p)' /\ NoneRead(p)'
    BY <1>1, <1>2, <2>1 DEF Foreign, ForeignTo, Own, NoneRead
  <2>3. /\ NoneSent(p) => NoneSent(p)'
        /\ OneSent(p) => OneSent(p)'
    BY <1>1 DEF NoneSent, OneSent, Own
  <2>4. CASE box'[p] = box[p]
    <3>1. Outstanding(p)'
      BY <1>1, <2>1, <2>2, <2>3, <2>4
         DEF Outstanding, AtCentral, OnWay, AtReader, InQueue, NotAsked,
             NoneQueued, OneQueued, IsNotice
    <3> QED BY <2>2, <3>1 DEF Answered
  <2>5. CASE Expects(p, m) /\ box'[p] = Append(box[p], m)
    <3>1. ~NoneRead(p)
      BY <2>5 DEF Expects, Own, NoneRead
    <3>2. pc[p] = "await" /\ AtReader(p)
      BY <2>1, <3>1 DEF Outstanding, AtCentral, OnWay, InQueue, NotAsked
    <3>3. OneQueued(p)'
      BY <1>2, <2>5, <3>2, OneMore DEF AtReader
    <3>4. InQueue(p)'
      BY <1>1, <2>2, <2>3, <3>2, <3>3 DEF AtReader, InQueue
    <3> QED BY <1>1, <2>2, <3>2, <3>4 DEF Answered, Outstanding
  <2> QED BY <1>2, <2>4, <2>5
<1>5. Answers'
  BY <1>1, <1>2, <1>4, OthersAnswered
<1>6. NoticesAwaited'
  BY <1>1, <1>2, <1>3, <1>5, Awaiting
<1> QED BY <1>1, <1>5, <1>6, FlagsKept DEF InvN

LEMMA ReadMessageStep ==
    ASSUME Inv, InvN, NEW p \in Proc, NEW c \in DOMAIN conns, ReadMessage(c, p)
    PROVE  InvN'
<1>1. stream[c][p] \in Seq(Letter) /\ stream[c][p] # <<>>
  <2>1. c \in Conn
    BY PeerType
  <2> QED BY <2>1 DEF Inv, TypeOK, ReadMessage
<1>2. Head(stream[c][p]) \in Letter /\ ~IsNotice(Head(stream[c][p]))
  <2>1. Head(stream[c][p]) \in Letter
    BY <1>1
  <2> QED BY <2>1 DEF Letter, IsNotice
<1>3. /\ p \in alive
      /\ UNCHANGED <<alive, pc, asked, flag, requests, notices, pending>>
      /\ box' = [box EXCEPT ![p] = Append(@, Head(stream[c][p]))]
  BY DEF ReadMessage, Reads, Queue, threadVars, netVars
<1>4. /\ box'[p] = Append(box[p], Head(stream[c][p]))
      /\ \A q \in Proc \ {p} : box'[q] = box[q]
  BY <1>3 DEF Inv, TypeOK
<1>5. box' \in [Proc -> Seq(Letter \cup Notice)]
  BY ReadMessageInv DEF Inv, TypeOK
<1>6. Answered(p)'
  <2> SUFFICES ASSUME ~Crossed(p) PROVE Answered(p)'
    BY <1>3, CrossedStays DEF Answered
  <2>1. Outstanding(p) /\ Foreign(p)
    BY <1>3 DEF InvN, Answers, Answered
  <2>2. Foreign(p)'
    BY <1>3, <2>1 DEF Foreign, ForeignTo, Own
  <2>3. /\ NoneQueued(p) => NoneQueued(p)'
        /\ OneQueued(p) => OneQueued(p)'
    BY <1>2, <1>4, OneMore
  <2>4. Outstanding(p)'
    BY <1>3, <2>1, <2>3
       DEF Outstanding, AtCentral, OnWay, AtReader, InQueue, NotAsked,
           NoneSent, OneSent, NoneRead, Own
  <2> QED BY <2>2, <2>4 DEF Answered
<1>7. Answers'
  BY <1>3, <1>4, <1>6, OthersAnswered
<1>8. NoticesAwaited'
  BY <1>3, <1>4, <1>5, <1>7, Awaiting
<1> QED BY <1>3, <1>7, <1>8, FlagsKept DEF InvN

LEMMA NextAnswers == Inv /\ InvN /\ [Next]_vars => InvN'
<1> SUFFICES ASSUME Inv, InvN, [Next]_vars PROVE InvN'
  OBVIOUS
<1>1. ASSUME NEW p \in Proc, \E t \in Proc : StartSend(p, t) PROVE InvN'
  BY <1>1, UserStep
<1>2. ASSUME NEW p \in Proc, SendStep(p) PROVE InvN'
  BY <1>2, UserStep, RequestStep, AwaitStep, GetConnectedStep DEF SendStep
<1>3. ASSUME NEW p \in Proc, UserReceive(p) PROVE InvN'
  BY <1>3, UserStep
<1>4. ASSUME NEW p \in Proc, HandleConnect(p) PROVE InvN'
  BY <1>4, HandleStep
<1>5. ASSUME NEW p \in Proc, Die(p) PROVE InvN'
  BY <1>5, DieStep
<1>6. CASE UNCHANGED <<alive, pc, asked, flag, requests, notices, pending, box>>
  <2>1. Answers'
    <3>1. \A q \in alive : Answered(q)'
      BY <1>6, SameAnswered DEF InvN, Answers
    <3> QED BY <1>6, <3>1 DEF Answers
  <2>2. NoticesAwaited'
    BY <1>6 DEF InvN, NoticesAwaited, Crossed, IsNotice
  <2> QED BY <1>6, <2>1, <2>2, FlagsKept DEF InvN
<1>7. ASSUME NEW p \in Proc, NEW c \in DOMAIN conns, ReadEnd(c, p) \/ ReadShut(c, p)
      PROVE  InvN'
  BY <1>6, <1>7 DEF ReadEnd, ReadShut, threadVars, netVars
<1>8. ASSUME NEW p \in Proc, ReaderStep(p) PROVE InvN'
  BY <1>7, <1>8, ReadNoticeStep, CheckFlagStep, ReadMessageStep DEF ReaderStep
<1> QED BY <1>1, <1>2, <1>3, <1>4, <1>5, <1>6, <1>8 DEF Next, vars, threadVars, netVars

LEMMA AlwaysAnswers == Spec => []InvN
<1>1. Init => InvN
  <2> SUFFICES ASSUME Init PROVE InvN
    OBVIOUS
  <2>1. /\ \A p \in Proc : /\ pc[p] = "idle" /\ flag[p] = None /\ requests[p] = <<>>
                           /\ notices[p] = <<>> /\ pending[p] = {} /\ box[p] = <<>>
        /\ alive = Proc
    BY DEF Init
  <2>2. \A p \in Proc : NotAsked(p) /\ Foreign(p)
    BY <2>1 DEF NotAsked, NoneSent, NoneRead, NoneQueued, Foreign
  <2>3. Answers
    BY <2>1, <2>2 DEF Answers, Answered, Outstanding
  <2> QED BY <2>1, <2>3 DEF InvN, Asked, Flagged, NoticesAwaited
<1> QED BY <1>1, NextAnswers, AlwaysInv, PTL DEF Spec

\* However many processes connect, fail to connect and die, the answer of
\* central gets into the queue of a process that has not asked for a connection
\* crosswise only while its thread waits for it.
THEOREM NoticesAwaitedCorrect == Spec => []NoticesAwaited
<1>1. InvN => NoticesAwaited
  BY DEF InvN
<1> QED BY <1>1, AlwaysAnswers, PTL

----------------------------------------------------------------------------
(* The order in which user processes receive: between two processes neither *)
(* of which has asked crosswise there is one connection, on which messages  *)
(* do not overtake.                                                         *)


----------------------------------------------------------------------------
(* What caches, answers and streams refer to.                               *)

\* Connection c is one between p and r.
Link(c, p, r) ==
    c \in 1..Len(conns) /\ (conns[c] = <<p, r>> \/ conns[c] = <<r, p>>)

\* Whatever leads p to a connection leads it to one with the right process, and
\* connections are made only for those that asked.
CacheLinked  == \A p, r \in Proc : cache[p][r] # 0 => Link(cache[p][r], p, r)
NoticeLinked ==
    \A p \in Proc : \A i \in 1..Len(notices[p]) :
        notices[p][i].type = "have-a-connection" =>
            Link(notices[p][i].n, p, notices[p][i].from)
SockLinked   == \A p \in Proc : pc[p] = "write" => Link(sock[p], p, tgt[p])
StreamLinked ==
    \A c \in Conn, r \in Proc : \A i \in 1..Len(stream[c][r]) :
        Link(c, stream[c][r][i].from, r)
ConnsAsked   == \A c \in 1..Len(conns) : conns[c] \in asked

Links == CacheLinked /\ NoticeLinked /\ SockLinked /\ StreamLinked /\ ConnsAsked

LEMMA LinkStays ==
    ASSUME Inv, NEW c, NEW p, NEW r, Link(c, p, r),
           conns' = conns \/ \E x \in Proc \X Proc : conns' = Append(conns, x)
    PROVE  Link(c, p, r)'
<1>1. conns \in Seq(Proc \X Proc)
  BY DEF Inv, TypeOK
<1>2. c \in 1..Len(conns') /\ conns'[c] = conns[c]
  BY <1>1 DEF Link
<1> QED BY <1>2 DEF Link

\* Steps that make no connection.
LEMMA SameConns ==
    ASSUME Inv, conns' = conns, NEW c, NEW p, NEW r
    PROVE  Link(c, p, r) <=> Link(c, p, r)'
BY DEF Link

LEMMA SameLinks ==
    ASSUME Inv, Links, conns' = conns, asked \subseteq asked'
    PROVE  /\ cache' = cache => CacheLinked'
           /\ notices' = notices => NoticeLinked'
           /\ (\A p \in Proc : pc'[p] = "write" =>
                  pc[p] = "write" /\ sock'[p] = sock[p] /\ tgt'[p] = tgt[p]) => SockLinked'
           /\ stream' = stream => StreamLinked'
           /\ ConnsAsked'
<1>1. cache' = cache => CacheLinked'
  BY DEF Links, CacheLinked, Link
<1>2. notices' = notices => NoticeLinked'
  BY DEF Links, NoticeLinked, Link
<1>3. (\A p \in Proc : pc'[p] = "write" =>
           pc[p] = "write" /\ sock'[p] = sock[p] /\ tgt'[p] = tgt[p]) => SockLinked'
  BY DEF Links, SockLinked, Link
<1>4. stream' = stream => StreamLinked'
  BY DEF Links, StreamLinked, Link
<1>5. ConnsAsked'
  BY DEF Links, ConnsAsked
<1> QED BY <1>1, <1>2, <1>3, <1>4, <1>5

LEMMA GetLinks ==
    ASSUME Inv, Links, NEW p \in Proc, GetCached(p) \/ GetConnected(p) PROVE Links'
<1>1. UNCHANGED <<cache, notices, stream, conns, asked, tgt>>
  BY DEF GetCached, GetConnected, threadVars, netVars
<1>2. /\ \A q \in Proc \ {p} : pc'[q] = pc[q] /\ sock'[q] = sock[q]
      /\ sock'[p] = cache[p][tgt[p]] /\ (pc'[p] = "write" => sock'[p] # 0)
      /\ tgt[p] \in Proc
  <2>1. pc[p] # "idle" /\ tgt[p] \in Proc
    BY DEF Inv, Picked, GetCached, GetConnected, At
  <2> QED BY <2>1 DEF Inv, TypeOK, GetCached, GetConnected, Cached, Goto
<1>3. SockLinked'
  <2> SUFFICES ASSUME NEW q \in Proc, pc'[q] = "write" PROVE Link(sock[q], q, tgt[q])'
    BY DEF SockLinked
  <2>1. CASE q = p
    <3>1. Link(cache[p][tgt[p]], p, tgt[p])
      BY <1>2, <2>1 DEF Links, CacheLinked
    <3> QED BY <1>1, <1>2, <2>1, <3>1 DEF Link
  <2>2. CASE q # p
    BY <1>1, <1>2, <2>2 DEF Links, SockLinked, Link
  <2> QED BY <2>1, <2>2
<1> QED BY <1>1, <1>3, SameLinks DEF Links

LEMMA WriteLinks ==
    ASSUME Inv, Links, NEW p \in Proc, Write(p) PROVE Links'
<1>1. /\ UNCHANGED <<cache, notices, conns, asked, tgt, sock>>
      /\ pc[p] = "write" /\ pc' = [pc EXCEPT ![p] = "idle"]
  BY DEF Write, At, Goto, netVars
<1>2. tgt[p] \in Proc /\ sock[p] \in Conn /\ Link(sock[p], p, tgt[p])
  BY <1>1 DEF Inv, TypeOK, Picked, Links, SockLinked
<1>3. \A q \in Proc : pc'[q] = "write" => pc[q] = "write"
  BY <1>1 DEF Inv, TypeOK
<1>4. StreamLinked'
  <2>1. CASE UNCHANGED stream
    BY <1>1, <2>1, SameLinks
  <2>2. CASE \E n : stream' = [stream EXCEPT ![sock[p]][tgt[p]] =
                       Append(@, [type |-> "message", from |-> p, n |-> n])]
    <3> SUFFICES ASSUME NEW c \in Conn, NEW r \in Proc, NEW i \in 1..Len(stream'[c][r])
                 PROVE  Link(c, stream[c][r][i].from, r)'
      BY DEF StreamLinked
    <3>1. PICK n : stream' = [stream EXCEPT ![sock[p]][tgt[p]] =
                       Append(@, [type |-> "message", from |-> p, n |-> n])]
      BY <2>2
    <3> DEFINE m == [type |-> "message", from |-> p, n |-> n]
    <3>2. stream \in [Conn -> [Proc -> Seq(Letter)]]
      BY DEF Inv, TypeOK
    <3> HIDE DEF m
    <3>3. stream'[c][r] = stream[c][r]
          \/ (c = sock[p] /\ r = tgt[p] /\ stream'[c][r] = Append(stream[c][r], m))
      BY <1>2, <3>1, <3>2 DEF m
    <3>4. stream[c][r] \in Seq(Letter)
      BY <3>2
    <3>5. \/ i \in 1..Len(stream[c][r]) /\ stream'[c][r][i] = stream[c][r][i]
          \/ c = sock[p] /\ r = tgt[p] /\ stream'[c][r][i] = m
      BY <3>3, <3>4
    <3>6. m.from = p
      BY DEF m
    <3>7. Link(c, stream'[c][r][i].from, r)
      BY <1>2, <3>5, <3>6 DEF Links, StreamLinked
    <3> QED BY <1>1, <3>7 DEF Link
  <2> QED BY <2>1, <2>2 DEF Write
<1> QED BY <1>1, <1>3, <1>4, SameLinks DEF Links

LEMMA HandleLinks ==
    ASSUME Inv, InvN, Links, NEW p \in Proc, HandleConnect(p),
           NEW t, t = Head(requests[p]), NEW c, c = Len(conns) + 1
    PROVE  Links'
<1>1. /\ t \in Proc /\ Len(conns) \in Nat
      /\ requests[p] \in Seq(Proc) /\ requests[p] # <<>>
      /\ conns' = IF t \in alive THEN Append(conns, <<p, t>>) ELSE conns
  BY Answering
<1>2. \A r \in Proc :
        /\ Len(notices[r]) <= Len(notices'[r])
        /\ \A i \in 1..Len(notices[r]) : notices'[r][i] = notices[r][i]
        /\ \A i \in 1..Len(notices'[r]) : i > Len(notices[r]) =>
             \/ r = t /\ t \in alive /\ notices'[r][i] = Have(p, c)
             \/ r = p /\ t \in alive /\ notices'[r][i] = Have(t, c)
             \/ r = p /\ t \notin alive /\ notices'[r][i] = Failed(t)
  BY Answering
<1>3. UNCHANGED <<cache, pc, sock, tgt, stream, asked>>
  BY DEF HandleConnect, threadVars
<1>4. \A d, a, b : Link(d, a, b) => Link(d, a, b)'
  BY <1>1, LinkStays
<1>5. conns \in Seq(Proc \X Proc) /\ <<p, t>> \in Proc \X Proc
  BY <1>1 DEF Inv, TypeOK
<1>6. t \in alive => Link(c, p, t)' /\ Link(c, t, p)'
  BY <1>1, <1>5 DEF Link
<1>7. CacheLinked'
  BY <1>3, <1>4 DEF Links, CacheLinked
<1>8. SockLinked'
  BY <1>3, <1>4 DEF Links, SockLinked
<1>9. StreamLinked'
  BY <1>3, <1>4 DEF Links, StreamLinked
<1>10. NoticeLinked'
  <2> SUFFICES ASSUME NEW r \in Proc, NEW i \in 1..Len(notices'[r]),
                      notices'[r][i].type = "have-a-connection"
               PROVE  Link(notices[r][i].n, r, notices[r][i].from)'
    BY DEF NoticeLinked
  <2>1. notices[r] \in Seq(Notice)
    BY DEF Inv, TypeOK
  <2>2. CASE i \in 1..Len(notices[r])
    <3>1. notices'[r][i] = notices[r][i]
      BY <1>2, <2>2
    <3> QED BY <1>4, <2>2, <3>1 DEF Links, NoticeLinked
  <2>3. CASE i > Len(notices[r])
    <3>1. \/ r = t /\ t \in alive /\ notices'[r][i] = Have(p, c)
          \/ r = p /\ t \in alive /\ notices'[r][i] = Have(t, c)
      <4>1. Failed(t).type = "connection-error"
        BY DEF Failed
      <4> QED BY <1>2, <2>3, <4>1
    <3>2. Have(p, c).n = c /\ Have(p, c).from = p /\ Have(t, c).n = c /\ Have(t, c).from = t
      BY DEF Have
    <3> QED BY <1>6, <3>1, <3>2
  <2> QED BY <2>1, <2>2, <2>3
<1>11. ConnsAsked'
  <2>1. 1 \in 1..Len(requests[p]) /\ requests[p][1] = t
    BY <1>1
  <2>2. <<p, t>> \in asked
    BY <2>1 DEF InvN, Asked
  <2> SUFFICES ASSUME NEW d \in 1..Len(conns') PROVE conns'[d] \in asked
    BY <1>3 DEF ConnsAsked
  <2>3. (d \in 1..Len(conns) /\ conns'[d] = conns[d]) \/ conns'[d] = <<p, t>>
    BY <1>1, <1>5
  <2> QED BY <2>2, <2>3 DEF Links, ConnsAsked
<1> QED BY <1>7, <1>8, <1>9, <1>10, <1>11 DEF Links

LEMMA ReadNoticeLinks ==
    ASSUME Inv, Links, NEW p \in Proc, ReadNotice(p), NEW m, m = Head(notices[p])
    PROVE  Links'
<1>1. notices[p] \in Seq(Notice) /\ notices[p] # <<>>
  BY DEF Inv, TypeOK, ReadNotice
<1>2. /\ m \in Notice /\ 1 \in 1..Len(notices[p]) /\ notices[p][1] = m
      /\ notices'[p] = Tail(notices[p])
      /\ \A q \in Proc \ {p} : notices'[q] = notices[q]
  BY <1>1 DEF Inv, TypeOK, ReadNotice
<1>3. \A i \in 1..Len(notices'[p]) :
        i + 1 \in 1..Len(notices[p]) /\ notices'[p][i] = notices[p][i + 1]
  BY <1>1, <1>2, Rest
<1>4. UNCHANGED <<pc, sock, tgt, stream, conns, asked>>
  BY DEF ReadNotice, threadVars
<1>5. CacheLinked'
  <2>1. CASE cache' = cache
    BY <1>4, <2>1, SameLinks
  <2>2. CASE m.type = "have-a-connection" /\ cache' = [cache EXCEPT ![p][m.from] = m.n]
    <3>1. cache \in [Proc -> [Proc -> Conn \cup {0}]] /\ m.from \in Proc
      BY <1>2 DEF Inv, TypeOK, Notice
    <3>2. \A a, b \in Proc : \/ cache'[a][b] = cache[a][b]
                             \/ a = p /\ b = m.from /\ cache'[a][b] = m.n
      BY <2>2, <3>1
    <3>3. Link(m.n, p, m.from)
      BY <1>2, <2>2 DEF Links, NoticeLinked
    <3> QED BY <1>4, <3>2, <3>3 DEF Links, CacheLinked, Link
  <2> QED BY <2>1, <2>2 DEF ReadNotice, Attach
<1>6. NoticeLinked'
  <2> SUFFICES ASSUME NEW r \in Proc, NEW i \in 1..Len(notices'[r]),
                      notices'[r][i].type = "have-a-connection"
               PROVE  Link(notices'[r][i].n, r, notices'[r][i].from)
    BY <1>4 DEF NoticeLinked, Link
  <2>1. CASE r # p
    BY <1>2, <2>1 DEF Links, NoticeLinked
  <2>2. CASE r = p
    BY <1>3, <2>2 DEF Links, NoticeLinked
  <2> QED BY <2>1, <2>2
<1> QED BY <1>4, <1>5, <1>6, SameLinks DEF Links

LEMMA NextLinks == Inv /\ InvN /\ Links /\ [Next]_vars => Links'
<1> SUFFICES ASSUME Inv, InvN, Links, [Next]_vars PROVE Links'
  OBVIOUS
<1>1. ASSUME NEW p \in Proc, GetCached(p) \/ GetConnected(p) PROVE Links'
  BY <1>1, GetLinks
<1>2. ASSUME NEW p \in Proc, Write(p) PROVE Links'
  BY <1>2, WriteLinks
<1>3. ASSUME NEW p \in Proc, HandleConnect(p) PROVE Links'
  BY <1>3, HandleLinks
<1>4. ASSUME NEW p \in Proc, ReadNotice(p) PROVE Links'
  BY <1>4, ReadNoticeLinks
<1>5. ASSUME NEW p \in Proc, \E t \in Proc : StartSend(p, t) PROVE Links'
  <2>1. /\ UNCHANGED <<cache, notices, stream, conns, asked, sock>>
        /\ pc'[p] # "write"
        /\ \A q \in Proc \ {p} : pc'[q] = pc[q] /\ tgt'[q] = tgt[q]
    BY <1>5 DEF Inv, TypeOK, StartSend, Goto, netVars
  <2> QED BY <2>1, SameLinks DEF Links
<1>6. ASSUME NEW p \in Proc, RequestConnect(p) \/ AwaitConnect(p) PROVE Links'
  <2>1. /\ UNCHANGED <<cache, notices, stream, conns, sock, tgt>> /\ asked \subseteq asked'
        /\ pc'[p] # "write" /\ \A q \in Proc \ {p} : pc'[q] = pc[q]
    BY <1>6 DEF Inv, TypeOK, RequestConnect, AwaitConnect, Goto, threadVars, netVars
  <2> QED BY <2>1, SameLinks DEF Links
<1>7. ASSUME NEW p \in Proc, UserReceive(p) \/ Die(p) \/ CheckFlag(p) PROVE Links'
  <2>1. UNCHANGED <<cache, notices, stream, conns, asked, sock, tgt, pc>>
    BY <1>7 DEF UserReceive, Die, CheckFlag, threadVars, netVars
  <2> QED BY <2>1, SameLinks DEF Links
<1>8. ASSUME NEW p \in Proc, NEW c \in DOMAIN conns, ReadMessage(c, p) PROVE Links'
  <2>1. /\ UNCHANGED <<cache, notices, conns, asked, sock, tgt, pc>>
        /\ stream' = [stream EXCEPT ![c][p] = Tail(@)]
        /\ stream[c][p] # <<>>
    BY <1>8 DEF ReadMessage, threadVars, netVars
  <2>2. stream \in [Conn -> [Proc -> Seq(Letter)]] /\ c \in Conn
    BY PeerType DEF Inv, TypeOK
  <2>3. StreamLinked'
    <3> SUFFICES ASSUME NEW d \in Conn, NEW r \in Proc, NEW i \in 1..Len(stream'[d][r])
                 PROVE  Link(d, stream'[d][r][i].from, r)
      BY <2>1 DEF StreamLinked, Link
    <3>1. CASE stream'[d][r] = stream[d][r]
      BY <3>1 DEF Links, StreamLinked
    <3>2. CASE d = c /\ r = p /\ stream'[d][r] = Tail(stream[c][p])
      <4>1. stream[c][p] \in Seq(Letter)
        BY <2>2
      <4>2. \A j \in 1..Len(stream'[d][r]) :
              j + 1 \in 1..Len(stream[c][p]) /\ stream'[d][r][j] = stream[c][p][j + 1]
        BY <2>1, <3>2, <4>1, Rest
      <4> QED BY <2>2, <3>2, <4>2 DEF Links, StreamLinked
    <3> QED BY <2>1, <2>2, <3>1, <3>2
  <2> QED BY <2>1, <2>3, SameLinks DEF Links
<1>9. ASSUME NEW p \in Proc, NEW c \in DOMAIN conns, ReadEnd(c, p) \/ ReadShut(c, p)
      PROVE  Links'
  <2>1. /\ UNCHANGED <<notices, stream, conns, asked, sock, tgt, pc>>
        /\ cache' = cache \/ cache' = [cache EXCEPT ![p][Peer(c, p)] = 0]
    BY <1>9 DEF ReadEnd, ReadShut, threadVars, netVars
  <2>2. cache \in [Proc -> [Proc -> Conn \cup {0}]] /\ Peer(c, p) \in Proc
    BY PeerType DEF Inv, TypeOK
  <2>3. \A a, b \in Proc : cache'[a][b] = cache[a][b] \/ cache'[a][b] = 0
    BY <2>1, <2>2
  <2>4. CacheLinked'
    BY <2>1, <2>3 DEF Links, CacheLinked, Link
  <2> QED BY <2>1, <2>4, SameLinks DEF Links
<1>10. CASE UNCHANGED vars
  BY <1>10, SameLinks DEF Links, vars, threadVars, netVars
<1> QED BY <1>1, <1>2, <1>3, <1>4, <1>5, <1>6, <1>7, <1>8, <1>9, <1>10
        DEF Next, SendStep, ReaderStep

LEMMA InitLinks == Init => Links
<1> SUFFICES ASSUME Init PROVE Links
  OBVIOUS
<1> QED BY DEF Init, Links, CacheLinked, NoticeLinked, SockLinked, StreamLinked, ConnsAsked

----------------------------------------------------------------------------
(* One connection.                                                          *)

\* A connection that p has asked for.
Made(p, t) == \E c \in 1..Len(conns) : conns[c] = <<p, t>>

\* Who has a connection to a living process does not ask for another.
AskOnce ==
    \A p, t \in alive :
        Crossed(p) \/ (Made(p, t) => /\ \A i \in 1..Len(requests[p]) : requests[p][i] # t
                                     /\ pc[p] = "absent" => tgt[p] # t)

\* Both ends of a connection have one in the cache, or are about to.
Remembered ==
    \A p, t \in alive : \A c \in 1..Len(conns) :
        p # t /\ Link(c, p, t) =>
            \/ cache[p][t] # 0
            \/ \E i \in 1..Len(notices[p]) : Tells(notices[p][i], t)

Single ==
    \A p, r \in Proc :
        Crossed(p) \/ Crossed(r)
        \/ \A c, d \in 1..Len(conns) : Link(c, p, r) /\ Link(d, p, r) => c = d

InvS == AskOnce /\ Remembered /\ Single

\* Steps that make no connection, and in which nobody is about to ask for one.
LEMMA SameSingle ==
    ASSUME Inv, InvS, conns' = conns, asked \subseteq asked', alive' \subseteq alive
    PROVE  /\ (\A p \in alive' : requests'[p] = requests[p] \/ requests'[p] = <<>>)
              /\ (\A p \in alive' : pc'[p] = "absent" => pc[p] = "absent" /\ tgt'[p] = tgt[p])
              => AskOnce'
           /\ notices' = notices
              /\ (\A p, t \in alive' : cache'[p][t] = cache[p][t]) => Remembered'
           /\ Single'
<1>1. \A p : Crossed(p) => Crossed(p)'
  BY CrossedStays
<1>2. ASSUME \A p \in alive' : requests'[p] = requests[p] \/ requests'[p] = <<>>,
             \A p \in alive' : pc'[p] = "absent" => pc[p] = "absent" /\ tgt'[p] = tgt[p]
      PROVE  AskOnce'
  <2> SUFFICES ASSUME NEW p \in alive', NEW t \in alive', ~Crossed(p)', Made(p, t)'
               PROVE  /\ \A i \in 1..Len(requests'[p]) : requests'[p][i] # t
                      /\ pc'[p] = "absent" => tgt'[p] # t
    BY DEF AskOnce
  <2>1. ~Crossed(p) /\ Made(p, t)
    BY <1>1 DEF Made
  <2>2. /\ \A i \in 1..Len(requests[p]) : requests[p][i] # t
        /\ pc[p] = "absent" => tgt[p] # t
    BY <2>1 DEF InvS, AskOnce
  <2>3. requests'[p] = requests[p] \/ requests'[p] = <<>>
    BY <1>2
  <2> QED BY <1>2, <2>2, <2>3
<1>3. ASSUME notices' = notices, \A p, t \in alive' : cache'[p][t] = cache[p][t]
      PROVE  Remembered'
  <2> SUFFICES ASSUME NEW p \in alive', NEW t \in alive', NEW c \in 1..Len(conns'),
                      p # t, Link(c, p, t)'
               PROVE  \/ cache'[p][t] # 0
                      \/ \E i \in 1..Len(notices'[p]) : Tells(notices'[p][i], t)
    BY DEF Remembered, Tells
  <2>1. Link(c, p, t)
    BY SameConns
  <2> QED BY <1>3, <2>1 DEF InvS, Remembered
<1>4. Single'
  <2> SUFFICES ASSUME NEW p \in Proc, NEW r \in Proc, ~Crossed(p)', ~Crossed(r)',
                      NEW c \in 1..Len(conns'), NEW d \in 1..Len(conns'),
                      Link(c, p, r)', Link(d, p, r)'
               PROVE  c = d
    BY DEF Single
  <2>1. Link(c, p, r) /\ Link(d, p, r)
    BY SameConns
  <2> QED BY <1>1, <2>1 DEF InvS, Single
<1> QED BY <1>2, <1>3, <1>4

\* The send of a process that has the connection, or will have when it has read
\* the answers that wait for it, finds it in the cache: what waits announces
\* connections of others.
LEMMA StartSingle ==
    ASSUME Inv, InvN, Links, InvS, NEW p \in Proc, NEW t \in Proc, StartSend(p, t)
    PROVE  InvS'
<1>1. /\ p \in alive /\ pc[p] = "idle" /\ tgt'[p] = t /\ t # p
      /\ pc'[p] = IF HasConnection(p, t) THEN "cached" ELSE "absent"
      /\ \A q \in Proc \ {p} : pc'[q] = pc[q] /\ tgt'[q] = tgt[q]
      /\ UNCHANGED <<alive, asked, requests, notices, conns, cache>>
  BY DEF Inv, TypeOK, StartSend, At, Goto, netVars
<1>2. AskOnce'
  <2> SUFFICES ASSUME NEW q \in alive, NEW u \in alive, ~Crossed(q), Made(q, u),
                      pc'[q] = "absent", tgt'[q] = u
               PROVE  FALSE
    BY <1>1 DEF InvS, AskOnce, Made, Crossed
  <2>1. q \in Proc
    BY DEF Inv, TypeOK
  <2>2. q = p /\ u = t
    BY <1>1, <2>1 DEF InvS, AskOnce
  <2>3. cache[p][t] = 0
    BY <1>1, <2>2 DEF HasConnection
  <2>4. PICK c \in 1..Len(conns) : conns[c] = <<p, t>>
    BY <2>2 DEF Made
  <2>5. <<p, t>> \in asked
    BY <2>4 DEF Links, ConnsAsked
  <2>6. PICK i \in 1..Len(notices[p]) : Tells(notices[p][i], t)
    BY <1>1, <2>2, <2>3, <2>4 DEF InvS, Remembered, Link
  <2>7. NotAsked(p) /\ Foreign(p)
    BY <1>1, <2>2 DEF InvN, Answers, Answered, Outstanding
  <2>8. <<t, p>> \in asked
    BY <2>6, <2>7 DEF NotAsked, NoneSent, Foreign, ForeignTo, Tells
  <2> QED BY <2>2, <2>5, <2>8 DEF Crossed
<1> QED BY <1>1, <1>2, SameSingle DEF InvS

LEMMA RequestSingle ==
    ASSUME Inv, InvS, NEW p \in Proc, RequestConnect(p) PROVE InvS'
<1>1. /\ p \in alive /\ pc[p] = "absent" /\ pc'[p] = "await" /\ tgt' = tgt
      /\ requests'[p] = Append(requests[p], tgt[p])
      /\ requests[p] \in Seq(Proc)
      /\ \A q \in Proc \ {p} : pc'[q] = pc[q] /\ requests'[q] = requests[q]
      /\ UNCHANGED <<alive, notices, conns, cache>> /\ asked \subseteq asked'
  BY DEF Inv, TypeOK, RequestConnect, At, Goto
<1>2. AskOnce'
  <2> SUFFICES ASSUME NEW q \in alive, NEW u \in alive, ~Crossed(q)', Made(q, u)'
               PROVE  /\ \A i \in 1..Len(requests'[q]) : requests'[q][i] # u
                      /\ pc'[q] = "absent" => tgt'[q] # u
    BY <1>1 DEF AskOnce
  <2>1. ~Crossed(q) /\ Made(q, u) /\ q \in Proc
    BY <1>1, CrossedStays DEF Made, Inv, TypeOK
  <2>2. /\ \A i \in 1..Len(requests[q]) : requests[q][i] # u
        /\ pc[q] = "absent" => tgt[q] # u
    BY <2>1 DEF InvS, AskOnce
  <2>3. CASE q = p
    <3>1. \A i \in 1..Len(requests'[p]) :
             (i \in 1..Len(requests[p]) /\ requests'[p][i] = requests[p][i])
             \/ requests'[p][i] = tgt[p]
      BY <1>1
    <3> QED BY <1>1, <2>2, <2>3, <3>1
  <2>4. CASE q # p
    BY <1>1, <2>1, <2>2, <2>4
  <2> QED BY <2>3, <2>4
<1>3. Remembered' /\ Single'
  BY <1>1, SameSingle
<1> QED BY <1>2, <1>3 DEF InvS

LEMMA HandleSingle ==
    ASSUME Inv, InvN, Links, InvS, NEW p \in Proc, HandleConnect(p),
           NEW t, t = Head(requests[p]), NEW c, c = Len(conns) + 1
    PROVE  InvS'
<1>1. /\ t \in Proc /\ Len(conns) \in Nat
      /\ requests[p] \in Seq(Proc) /\ requests[p] # <<>>
      /\ requests' = [requests EXCEPT ![p] = Tail(@)]
      /\ conns' = IF t \in alive THEN Append(conns, <<p, t>>) ELSE conns
  BY Answering
<1>2. \A r \in Proc :
        /\ Len(notices[r]) <= Len(notices'[r])
        /\ \A i \in 1..Len(notices[r]) : notices'[r][i] = notices[r][i]
  BY Answering
<1>3. UNCHANGED <<alive, cache, pc, sock, tgt, asked>> /\ alive \subseteq Proc /\ p \in alive
  BY DEF HandleConnect, threadVars, Inv, TypeOK
<1>4. /\ \A q \in Proc \ {p} : requests'[q] = requests[q]
      /\ requests'[p] = Tail(requests[p])
      /\ 1 \in 1..Len(requests[p]) /\ requests[p][1] = t
      /\ \A q \in Proc : Len(notices[q]) \in Nat
  <2>1. requests \in [Proc -> Seq(Proc)] /\ notices \in [Proc -> Seq(Notice)]
    BY DEF Inv, TypeOK
  <2>2. 1 \in 1..Len(requests[p]) /\ requests[p][1] = t
    BY <1>1
  <2> QED BY <1>1, <2>1, <2>2
<1>5. conns \in Seq(Proc \X Proc) /\ <<p, t>> \in Proc \X Proc
  BY <1>1 DEF Inv, TypeOK
<1>6. \A d \in 1..Len(conns') :
        \/ d \in 1..Len(conns) /\ conns'[d] = conns[d]
        \/ t \in alive /\ d = c /\ conns'[d] = <<p, t>>
  BY <1>1, <1>5
<1>7. <<p, t>> \in asked
  BY <1>4 DEF InvN, Asked
<1>8. \A q : Crossed(q)' <=> Crossed(q)
  BY <1>3 DEF Crossed
<1>9. ~Crossed(p) => requests[p] = <<flag[p]>> /\ pc[p] = "await"
  BY <1>1, <1>3 DEF InvN, Answers, Answered, Outstanding, AtCentral, OnWay, AtReader,
                    InQueue, NotAsked
<1>10. AskOnce'
  <2> SUFFICES ASSUME NEW q \in alive, NEW u \in alive, ~Crossed(q), Made(q, u)'
               PROVE  /\ \A i \in 1..Len(requests'[q]) : requests'[q][i] # u
                      /\ pc[q] = "absent" => tgt[q] # u
    BY <1>3, <1>8 DEF AskOnce
  <2>1. CASE q = p
    <3>1. requests[p] = <<flag[p]>> /\ pc[p] = "await"
      BY <1>9, <2>1
    <3>2. Len(requests'[p]) = 0
      BY <1>1, <1>4, <3>1
    <3> QED BY <2>1, <3>1, <3>2
  <2>2. CASE q # p
    <3>1. Made(q, u)
      BY <1>6, <2>2 DEF Made
    <3> QED BY <1>3, <1>4, <2>2, <3>1 DEF InvS, AskOnce
  <2> QED BY <2>1, <2>2
<1>11. Remembered'
  <2> SUFFICES ASSUME NEW q \in alive, NEW u \in alive, NEW d \in 1..Len(conns'),
                      q # u, Link(d, q, u)', cache[q][u] = 0
               PROVE  \E i \in 1..Len(notices'[q]) : Tells(notices'[q][i], u)
    BY <1>3 DEF Remembered, Tells
  <2>1. CASE d \in 1..Len(conns) /\ conns'[d] = conns[d]
    <3>1. Link(d, q, u) /\ q \in Proc
      BY <1>3, <2>1 DEF Link
    <3>2. PICK i \in 1..Len(notices[q]) : Tells(notices[q][i], u)
      BY <2>1, <3>1 DEF InvS, Remembered
    <3>3. i \in 1..Len(notices'[q]) /\ notices'[q][i] = notices[q][i]
      <4>1. notices'[q] \in Seq(Notice)
        BY HandleConnectInv, <3>1 DEF Inv, TypeOK
      <4> QED BY <1>2, <1>4, <3>1, <4>1
    <3> QED BY <3>2, <3>3
  <2>2. CASE t \in alive /\ d = c /\ conns'[d] = <<p, t>>
    <3>1. (q = p /\ u = t) \/ (q = t /\ u = p)
      BY <2>2 DEF Link
    <3>2. t # p
      BY <3>1
    <3>3. /\ notices'[t] = Append(notices[t], Have(p, c))
          /\ notices'[p] = Append(notices[p], Have(t, c))
      <4>1. t \in alive
        BY <2>2
      <4>2. notices'[t] = Append(notices[t], Have(p, c))
        BY <3>2, <4>1, Answering
      <4>3. notices'[p] = Append(notices[p], Have(t, c))
        BY <3>2, <4>1, Answering
      <4> QED BY <4>2, <4>3
    <3>4. notices[p] \in Seq(Notice) /\ notices[t] \in Seq(Notice)
      BY <1>1 DEF Inv, TypeOK
    <3>5. /\ Len(notices[t]) + 1 \in 1..Len(notices'[t])
          /\ notices'[t][Len(notices[t]) + 1] = Have(p, c)
          /\ Len(notices[p]) + 1 \in 1..Len(notices'[p])
          /\ notices'[p][Len(notices[p]) + 1] = Have(t, c)
      BY <3>3, <3>4
    <3>6. Tells(Have(p, c), p) /\ Tells(Have(t, c), t)
      BY DEF Tells, Have
    <3> QED BY <3>1, <3>5, <3>6
  <2> QED BY <1>6, <2>1, <2>2
<1>12. Single'
  <2> SUFFICES ASSUME NEW a \in Proc, NEW b \in Proc, ~Crossed(a), ~Crossed(b),
                      NEW d \in 1..Len(conns'), NEW e \in 1..Len(conns'), d < e,
                      Link(d, a, b)', Link(e, a, b)'
               PROVE  FALSE
    BY <1>8 DEF Single
  <2>1. d \in 1..Len(conns) /\ conns'[d] = conns[d] /\ Link(d, a, b)
    BY <1>1, <1>6 DEF Link
  <2>2. CASE e \in 1..Len(conns) /\ conns'[e] = conns[e]
    BY <2>1, <2>2 DEF InvS, Single, Link
  <2>3. CASE t \in alive /\ conns'[e] = <<p, t>>
    <3>1. ~Crossed(p) /\ (conns[d] = <<p, t>> \/ conns[d] = <<t, p>>)
      BY <2>1, <2>3 DEF Link
    <3>2. conns[d] \in asked
      BY <2>1 DEF Links, ConnsAsked
    <3>3. conns[d] = <<p, t>>
      BY <1>1, <1>7, <3>1, <3>2 DEF Crossed
    <3>4. Made(p, t)
      BY <2>1, <3>3 DEF Made
    <3> QED BY <1>3, <1>4, <2>3, <3>1, <3>4 DEF InvS, AskOnce
  <2> QED BY <1>6, <2>2, <2>3
<1> QED BY <1>10, <1>11, <1>12 DEF InvS

\* An answer that is read gets into the cache, or was an error.
LEMMA ReadNoticeSingle ==
    ASSUME Inv, InvS, NEW p \in Proc, ReadNotice(p), NEW m, m = Head(notices[p])
    PROVE  InvS'
<1>1. notices[p] \in Seq(Notice) /\ notices[p] # <<>>
  BY DEF Inv, TypeOK, ReadNotice
<1>2. /\ m \in Notice /\ 1 \in 1..Len(notices[p]) /\ notices[p][1] = m
      /\ Len(notices[p]) \in Nat
      /\ notices'[p] = Tail(notices[p])
      /\ \A q \in Proc \ {p} : notices'[q] = notices[q]
  BY <1>1 DEF Inv, TypeOK, ReadNotice
<1>3. /\ Len(notices'[p]) = Len(notices[p]) - 1
      /\ \A i \in 1..Len(notices'[p]) : notices'[p][i] = notices[p][i + 1]
  BY <1>1, <1>2, Rest
<1>4. UNCHANGED <<alive, pc, tgt, conns, asked, requests>> /\ alive \subseteq Proc
  BY DEF ReadNotice, threadVars, Inv, TypeOK
<1>5. \A q, t \in Proc :
        /\ cache'[q][t] # cache[q][t] => q = p /\ m.n # 0 /\ cache'[q][t] = m.n
        /\ q = p /\ Tells(m, t) => cache'[q][t] # 0
  <2>1. m.type = "have-a-connection" => m.n # 0 /\ m.from \in Proc
    BY <1>2 DEF Inv, Named, Notice
  <2>2. cache \in [Proc -> [Proc -> Conn \cup {0}]]
    BY DEF Inv, TypeOK
  <2>3. CASE m.type = "have-a-connection" /\ cache' = [cache EXCEPT ![p][m.from] = m.n]
    BY <2>1, <2>2, <2>3 DEF Tells
  <2>4. CASE m.type = "connection-error" /\ cache' = cache
    BY <2>4 DEF Tells
  <2> QED BY <2>3, <2>4 DEF ReadNotice, Attach
<1>6. Remembered'
  <2> SUFFICES ASSUME NEW q \in alive, NEW t \in alive, NEW c \in 1..Len(conns), q # t,
                      Link(c, q, t), cache'[q][t] = 0
               PROVE  \E i \in 1..Len(notices'[q]) : Tells(notices'[q][i], t)
    BY <1>4 DEF Remembered, Tells, Link
  <2>1. q \in Proc /\ t \in Proc
    BY <1>4
  <2>2. PICK i \in 1..Len(notices[q]) : Tells(notices[q][i], t)
    BY <1>5, <2>1 DEF InvS, Remembered
  <2>3. CASE q # p
    BY <1>2, <2>1, <2>2, <2>3
  <2>4. CASE q = p
    <3>1. i # 1
      BY <1>2, <1>5, <2>1, <2>2, <2>4
    <3>2. i - 1 \in 1..Len(notices'[p]) /\ notices'[p][i - 1] = notices[p][(i - 1) + 1]
      BY <1>2, <1>3, <2>2, <2>4, <3>1
    <3>3. (i - 1) + 1 = i
      BY <2>2
    <3> QED BY <2>2, <2>4, <3>2, <3>3
  <2> QED BY <2>3, <2>4
<1> QED BY <1>4, <1>6, SameSingle DEF InvS

LEMMA NextSingle == Inv /\ InvN /\ Links /\ InvS /\ [Next]_vars => InvS'
<1> SUFFICES ASSUME Inv, InvN, Links, InvS, [Next]_vars PROVE InvS'
  OBVIOUS
<1>0. alive \subseteq Proc
  BY DEF Inv, TypeOK
<1>1. ASSUME NEW p \in Proc, \E t \in Proc : StartSend(p, t) PROVE InvS'
  BY <1>1, StartSingle
<1>2. ASSUME NEW p \in Proc, RequestConnect(p) PROVE InvS'
  BY <1>2, RequestSingle
<1>3. ASSUME NEW p \in Proc, HandleConnect(p) PROVE InvS'
  BY <1>3, HandleSingle
<1>4. ASSUME NEW p \in Proc, ReadNotice(p) PROVE InvS'
  BY <1>4, ReadNoticeSingle
<1>5. CASE /\ UNCHANGED <<alive, notices, cache, requests, conns, asked, tgt>>
           /\ \A q \in Proc : pc'[q] = "absent" => pc[q] = "absent"
  BY <1>0, <1>5, SameSingle DEF InvS
<1>6. ASSUME NEW p \in Proc,
             GetCached(p) \/ AwaitConnect(p) \/ GetConnected(p) \/ Write(p)
      PROVE  InvS'
  <2>1. /\ UNCHANGED <<alive, notices, cache, requests, conns, asked, tgt>>
        /\ \E at \in {"idle", "connected", "write"} : pc' = [pc EXCEPT ![p] = at]
    BY <1>6 DEF GetCached, AwaitConnect, GetConnected, Write, Goto, threadVars, netVars
  <2>2. \A q \in Proc : pc'[q] = "absent" => pc[q] = "absent"
    BY <2>1 DEF Inv, TypeOK
  <2> QED BY <1>5, <2>1, <2>2
<1>7. ASSUME NEW p \in Proc, UserReceive(p) \/ CheckFlag(p) PROVE InvS'
  BY <1>5, <1>7 DEF UserReceive, CheckFlag, threadVars, netVars
<1>8. ASSUME NEW p \in Proc, NEW c \in DOMAIN conns, ReadMessage(c, p) \/ ReadShut(c, p)
      PROVE  InvS'
  BY <1>5, <1>8 DEF ReadMessage, ReadShut, threadVars, netVars
<1>9. ASSUME NEW p \in Proc, NEW c \in DOMAIN conns, ReadEnd(c, p) PROVE InvS'
  <2>1. /\ UNCHANGED <<alive, notices, requests, conns, asked, tgt, pc>>
        /\ cache' = [cache EXCEPT ![p][Peer(c, p)] = 0] /\ Peer(c, p) \notin alive
    BY <1>9 DEF ReadEnd, threadVars, netVars
  <2>2. cache \in [Proc -> [Proc -> Conn \cup {0}]] /\ Peer(c, p) \in Proc
    BY PeerType DEF Inv, TypeOK
  <2>3. \A q, t \in alive : cache'[q][t] = cache[q][t]
    BY <1>0, <2>1, <2>2
  <2> QED BY <2>1, <2>3, SameSingle DEF InvS
<1>10. ASSUME NEW p \in Proc, Die(p) PROVE InvS'
  <2>1. /\ UNCHANGED <<notices, cache, conns, asked, tgt, pc>>
        /\ alive' \subseteq alive /\ requests' = [requests EXCEPT ![p] = <<>>]
    BY <1>10 DEF Die, threadVars
  <2>2. \A q \in Proc : requests'[q] = requests[q] \/ requests'[q] = <<>>
    BY <2>1 DEF Inv, TypeOK
  <2> QED BY <1>0, <2>1, <2>2, SameSingle DEF InvS
<1>11. CASE UNCHANGED vars
  BY <1>5, <1>11 DEF vars, threadVars, netVars
<1> QED BY <1>1, <1>2, <1>3, <1>4, <1>6, <1>7, <1>8, <1>9, <1>10, <1>11
        DEF Next, SendStep, ReaderStep

LEMMA InitSingle == Init => InvS
<1> SUFFICES ASSUME Init PROVE InvS
  OBVIOUS
<1>1. Len(conns) = 0
  BY DEF Init
<1>2. ASSUME NEW c \in 1..Len(conns) PROVE FALSE
  BY <1>1
<1> QED BY <1>2 DEF InvS, AskOnce, Made, Remembered, Single

----------------------------------------------------------------------------
(* Numbers in sequences of messages.                                        *)

From(m, p) == ~IsNotice(m) /\ m.from = p

Increasing(s, p) ==
    \A i, j \in 1..Len(s) : i < j /\ From(s[i], p) /\ From(s[j], p) => s[i].n < s[j].n
Within(s, p, low, high) ==
    \A i \in 1..Len(s) : From(s[i], p) => low < s[i].n /\ s[i].n <= high
Before(s, t, p) ==
    \A i \in 1..Len(s), j \in 1..Len(t) : From(s[i], p) /\ From(t[j], p) => s[i].n < t[j].n

\* A sequence with fewer elements.
LEMMA FewerElements ==
    ASSUME NEW s, NEW t, NEW i, Without(t, s, i), NEW p
    PROVE  /\ Increasing(s, p) => Increasing(t, p)
           /\ \A low, high : Within(s, p, low, high) => Within(t, p, low, high)
           /\ \A u : Before(s, u, p) => Before(t, u, p)
           /\ \A u : Before(u, s, p) => Before(u, t, p)
<1>1. PICK f \in [1..Len(t) -> 1..Len(s)] :
        /\ \A j \in 1..Len(t) : t[j] = s[f[j]] /\ f[j] # i
        /\ \A j, k \in 1..Len(t) : j < k => f[j] < f[k]
  BY DEF Without
<1>2. \A j \in 1..Len(t) : f[j] \in 1..Len(s)
  BY <1>1
<1>3. Increasing(s, p) => Increasing(t, p)
  BY <1>1, <1>2 DEF Increasing
<1>4. \A low, high : Within(s, p, low, high) => Within(t, p, low, high)
  BY <1>1, <1>2 DEF Within
<1>5. \A u : Before(s, u, p) => Before(t, u, p)
  BY <1>1, <1>2 DEF Before
<1>6. \A u : Before(u, s, p) => Before(u, t, p)
  BY <1>1, <1>2 DEF Before
<1> QED BY <1>3, <1>4, <1>5, <1>6

LEMMA WithoutFirst ==
    ASSUME NEW S, NEW s \in Seq(S), s # <<>> PROVE Without(Tail(s), s, 1)
<1>1. /\ Len(s) \in Nat /\ Len(Tail(s)) = Len(s) - 1
      /\ \A i \in 1..Len(Tail(s)) : i + 1 \in 1..Len(s) /\ Tail(s)[i] = s[i + 1]
  BY Rest
<1> DEFINE f == [j \in 1..Len(Tail(s)) |-> j + 1]
<1>2. f \in [1..Len(Tail(s)) -> 1..Len(s)]
  BY <1>1
<1>3. \A j \in 1..Len(Tail(s)) : Tail(s)[j] = s[f[j]] /\ f[j] # 1
  BY <1>1
<1>4. \A j, k \in 1..Len(Tail(s)) : j < k => f[j] < f[k]
  BY <1>1
<1> HIDE DEF f
<1> QED BY <1>2, <1>3, <1>4 DEF Without

\* A sequence with one element more, of someone else.
LEMMA AnotherElement ==
    ASSUME NEW S, NEW s \in Seq(S), NEW m \in S, NEW p, ~From(m, p)
    PROVE  /\ Increasing(s, p) => Increasing(Append(s, m), p)
           /\ \A low, high : Within(s, p, low, high) => Within(Append(s, m), p, low, high)
           /\ \A u : Before(s, u, p) => Before(Append(s, m), u, p)
           /\ \A u : Before(u, s, p) => Before(u, Append(s, m), p)
<1> DEFINE t == Append(s, m)
<1>1. \A i \in 1..Len(t) : From(t[i], p) => i \in 1..Len(s) /\ t[i] = s[i]
  OBVIOUS
<1> HIDE DEF t
<1>2. Increasing(s, p) => Increasing(t, p)
  BY <1>1 DEF Increasing
<1>3. \A low, high : Within(s, p, low, high) => Within(t, p, low, high)
  BY <1>1 DEF Within
<1>4. \A u : Before(s, u, p) => Before(t, u, p)
  BY <1>1 DEF Before
<1>5. \A u : Before(u, s, p) => Before(u, t, p)
  BY <1>1 DEF Before
<1> QED BY <1>2, <1>3, <1>4, <1>5 DEF t

----------------------------------------------------------------------------
(* Order.                                                                   *)

\* What p has written to r and r has not received has higher numbers than what
\* r has received, and what is still on a connection has higher numbers than
\* what is in the inbox.
Ordered(p, r) ==
    LET low == took[r][p]
        high == wrote[p][r]
    IN  /\ low <= high
        /\ Increasing(box[r], p) /\ Within(box[r], p, low, high)
        /\ \A c \in Conn : /\ Increasing(stream[c][r], p)
                           /\ Within(stream[c][r], p, low, high)
                           /\ Before(box[r], stream[c][r], p)

Orders == \A p, r \in Proc : Crossed(p) \/ Crossed(r) \/ Ordered(p, r)

LEMMA OrderedNext ==
    ASSUME NEW p \in Proc, NEW r \in Proc,
           took'[r][p] <= wrote'[p][r],
           Increasing(box'[r], p), Within(box'[r], p, took'[r][p], wrote'[p][r]),
           \A c \in Conn : /\ Increasing(stream'[c][r], p)
                           /\ Within(stream'[c][r], p, took'[r][p], wrote'[p][r])
                           /\ Before(box'[r], stream'[c][r], p)
    PROVE  Ordered(p, r)'
BY DEF Ordered, Increasing, Within, Before, From, IsNotice

\* Steps in which nothing is written, read or received.
LEMMA SameOrder ==
    ASSUME NEW p \in Proc, NEW r \in Proc, Ordered(p, r),
           took'[r][p] = took[r][p], wrote'[p][r] = wrote[p][r],
           \A c \in Conn : stream'[c][r] = stream[c][r],
           Increasing(box[r], p) => Increasing(box'[r], p),
           \A low, high : Within(box[r], p, low, high) => Within(box'[r], p, low, high),
           \A u : Before(box[r], u, p) => Before(box'[r], u, p)
    PROVE  Ordered(p, r)'
<1>1. \A c \in Conn : Before(box'[r], stream'[c][r], p)
  BY DEF Ordered
<1>2. \A c \in Conn : /\ Increasing(stream'[c][r], p)
                      /\ Within(stream'[c][r], p, took'[r][p], wrote'[p][r])
  BY DEF Ordered
<1>3. /\ took'[r][p] <= wrote'[p][r]
      /\ Increasing(box'[r], p) /\ Within(box'[r], p, took'[r][p], wrote'[p][r])
  BY DEF Ordered
<1> QED BY <1>1, <1>2, <1>3, OrderedNext

LEMMA OrdersNext ==
    ASSUME Orders, asked \subseteq asked',
           \A p, r \in Proc : ~Crossed(p) /\ ~Crossed(r) /\ Ordered(p, r) => Ordered(p, r)'
    PROVE  Orders'
<1> SUFFICES ASSUME NEW p \in Proc, NEW r \in Proc, ~Crossed(p)', ~Crossed(r)'
             PROVE  Ordered(p, r)'
  BY DEF Orders
<1>1. ~Crossed(p) /\ ~Crossed(r)
  BY CrossedStays
<1> QED BY <1>1 DEF Orders

LEMMA Numbers ==
    ASSUME Inv, NEW m \in Letter \cup Notice, NEW p, From(m, p) PROVE m.n \in Int
BY DEF From, IsNotice, Letter, Notice

\* A message behind those with lower numbers.
LEMMA HigherElement ==
    ASSUME Inv, NEW s \in Seq(Letter \cup Notice), NEW m \in Letter, NEW p,
           Increasing(s, p), NEW low \in Int, NEW high \in Int, NEW top \in Int,
           Within(s, p, low, high), high <= top, low < m.n, m.n <= top,
           \A i \in 1..Len(s) : From(s[i], p) => s[i].n < m.n
    PROVE  /\ Increasing(Append(s, m), p) /\ Within(Append(s, m), p, low, top)
<1> DEFINE t == Append(s, m)
<1>1. /\ Len(s) \in Nat
      /\ \A i \in 1..Len(t) : \/ i \in 1..Len(s) /\ t[i] = s[i]
                              \/ i = Len(s) + 1 /\ t[i] = m
  <2>1. m \in Letter \cup Notice
    OBVIOUS
  <2> QED BY <2>1
<1>2. \A i \in 1..Len(s) : s[i] \in Letter \cup Notice
  OBVIOUS
<1> HIDE DEF t
<1>3. Increasing(t, p)
  BY <1>1 DEF Increasing
<1>4. Within(t, p, low, top)
  BY <1>1, <1>2, Numbers DEF Within
<1> QED BY <1>3, <1>4 DEF t

\* The message that is written has the highest number.
LEMMA WriteOrder ==
    ASSUME Inv, Orders, NEW p \in Proc, Write(p) PROVE Orders'
<1> DEFINE n == wrote[p][tgt[p]] + 1
           m == [type |-> "message", from |-> p, n |-> n]
<1>1. /\ UNCHANGED <<took, box, asked>>
      /\ \/ /\ wrote' = [wrote EXCEPT ![p][tgt[p]] = n]
            /\ stream' = [stream EXCEPT ![sock[p]][tgt[p]] = Append(@, m)]
         \/ UNCHANGED <<wrote, stream>>
  BY DEF Write
<1>2. tgt[p] \in Proc /\ sock[p] \in Conn
  BY DEF Inv, TypeOK, Picked, Write, At
<1>3. /\ stream \in [Conn -> [Proc -> Seq(Letter)]]
      /\ wrote \in [Proc -> [Proc -> 0..MaxSends]] /\ took \in [Proc -> [Proc -> 0..MaxSends]]
  BY DEF Inv, TypeOK
<1>4. \A q, r \in Proc : wrote[q][r] \in Int /\ took[r][q] \in Int
  BY <1>3
<1>5. \A b \in Proc : From(m, b) <=> b = p
  BY DEF From, IsNotice
<1>6. m \in Letter /\ n \in Int
  <2>1. /\ wrote[p][tgt[p]] \in 0..MaxSends /\ sends \in 0..MaxSends
        /\ wrote[p][tgt[p]] < sends
    BY <1>2 DEF Inv, TypeOK, Writes, Write, At
  <2>2. n \in 1..MaxSends
    BY <2>1, ConnectAssumption
  <2> QED BY <2>2 DEF Letter
<1>7. ASSUME NEW q \in Proc, NEW r \in Proc, Ordered(q, r) PROVE Ordered(q, r)'
  <2> DEFINE low == took[r][q]
             high == wrote[q][r]
  <2>0. low \in Int /\ high \in Int /\ box' = box /\ took' = took
    BY <1>1, <1>4
  <2>1. CASE UNCHANGED <<wrote, stream>>
    BY <1>1, <1>7, <2>1, SameOrder
  <2>2. CASE /\ wrote' = [wrote EXCEPT ![p][tgt[p]] = n]
             /\ stream' = [stream EXCEPT ![sock[p]][tgt[p]] = Append(@, m)]
    <3> HIDE DEF m, n
    <3>1. \A c \in Conn : \/ stream'[c][r] = stream[c][r]
                          \/ r = tgt[p] /\ stream'[c][r] = Append(stream[c][r], m)
      <4> SUFFICES ASSUME NEW c \in Conn
                   PROVE  \/ stream'[c][r] = stream[c][r]
                          \/ r = tgt[p] /\ stream'[c][r] = Append(stream[c][r], m)
        OBVIOUS
      <4> QED BY <1>2, <1>3, <2>2
    <3>2. \A c \in Conn : stream[c][r] \in Seq(Letter)
      BY <1>3
    <3>3. box[r] \in Seq(Letter \cup Notice)
      BY DEF Inv, TypeOK
    <3>4. \A i \in 1..Len(box[r]) : box[r][i] \in Letter \cup Notice
      BY <3>3
    <3>5. CASE q # p \/ r # tgt[p]
      <4>1. wrote'[q][r] = wrote[q][r]
        BY <1>2, <1>3, <2>2, <3>5
      <4>2. \A c \in Conn : /\ Increasing(stream'[c][r], q)
                            /\ Within(stream'[c][r], q, low, high)
                            /\ Before(box[r], stream'[c][r], q)
        <5> SUFFICES ASSUME NEW c \in Conn
                     PROVE  /\ Increasing(stream'[c][r], q)
                            /\ Within(stream'[c][r], q, low, high)
                            /\ Before(box[r], stream'[c][r], q)
          OBVIOUS
        <5>1. CASE stream'[c][r] = stream[c][r]
          BY <1>7, <5>1 DEF Ordered
        <5>2. CASE q # p /\ stream'[c][r] = Append(stream[c][r], m)
          <6>1. ~From(m, q)
            BY <5>2, <1>5
          <6> QED BY <1>6, <1>7, <3>2, <5>2, <6>1, AnotherElement DEF Ordered
        <5> QED BY <3>1, <3>5, <5>1, <5>2
      <4> QED BY <1>7, <2>0, <4>1, <4>2, OrderedNext DEF Ordered
    <3>6. CASE q = p /\ r = tgt[p]
      <4>1. wrote'[q][r] = n /\ n = high + 1
        BY <1>2, <1>3, <2>2, <3>6 DEF n
      <4>2. m.n = n /\ From(m, q)
        BY <1>5, <3>6 DEF m
      <4>3. Within(box[r], q, low, n)
        BY <1>7, <2>0, <3>4, <4>1, Numbers DEF Ordered, Within
      <4>4. ASSUME NEW c \in Conn
            PROVE  /\ Increasing(stream'[c][r], q)
                   /\ Within(stream'[c][r], q, low, n)
                   /\ Before(box[r], stream'[c][r], q)
        <5>1. /\ Increasing(stream[c][r], q) /\ Within(stream[c][r], q, low, high)
              /\ Before(box[r], stream[c][r], q) /\ low <= high
              /\ Within(box[r], q, low, high)
          BY <1>7 DEF Ordered
        <5>2. stream[c][r] \in Seq(Letter \cup Notice)
              /\ \A i \in 1..Len(stream[c][r]) : stream[c][r][i] \in Letter \cup Notice
          BY <3>2
        <5>3. \A i \in 1..Len(stream[c][r]) : From(stream[c][r][i], q) => stream[c][r][i].n < n
          BY <2>0, <4>1, <5>1, <5>2, Numbers DEF Within
        <5>4. CASE stream'[c][r] = stream[c][r]
          <6>1. Within(stream[c][r], q, low, n)
            BY <2>0, <4>1, <5>1, <5>2, Numbers DEF Within
          <6> QED BY <5>1, <5>4, <6>1
        <5>5. CASE stream'[c][r] = Append(stream[c][r], m)
          <6>1. Increasing(stream'[c][r], q) /\ Within(stream'[c][r], q, low, n)
            <7>1. high <= n /\ low < m.n /\ m.n <= n
              BY <1>6, <2>0, <4>1, <4>2, <5>1
            <7>2. \A i \in 1..Len(stream[c][r]) :
                    From(stream[c][r][i], q) => stream[c][r][i].n < m.n
              BY <4>2, <5>3
            <7> HIDE DEF low, high
            <7> QED BY <1>6, <2>0, <5>1, <5>2, <5>5, <7>1, <7>2, HigherElement
          <6>2. Before(box[r], stream'[c][r], q)
            <7> SUFFICES ASSUME NEW i \in 1..Len(box[r]), NEW j \in 1..Len(stream'[c][r]),
                                From(box[r][i], q), From(stream'[c][r][j], q)
                         PROVE  box[r][i].n < stream'[c][r][j].n
              BY DEF Before
            <7>1. \/ j \in 1..Len(stream[c][r]) /\ stream'[c][r][j] = stream[c][r][j]
                  \/ stream'[c][r][j] = m
              BY <5>2, <5>5
            <7>2. box[r][i].n <= high /\ box[r][i].n \in Int
              BY <3>4, <5>1, Numbers DEF Within
            <7>3. CASE j \in 1..Len(stream[c][r]) /\ stream'[c][r][j] = stream[c][r][j]
              BY <5>1, <7>3 DEF Before
            <7>4. CASE stream'[c][r][j] = m
              BY <2>0, <4>1, <4>2, <7>2, <7>4
            <7> QED BY <7>1, <7>3, <7>4
          <6> QED BY <6>1, <6>2
        <5> QED BY <3>1, <5>4, <5>5
      <4>5. low <= n /\ Increasing(box[r], q)
        BY <1>7, <2>0, <4>1 DEF Ordered
      <4> QED BY <2>0, <4>1, <4>3, <4>4, <4>5, OrderedNext
    <3> QED BY <3>5, <3>6
  <2> QED BY <1>1, <2>1, <2>2
<1> QED BY <1>1, <1>7, OrdersNext

\* The message that is received has the lowest number.
LEMMA ReceiveOrder ==
    ASSUME Inv, Orders, NEW r \in Proc, UserReceive(r) PROVE Orders'
<1> DEFINE m == Head(box[r])
<1>1. /\ box[r] # <<>> /\ box' = [box EXCEPT ![r] = Tail(@)]
      /\ UNCHANGED <<wrote, stream, asked>>
      /\ took' = IF IsNotice(m) THEN took ELSE [took EXCEPT ![r][m.from] = m.n]
  BY DEF UserReceive, netVars
<1>2. /\ box \in [Proc -> Seq(Letter \cup Notice)] /\ took \in [Proc -> [Proc -> 0..MaxSends]]
      /\ stream \in [Conn -> [Proc -> Seq(Letter)]]
  BY DEF Inv, TypeOK
<1>3. /\ box'[r] = Tail(box[r]) /\ \A q \in Proc \ {r} : box'[q] = box[q]
      /\ box[r] \in Seq(Letter \cup Notice)
  BY <1>1, <1>2
<1>4. /\ 1 \in 1..Len(box[r]) /\ box[r][1] = m /\ m \in Letter \cup Notice
      /\ \A i \in 1..Len(box'[r]) :
           i + 1 \in 1..Len(box[r]) /\ box'[r][i] = box[r][i + 1] /\ 1 < i + 1
  <2>1. /\ 1 \in 1..Len(box[r]) /\ box[r][1] = m
        /\ \A i \in 1..Len(Tail(box[r])) :
             i + 1 \in 1..Len(box[r]) /\ Tail(box[r])[i] = box[r][i + 1]
    BY <1>1, <1>3, Rest
  <2>2. m \in Letter \cup Notice
    BY <1>1, <1>3
  <2>3. \A i \in 1..Len(Tail(box[r])) : 1 < i + 1
    OBVIOUS
  <2> QED BY <1>3, <2>1, <2>2, <2>3
<1>5. Without(box'[r], box[r], 1)
  BY <1>1, <1>3, WithoutFirst
<1> HIDE DEF m
<1>6. ASSUME NEW a \in Proc, NEW b \in Proc, Ordered(a, b) PROVE Ordered(a, b)'
  <2>1. wrote'[a][b] = wrote[a][b] /\ \A c \in Conn : stream'[c][b] = stream[c][b]
    BY <1>1
  <2>2. CASE took'[b][a] = took[b][a]
    <3>1. CASE b = r
      <4>1. /\ Increasing(box[r], a) => Increasing(box'[r], a)
            /\ \A low, high : Within(box[r], a, low, high) => Within(box'[r], a, low, high)
            /\ \A u : Before(box[r], u, a) => Before(box'[r], u, a)
        BY <1>5, FewerElements
      <4> QED BY <1>6, <2>1, <2>2, <3>1, <4>1, SameOrder
    <3>2. CASE b # r
      <4>1. box'[b] = box[b]
        BY <1>3, <3>2
      <4> QED BY <1>6, <2>1, <2>2, <4>1, SameOrder
    <3> QED BY <3>1, <3>2
  <2>3. CASE took'[b][a] # took[b][a]
    <3>1. b = r /\ ~IsNotice(m) /\ m.from = a /\ took'[b][a] = m.n
      BY <1>1, <1>2, <2>3
    <3>2. From(m, a)
      BY <3>1 DEF From
    <3>3. took'[r][a] <= wrote'[a][r]
      <4>1. Within(box[r], a, took[r][a], wrote[a][r])
        BY <1>6, <3>1 DEF Ordered
      <4>2. m.n <= wrote[a][r]
        BY <1>4, <3>2, <4>1 DEF Within
      <4>3. wrote'[a][r] = wrote[a][r]
        BY <1>1
      <4> QED BY <3>1, <4>2, <4>3
    <3>4. Increasing(box'[r], a) /\ \A c \in Conn : Before(box'[r], stream'[c][r], a)
      BY <1>5, <1>6, <2>1, <3>1, FewerElements DEF Ordered
    <3>5. Within(box'[r], a, m.n, wrote'[a][r])
      <4> SUFFICES ASSUME NEW i \in 1..Len(box'[r]), From(box'[r][i], a)
                   PROVE  m.n < box'[r][i].n /\ box'[r][i].n <= wrote'[a][r]
        BY DEF Within
      <4>1. box'[r][i] = box[r][i + 1] /\ i + 1 \in 1..Len(box[r]) /\ 1 < i + 1
        BY <1>4
      <4>2. m.n < box[r][i + 1].n
        BY <1>4, <1>6, <3>1, <3>2, <4>1 DEF Ordered, Increasing
      <4>3. box[r][i + 1].n <= wrote[a][r]
        BY <1>6, <3>1, <4>1 DEF Ordered, Within
      <4> QED BY <2>1, <3>1, <4>1, <4>2, <4>3, <1>1
    <3>6. \A c \in Conn : Within(stream'[c][r], a, m.n, wrote'[a][r])
      <4> SUFFICES ASSUME NEW c \in Conn, NEW i \in 1..Len(stream[c][r]),
                          From(stream[c][r][i], a)
                   PROVE  m.n < stream[c][r][i].n /\ stream[c][r][i].n <= wrote[a][r]
        BY <1>1 DEF Within
      <4>1. m.n < stream[c][r][i].n
        BY <1>4, <1>6, <3>1, <3>2 DEF Ordered, Before
      <4> QED BY <1>6, <3>1, <4>1 DEF Ordered, Within
    <3>7. \A c \in Conn : Increasing(stream'[c][r], a)
      BY <1>1, <1>6, <3>1 DEF Ordered
    <3> QED BY <3>1, <3>3, <3>4, <3>5, <3>6, <3>7, OrderedNext
  <2> QED BY <2>2, <2>3
<1> QED BY <1>1, <1>6, OrdersNext

\* A message goes from the connection, the only one, to the end of the queue.
LEMMA ReadMessageOrder ==
    ASSUME Inv, Links, InvS, Orders, NEW r \in Proc, NEW c \in DOMAIN conns, ReadMessage(c, r)
    PROVE  Orders'
<1> DEFINE s == stream[c][r]
           m == Head(s)
<1>1. /\ s # <<>> /\ stream' = [stream EXCEPT ![c][r] = Tail(@)]
      /\ box' = [box EXCEPT ![r] = Append(@, m)]
      /\ UNCHANGED <<wrote, took, asked>>
  BY DEF ReadMessage, Queue, threadVars
<1>2. /\ box \in [Proc -> Seq(Letter \cup Notice)] /\ c \in Conn
      /\ stream \in [Conn -> [Proc -> Seq(Letter)]]
  BY PeerType DEF Inv, TypeOK
<1>3. /\ box'[r] = Append(box[r], m) /\ \A q \in Proc \ {r} : box'[q] = box[q]
      /\ box[r] \in Seq(Letter \cup Notice) /\ s \in Seq(Letter)
  BY <1>1, <1>2
<1>4. /\ 1 \in 1..Len(s) /\ s[1] = m /\ m \in Letter
      /\ \A i \in 1..Len(Tail(s)) : i + 1 \in 1..Len(s) /\ Tail(s)[i] = s[i + 1] /\ 1 < i + 1
  BY <1>1, <1>3, Rest
<1>5. Without(Tail(s), s, 1)
  BY <1>1, <1>3, WithoutFirst
<1>6. \A d \in Conn, q \in Proc :
        stream'[d][q] = IF d = c /\ q = r THEN Tail(s) ELSE stream[d][q]
  BY <1>1, <1>2
<1> HIDE DEF m, s
<1>7. ASSUME NEW a \in Proc, NEW b \in Proc, ~Crossed(a), ~Crossed(b), Ordered(a, b)
      PROVE  Ordered(a, b)'
  <2>1. took'[b][a] = took[b][a] /\ wrote'[a][b] = wrote[a][b]
    BY <1>1
  <2>2. CASE b # r
    BY <1>3, <1>6, <1>7, <2>1, <2>2, OrderedNext DEF Ordered
  <2>3. CASE b = r
    <3>1. /\ Increasing(s, a) /\ Within(s, a, took[r][a], wrote[a][r]) /\ Before(box[r], s, a)
          /\ Increasing(box[r], a) /\ Within(box[r], a, took[r][a], wrote[a][r])
          /\ took[r][a] <= wrote[a][r]
      BY <1>2, <1>7, <2>3 DEF Ordered, s
    <3>2. \A d \in Conn : /\ Increasing(stream'[d][r], a)
                          /\ Within(stream'[d][r], a, took[r][a], wrote[a][r])
                          /\ Before(box[r], stream'[d][r], a)
      <4> SUFFICES ASSUME NEW d \in Conn
                   PROVE  /\ Increasing(stream'[d][r], a)
                          /\ Within(stream'[d][r], a, took[r][a], wrote[a][r])
                          /\ Before(box[r], stream'[d][r], a)
        OBVIOUS
      <4>1. CASE d = c
        <5>1. stream'[d][r] = Tail(s)
          BY <1>6, <4>1
        <5> QED BY <1>5, <3>1, <5>1, FewerElements
      <4>2. CASE d # c
        BY <1>6, <1>7, <2>3, <4>2 DEF Ordered
      <4> QED BY <4>1, <4>2
    <3>3. CASE ~From(m, a)
      <4>1. m \in Letter \cup Notice
        BY <1>4
      <4>2. Increasing(box'[r], a) /\ Within(box'[r], a, took[r][a], wrote[a][r])
        BY <1>3, <3>1, <3>3, <4>1, AnotherElement
      <4>3. \A d \in Conn : Before(box'[r], stream'[d][r], a)
        BY <1>3, <3>2, <3>3, <4>1, AnotherElement
      <4> QED BY <2>1, <2>3, <3>1, <3>2, <4>2, <4>3, OrderedNext
    <3>4. CASE From(m, a)
      <4>1. /\ took[r][a] < m.n /\ m.n <= wrote[a][r]
            /\ \A i \in 1..Len(box[r]) : From(box[r][i], a) => box[r][i].n < m.n
        BY <1>4, <3>1, <3>4 DEF Within, Before
      <4>2. took[r][a] \in Int /\ wrote[a][r] \in Int
        BY DEF Inv, TypeOK
      <4>3. Increasing(box'[r], a) /\ Within(box'[r], a, took[r][a], wrote[a][r])
        <5> DEFINE low == took[r][a]
                   high == wrote[a][r]
        <5>1. low \in Int /\ high \in Int /\ high <= high /\ low < m.n /\ m.n <= high
          BY <4>1, <4>2
        <5>2. Within(box[r], a, low, high)
          BY <3>1
        <5> HIDE DEF low, high
        <5>3. Increasing(Append(box[r], m), a) /\ Within(Append(box[r], m), a, low, high)
          BY <1>3, <1>4, <3>1, <4>1, <5>1, <5>2, HigherElement
        <5> QED BY <1>3, <5>3 DEF low, high
      <4>4. ASSUME NEW d \in Conn, NEW j \in 1..Len(stream'[d][r]), From(stream'[d][r][j], a)
            PROVE  m.n < stream'[d][r][j].n
        <5>1. CASE d = c
          <6>1. stream'[d][r] = Tail(s)
            BY <1>6, <5>1
          <6>2. j + 1 \in 1..Len(s) /\ stream'[d][r][j] = s[j + 1] /\ 1 < j + 1
            BY <1>4, <4>4, <6>1
          <6> QED BY <1>4, <3>1, <3>4, <4>4, <6>2 DEF Increasing
        <5>2. CASE d # c
          <6>1. stream'[d][r] = stream[d][r]
            BY <1>6, <5>2
          <6>2. Link(d, a, r)
            BY <4>4, <6>1 DEF Links, StreamLinked, From
          <6>3. Link(c, a, r)
            BY <1>2, <1>4, <3>4 DEF Links, StreamLinked, From, s
          <6> QED BY <1>7, <2>3, <5>2, <6>2, <6>3 DEF InvS, Single, Link
        <5> QED BY <5>1, <5>2
      <4>5. \A d \in Conn : Before(box'[r], stream'[d][r], a)
        <5> SUFFICES ASSUME NEW d \in Conn, NEW i \in 1..Len(box'[r]),
                            NEW j \in 1..Len(stream'[d][r]),
                            From(box'[r][i], a), From(stream'[d][r][j], a)
                     PROVE  box'[r][i].n < stream'[d][r][j].n
          BY DEF Before
        <5>1. \/ i \in 1..Len(box[r]) /\ box'[r][i] = box[r][i]
              \/ box'[r][i] = m
          <6>1. m \in Letter \cup Notice
            BY <1>4
          <6> QED BY <1>3, <6>1
        <5>2. CASE i \in 1..Len(box[r]) /\ box'[r][i] = box[r][i]
          BY <3>2, <5>2 DEF Before
        <5>3. CASE box'[r][i] = m
          BY <4>4, <5>3
        <5> QED BY <5>1, <5>2, <5>3
      <4> QED BY <2>1, <2>3, <3>1, <3>2, <4>3, <4>5, OrderedNext
    <3> QED BY <3>3, <3>4
  <2> QED BY <2>2, <2>3
<1> QED BY <1>1, <1>7, OrdersNext

\* The other steps take out of a queue at most, or append an answer.
LEMMA OtherOrder ==
    ASSUME Inv, Orders, UNCHANGED <<took, wrote, stream>>, asked \subseteq asked',
           NEW q \in Proc, \A r \in Proc \ {q} : box'[r] = box[r],
           \/ box'[q] = box[q]
           \/ \E i : Without(box'[q], box[q], i)
           \/ \E m \in Notice : IsNotice(m) /\ box'[q] = Append(box[q], m)
    PROVE  Orders'
<1>1. ASSUME NEW p \in Proc, NEW r \in Proc, Ordered(p, r) PROVE Ordered(p, r)'
  <2>1. /\ Increasing(box[r], p) => Increasing(box'[r], p)
        /\ \A low, high : Within(box[r], p, low, high) => Within(box'[r], p, low, high)
        /\ \A u : Before(box[r], u, p) => Before(box'[r], u, p)
    <3>1. CASE box'[r] = box[r]
      BY <3>1
    <3>2. CASE r = q /\ \E i : Without(box'[q], box[q], i)
      BY <3>2, FewerElements
    <3>3. CASE r = q /\ \E m \in Notice : IsNotice(m) /\ box'[q] = Append(box[q], m)
      <4>1. PICK m \in Notice : IsNotice(m) /\ box'[r] = Append(box[r], m)
        BY <3>3
      <4>2. ~From(m, p) /\ m \in Letter \cup Notice
        BY <4>1 DEF From
      <4>3. box[r] \in Seq(Letter \cup Notice)
        BY DEF Inv, TypeOK
      <4> QED BY <4>1, <4>2, <4>3, AnotherElement
    <3> QED BY <3>1, <3>2, <3>3
  <2> QED BY <1>1, <2>1, SameOrder
<1> QED BY <1>1, OrdersNext

LEMMA NextOrder == Inv /\ Links /\ InvS /\ Orders /\ [Next]_vars => Orders'
<1> SUFFICES ASSUME Inv, Links, InvS, Orders, [Next]_vars PROVE Orders'
  OBVIOUS
<1>1. ASSUME NEW p \in Proc, Write(p) PROVE Orders'
  BY <1>1, WriteOrder
<1>2. ASSUME NEW p \in Proc, UserReceive(p) PROVE Orders'
  BY <1>2, ReceiveOrder
<1>3. ASSUME NEW p \in Proc, NEW c \in DOMAIN conns, ReadMessage(c, p) PROVE Orders'
  BY <1>3, ReadMessageOrder
<1>4. ASSUME NEW p \in Proc, AwaitConnect(p) PROVE Orders'
  <2>1. box \in [Proc -> Seq(Letter \cup Notice)]
    BY DEF Inv, TypeOK
  <2>2. PICK i \in 1..Len(box[p]) :
          \E b : /\ box' = [box EXCEPT ![p] = b]
                 /\ b = RemoveAt(box[p], i) \/ b = SubSeq(box[p], i + 1, Len(box[p]))
    <3>1. PICK i \in DOMAIN box[p] :
            box' = [box EXCEPT ![p] =
                      IF box[p][i].type = "have-a-connection" /\ box[p][i].from = tgt[p]
                      THEN RemoveAt(box[p], i)
                      ELSE SubSeq(box[p], i + 1, Len(box[p]))]
      BY <1>4 DEF AwaitConnect
    <3>2. i \in 1..Len(box[p])
      BY <2>1
    <3> QED BY <3>1, <3>2
  <2>3. \/ box'[p] = RemoveAt(box[p], i)
        \/ box'[p] = SubSeq(box[p], i + 1, Len(box[p]))
    BY <2>1, <2>2
  <2>4. Without(box'[p], box[p], i)
    <3>1. box[p] \in Seq(Letter \cup Notice)
      BY <2>1
    <3> QED BY <2>3, <3>1, Removed
  <2>5. \A r \in Proc \ {p} : box'[r] = box[r]
    BY <2>1, <2>2
  <2>6. UNCHANGED <<took, wrote, stream, asked>>
    BY <1>4 DEF AwaitConnect, threadVars
  <2> QED BY <2>4, <2>5, <2>6, OtherOrder
<1>5. ASSUME NEW p \in Proc, ReadNotice(p) PROVE Orders'
  <2> DEFINE m == Head(notices[p])
  <2>1. /\ m \in Notice /\ UNCHANGED <<took, wrote, stream, asked>>
        /\ \/ m.type = "connection-error" /\ box' = [box EXCEPT ![p] = Append(@, m)]
           \/ UNCHANGED box
    <3>1. notices[p] \in Seq(Notice) /\ notices[p] # <<>>
      BY <1>5 DEF ReadNotice, Inv, TypeOK
    <3> QED BY <1>5, <3>1 DEF ReadNotice, Queue, threadVars
  <2> HIDE DEF m
  <2>2. m.type = "connection-error" => IsNotice(m)
    BY DEF IsNotice
  <2>3. /\ \A r \in Proc \ {p} : box'[r] = box[r]
        /\ box'[p] = box[p] \/ (IsNotice(m) /\ box'[p] = Append(box[p], m))
    BY <2>1, <2>2 DEF Inv, TypeOK
  <2> QED BY <2>1, <2>3, OtherOrder
<1>6. ASSUME NEW p \in Proc, CheckFlag(p) PROVE Orders'
  <2>1. PICK m \in pending[p] :
          /\ UNCHANGED <<took, wrote, stream, asked>>
          /\ box' = [box EXCEPT ![p] = Append(@, m)] \/ UNCHANGED box
    BY <1>6 DEF CheckFlag, Queue, threadVars
  <2>2. m \in Notice /\ IsNotice(m)
    BY DEF Inv, TypeOK, Notice, IsNotice
  <2>3. /\ \A r \in Proc \ {p} : box'[r] = box[r]
        /\ box'[p] = box[p] \/ box'[p] = Append(box[p], m)
    BY <2>1 DEF Inv, TypeOK
  <2> QED BY <2>1, <2>2, <2>3, OtherOrder
<1>7. ASSUME NEW p \in Proc, UNCHANGED <<took, wrote, stream, box>>, asked \subseteq asked'
      PROVE  Orders'
  BY <1>7, OtherOrder
<1>8. ASSUME NEW p \in Proc,
             \/ \E t \in Proc : StartSend(p, t)
             \/ GetCached(p) \/ GetConnected(p) \/ RequestConnect(p)
             \/ HandleConnect(p) \/ Die(p)
             \/ \E c \in DOMAIN conns : ReadEnd(c, p) \/ ReadShut(c, p)
      PROVE  Orders'
  <2>1. UNCHANGED <<took, wrote, stream, box>> /\ asked \subseteq asked'
    BY <1>8 DEF StartSend, GetCached, GetConnected, RequestConnect, HandleConnect, Die,
                ReadEnd, ReadShut, threadVars
  <2> QED BY <1>7, <2>1
<1>9. CASE UNCHANGED vars
  <2>1. UNCHANGED <<took, wrote, stream, box, asked>>
    BY <1>9 DEF vars, threadVars
  <2> QED BY <1>7, <2>1 DEF Orders
<1> QED BY <1>1, <1>2, <1>3, <1>4, <1>5, <1>6, <1>8, <1>9 DEF Next, SendStep, ReaderStep

LEMMA AlwaysOrders == Spec => [](Links /\ InvS /\ Orders)
<1>1. Init => Orders
  <2> SUFFICES ASSUME Init PROVE Orders
    OBVIOUS
  <2>1. /\ \A p, r \in Proc : took[r][p] = 0 /\ wrote[p][r] = 0
        /\ \A r \in Proc : box[r] = <<>> /\ \A c \in Conn : stream[c][r] = <<>>
    BY DEF Init
  <2> QED BY <2>1 DEF Orders, Ordered, Increasing, Within, Before
<1> QED BY <1>1, InitLinks, InitSingle, NextLinks, NextSingle, NextOrder, AlwaysInv,
           AlwaysAnswers, PTL DEF Spec

\* For any number of processes and sends: the messages between two processes,
\* neither of which has asked central for a connection crosswise, are in the
\* inbox in the order of their sends, whoever has made the connection, whoever
\* dies, and whatever failed before.
THEOREM SenderOrderUncrossedCorrect == Spec => []SenderOrderUncrossed
<1>1. Inv /\ Orders => SenderOrderUncrossed
  <2> SUFFICES ASSUME Inv, Orders, NEW p \in Proc, NEW r \in Proc, ~Crossed(p), ~Crossed(r)
               PROVE  InOrder(p, r)
    BY DEF SenderOrderUncrossed
  <2>1. Ordered(p, r)
    BY DEF Orders
  <2> SUFFICES ASSUME NEW i \in 1..Len(box[r]), From(box[r][i], p)
               PROVE  /\ box[r][i].n > took[r][p]
                      /\ \A j \in 1..(i - 1) : From(box[r][j], p) => box[r][j].n < box[r][i].n
    BY DEF InOrder, From
  <2>2. Len(box[r]) \in Nat
    BY DEF Inv, TypeOK
  <2>3. box[r][i].n > took[r][p]
    BY <2>1 DEF Ordered, Within
  <2>4. \A j \in 1..(i - 1) : j \in 1..Len(box[r]) /\ j < i
    BY <2>2
  <2>5. \A j \in 1..(i - 1) : From(box[r][j], p) => box[r][j].n < box[r][i].n
    BY <2>1, <2>4 DEF Ordered, Increasing
  <2> QED BY <2>3, <2>5
<1> QED BY <1>1, AlwaysInv, AlwaysOrders, PTL
=============================================================================
