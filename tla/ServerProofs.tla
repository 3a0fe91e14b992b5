---------------------------- MODULE ServerProofs ----------------------------
(****************************************************************************)
(* Theorems about inboxes that listen, for every set of processes and every *)
(* number of sends, whoever is closed or dies: types, that disconnects are  *)
(* told truthfully and last, that uncrossed processes receive in order, and *)
(* what a close leaves open.                                                *)
(****************************************************************************)
EXTENDS Server, FiniteSetTheorems, SequenceTheorems, TLAPS

----------------------------------------------------------------------------
(* Types.                                                                   *)

\* Connection c is one between p and q.
Between(c, p, q) ==
    c \in 1..Len(conns) /\ (conns[c] = <<p, q>> \/ conns[c] = <<q, p>>)
Whole(c) == {<<c, conns[c][1]>>, <<c, conns[c][2]>>} \subseteq open

Sending  == {"cached", "absent", "hello", "attach", "write"}
Dials(p, c) == pc[p] \in {"hello", "attach"} /\ sock[p] = c

Absent == {p \in Proc : pc[p] = "absent"}
Counted ==
    /\ IsFiniteSet(Absent)
    /\ Cardinality(Absent) + Len(conns) <= sends

Writes ==
    \A p, t \in Proc :
        /\ wrote[p][t] <= sends
        /\ pc[p] \in Sending /\ tgt[p] = t => wrote[p][t] < sends

Linked ==
    /\ \A c \in 1..Len(conns) : conns[c][1] # conns[c][2]
    /\ \A p, q \in Proc : cache[p][q] # 0 => Between(cache[p][q], p, q)
    /\ \A x \in readers \cup open : x[1] \in 1..Len(conns) /\ x[2] \in {conns[x[1]][1], conns[x[1]][2]}
    /\ \A p \in Proc :
         /\ pc[p] \in Sending => tgt[p] # p
         /\ pc[p] \in {"hello", "attach"} => sock[p] \in 1..Len(conns) /\ conns[sock[p]] = <<p, tgt[p]>>
         /\ pc[p] = "write" => Between(sock[p], p, tgt[p])
    /\ \A c \in Conn : \A p \in Proc : \A i \in 1..Len(stream[c][p]) :
         Between(c, p, stream[c][p][i].from)
    /\ \A c \in Conn : c > Len(conns) => accepted[c] = "no"

Greets ==
    /\ \A c \in Conn : \A p \in Proc : \A i \in 1..Len(stream[c][p]) :
         stream[c][p][i].type = "hello" =>
            i = 1 /\ p = conns[c][2] /\ accepted[c] \in {"no", "handshake"}
    /\ \A p \in Proc : pc[p] = "hello" =>
         /\ stream[sock[p]][tgt[p]] = <<>> /\ accepted[sock[p]] \in {"no", "handshake"}
         /\ <<sock[p], p>> \in open
    /\ \A x \in readers :
         /\ x[2] = conns[x[1]][2] => accepted[x[1]] \in {"attached", "late"}
         /\ ~Dials(x[2], x[1])

\* The first value was taken off the stream of c towards p.
Taken(c, p) ==
    \A d \in Conn, r \in Proc :
        /\ stream[d][r] = <<>> => stream'[d][r] = <<>>
        /\ \A i \in 1..Len(stream'[d][r]) : \E j \in 1..Len(stream[d][r]) :
             /\ stream'[d][r][i] = stream[d][r][j] /\ i <= j
             /\ d = c /\ r = p => i < j

Inv == TypeOK /\ Counted /\ Writes /\ Linked /\ Greets

LEMMA Rest ==
    ASSUME NEW S, NEW s \in Seq(S), s # <<>>
    PROVE  /\ Len(s) \in Nat \ {0} /\ Head(s) = s[1] /\ Head(s) \in S /\ 1 \in 1..Len(s)
           /\ Tail(s) \in Seq(S) /\ Len(Tail(s)) = Len(s) - 1
           /\ \A i \in 1..Len(Tail(s)) : i + 1 \in 1..Len(s) /\ Tail(s)[i] = s[i + 1]
OBVIOUS

LEMMA Longer ==
    ASSUME NEW S, NEW s \in Seq(S), NEW v \in S
    PROVE  /\ Append(s, v) \in Seq(S) /\ Len(s) \in Nat /\ Len(Append(s, v)) = Len(s) + 1
           /\ \A i \in 1..Len(s) : Append(s, v)[i] = s[i]
           /\ Append(s, v)[Len(s) + 1] = v
           /\ \A i \in 1..Len(Append(s, v)) : i \in 1..Len(s) \/ i = Len(s) + 1
OBVIOUS

LEMMA LongerIs ==
    ASSUME NEW S, NEW s \in Seq(S), NEW v \in S, NEW u, u = Append(s, v)
    PROVE  /\ u \in Seq(S) /\ Len(s) \in Nat /\ Len(u) = Len(s) + 1
           /\ \A i \in 1..Len(s) : u[i] = s[i]
           /\ u[Len(s) + 1] = v
           /\ \A i \in 1..Len(u) : i \in 1..Len(s) \/ i = Len(s) + 1
BY Longer

LEMMA ConnTypes ==
    ASSUME Inv
    PROVE  /\ Len(conns) \in Nat /\ 1..Len(conns) \subseteq Conn /\ DOMAIN conns = 1..Len(conns)
           /\ 0 \notin Conn /\ MaxSends \in Nat
           /\ \A c \in 1..Len(conns) :
                /\ conns[c] = <<conns[c][1], conns[c][2]>> /\ conns[c] \in Proc \X Proc
                /\ conns[c][1] \in Proc /\ conns[c][2] \in Proc /\ conns[c][1] # conns[c][2]
<1>1. conns \in Seq(Proc \X Proc) /\ Len(conns) <= MaxSends /\ MaxSends \in Nat
  BY ServerAssumption DEF Inv, TypeOK
<1>2. Len(conns) \in Nat /\ DOMAIN conns = 1..Len(conns)
  BY <1>1
<1>3. \A c \in 1..Len(conns) : conns[c] \in Proc \X Proc
  BY <1>1
<1>4. 1..Len(conns) \subseteq Conn /\ 0 \notin Conn
  BY <1>1, <1>2 DEF Conn
<1> QED BY <1>1, <1>2, <1>3, <1>4 DEF Inv, Linked

LEMMA SendTypes ==
    ASSUME Inv PROVE sends \in 0..MaxSends /\ sends \in Nat /\ sends <= MaxSends /\ MaxSends \in Nat
<1>1. sends \in 0..MaxSends
  BY DEF Inv, TypeOK
<1> QED BY <1>1, ServerAssumption

\* The peer of a connection between p and q is the other one.
LEMMA PeerIs ==
    ASSUME Inv, NEW c, NEW p \in Proc, NEW q \in Proc, Between(c, p, q)
    PROVE  /\ Peer(c, p) = q /\ p # q /\ c \in 1..Len(conns) /\ c \in Conn
           /\ {conns[c][1], conns[c][2]} = {p, q} /\ Between(c, q, p)
           /\ conns[c][1] = p <=> conns[c][2] = q
           /\ conns[c][1] = q <=> conns[c][2] = p
BY ConnTypes DEF Between, Peer

LEMMA EndsAre ==
    ASSUME Inv, NEW c \in 1..Len(conns), NEW p \in {conns[c][1], conns[c][2]}
    PROVE  /\ Peer(c, p) \in Proc /\ p \in Proc /\ Between(c, p, Peer(c, p))
BY ConnTypes DEF Between, Peer

LEMMA SameBetween ==
    ASSUME conns' = conns
    PROVE  \A c, p, q : Between(c, p, q)' <=> Between(c, p, q)
BY DEF Between

LEMMA CountKept ==
    ASSUME Inv, sends' = sends, conns' = conns, Absent' \subseteq Absent
    PROVE  Counted'
<1>1. IsFiniteSet(Absent') /\ Cardinality(Absent') <= Cardinality(Absent)
  BY FS_Subset DEF Inv, Counted
<1>2. Cardinality(Absent') \in Nat /\ Cardinality(Absent) \in Nat
  BY <1>1, FS_CardinalityType DEF Inv, Counted
<1> QED BY <1>1, <1>2, ConnTypes DEF Inv, Counted, TypeOK

LEMMA InitInv == Init => Inv
<1> SUFFICES ASSUME Init PROVE Inv
  OBVIOUS
<1>1. /\ MaxSends \in Nat /\ conns = <<>> /\ Len(conns) = 0
      /\ \A c \in Conn, p \in Proc : stream[c][p] = <<>> /\ Len(stream[c][p]) = 0
  BY ServerAssumption DEF Init
<1>2. TypeOK
  <2>1. /\ sends \in 0..MaxSends /\ 0 \in 0..MaxSends /\ conns \in Seq(Proc \X Proc)
    BY <1>1 DEF Init
  <2> QED BY <1>1, <2>1 DEF Init, TypeOK
<1>3. Counted
  <2>1. Absent = {}
    BY DEF Init, Absent
  <2> QED BY <1>1, <2>1, FS_EmptySet DEF Init, Counted
<1>4. Writes /\ Linked /\ Greets
  BY <1>1 DEF Init, Writes, Linked, Greets, Sending
<1> QED BY <1>2, <1>3, <1>4 DEF Inv

\* What send_value does: it writes v at the end of the stream if both ends are
\* open, and closes this end only if one of them is not.
Delivered(p, v, next) ==
    /\ stream' \in [Conn -> [Proc -> Seq(Value)]]
    /\ \E at \in {next, "idle"} : pc' = [pc EXCEPT ![p] = at]
    /\ open' \subseteq open
    /\ \A x \in open \ open' : x = <<sock[p], p>>
    /\ \/ UNCHANGED stream
       \/ /\ stream' = [stream EXCEPT ![sock[p]][tgt[p]] = Append(@, v)]
          /\ pc' = [pc EXCEPT ![p] = next]
          /\ Whole(sock[p]) /\ open' = open
    /\ open' # open \/ pc' # [pc EXCEPT ![p] = next] => ~Whole(sock[p])
    /\ pc' # [pc EXCEPT ![p] = next] => <<sock[p], p>> \notin open'

LEMMA Sent ==
    ASSUME Inv, NEW p \in Proc, NEW v \in Value, NEW next, SendValue(p, v, next),
           Between(sock[p], p, tgt[p])
    PROVE  Delivered(p, v, next)
<1> DEFINE c == sock[p]
<1>1. /\ c \in Conn /\ c \in 1..Len(conns) /\ tgt[p] \in Proc
      /\ \/ conns[c][1] = p /\ conns[c][2] = tgt[p]
         \/ conns[c][2] = p /\ conns[c][1] = tgt[p]
  <2>1. tgt[p] \in Proc
    BY DEF Inv, TypeOK
  <2>2. c \in Conn /\ c \in 1..Len(conns)
    BY <2>1, PeerIs
  <2>3. DOMAIN <<p, tgt[p]>> = 1..2 /\ <<p, tgt[p]>>[1] = p /\ <<p, tgt[p]>>[2] = tgt[p]
        /\ <<tgt[p], p>>[1] = tgt[p] /\ <<tgt[p], p>>[2] = p
    OBVIOUS
  <2> QED BY <2>1, <2>2, <2>3 DEF Between
<1>2. Whole(c) <=> WholeSocket(p)
  BY <1>1 DEF Whole, WholeSocket
<1>3. CASE /\ Whole(c)
           /\ stream' = [stream EXCEPT ![c][tgt[p]] = Append(@, v)]
           /\ Goto(p, next) /\ UNCHANGED open
  <2>1. Append(stream[c][tgt[p]], v) \in Seq(Value)
    BY <1>1 DEF Inv, TypeOK
  <2>2. stream' \in [Conn -> [Proc -> Seq(Value)]]
    BY <1>1, <1>3, <2>1 DEF Inv, TypeOK
  <2> QED BY <1>3, <2>2 DEF Goto, Delivered
<1>4. CASE ~Whole(c) /\ Goto(p, next) /\ UNCHANGED <<stream, open>>
  BY <1>4 DEF Goto, Inv, TypeOK, Delivered
<1>5. CASE ~Whole(c) /\ open' = open \ {<<c, p>>} /\ Goto(p, "idle") /\ UNCHANGED stream
  BY <1>5 DEF Goto, Inv, TypeOK, Delivered
<1> QED BY <1>2, <1>3, <1>4, <1>5 DEF SendValue

\* The elements of a stream to which v was appended.
LEMMA Appended ==
    ASSUME Inv, NEW c \in Conn, NEW p \in Proc, NEW v \in Value,
           stream' = [stream EXCEPT ![c][p] = Append(@, v)]
    PROVE  \A d \in Conn, r \in Proc :
             /\ <<d, r>> # <<c, p>> => stream'[d][r] = stream[d][r]
             /\ \A i \in 1..Len(stream'[d][r]) :
                  \/ i \in 1..Len(stream[d][r]) /\ stream'[d][r][i] = stream[d][r][i]
                  \/ /\ d = c /\ r = p /\ stream'[d][r][i] = v
                     /\ i = Len(stream[d][r]) + 1
<1>1. stream'[c][p] = Append(stream[c][p], v) /\ stream[c][p] \in Seq(Value)
  BY DEF Inv, TypeOK
<1>2. \A i \in 1..Len(stream'[c][p]) :
        \/ i \in 1..Len(stream[c][p]) /\ stream'[c][p][i] = stream[c][p][i]
        \/ stream'[c][p][i] = v /\ i = Len(stream[c][p]) + 1
  BY <1>1, Longer
<1>3. \A d \in Conn, r \in Proc : <<d, r>> # <<c, p>> => stream'[d][r] = stream[d][r]
  BY DEF Inv, TypeOK
<1> QED BY <1>2, <1>3

\* The elements of a stream from which the first was read.
LEMMA Consumed ==
    ASSUME Inv, NEW c \in Conn, NEW p \in Proc, stream[c][p] # <<>>,
           stream' = [stream EXCEPT ![c][p] = Tail(@)]
    PROVE  /\ stream' \in [Conn -> [Proc -> Seq(Value)]]
           /\ Head(stream[c][p]) \in Value /\ 1 \in 1..Len(stream[c][p])
           /\ Head(stream[c][p]) = stream[c][p][1]
           /\ \A d \in Conn, r \in Proc :
                <<d, r>> # <<c, p>> => stream'[d][r] = stream[d][r]
           /\ \A i \in 1..Len(stream'[c][p]) :
                i + 1 \in 1..Len(stream[c][p]) /\ stream'[c][p][i] = stream[c][p][i + 1]
           /\ Taken(c, p)
<1>1. stream[c][p] \in Seq(Value) /\ stream'[c][p] = Tail(stream[c][p])
  BY DEF Inv, TypeOK
<1>2. stream' \in [Conn -> [Proc -> Seq(Value)]]
  BY <1>1, Rest DEF Inv, TypeOK
<1>3. \A d \in Conn, r \in Proc : <<d, r>> # <<c, p>> => stream'[d][r] = stream[d][r]
  BY DEF Inv, TypeOK
<1>4. /\ Head(stream[c][p]) \in Value /\ 1 \in 1..Len(stream[c][p])
      /\ Head(stream[c][p]) = stream[c][p][1]
      /\ \A i \in 1..Len(stream'[c][p]) :
           i + 1 \in 1..Len(stream[c][p]) /\ stream'[c][p][i] = stream[c][p][i + 1]
  BY <1>1, Rest
<1>5. ASSUME NEW d \in Conn, NEW r \in Proc, NEW i \in 1..Len(stream'[d][r])
      PROVE  \E j \in 1..Len(stream[d][r]) :
                /\ stream'[d][r][i] = stream[d][r][j] /\ i <= j
                /\ d = c /\ r = p => i < j
  <2>1. CASE <<d, r>> = <<c, p>>
    <3>1. d = c /\ r = p /\ i \in 1..Len(stream'[c][p])
      BY <1>5, <2>1
    <3>2. /\ i + 1 \in 1..Len(stream[d][r]) /\ stream'[d][r][i] = stream[d][r][i + 1]
          /\ i <= i + 1 /\ i < i + 1
      <4>1. i \in Int /\ i <= i + 1 /\ i < i + 1
        BY <1>5
      <4> QED BY <1>4, <3>1, <4>1
    <3> QED BY <3>1, <3>2
  <2>2. CASE <<d, r>> # <<c, p>>
    <3>1. i \in 1..Len(stream[d][r]) /\ stream'[d][r][i] = stream[d][r][i]
      BY <1>3, <1>5, <2>2
    <3> QED BY <2>2, <3>1
  <2> QED BY <2>1, <2>2
<1> QED BY <1>2, <1>3, <1>4, <1>5 DEF Taken

\* Steps that do not connect, write, read or attach.
LEMMA QuietGreets ==
    ASSUME Inv, UNCHANGED <<conns, stream, accepted>>, readers' \subseteq readers,
           \A p \in Proc : pc'[p] \in {"hello", "attach"} =>
               pc'[p] = pc[p] /\ sock'[p] = sock[p] /\ tgt'[p] = tgt[p],
           \A p \in Proc : pc[p] = "hello" /\ pc'[p] = "hello" =>
               <<sock[p], p>> \in open'
    PROVE  Greets'
<1>1. \A x \in readers' : ~Dials(x[2], x[1])'
  <2> SUFFICES ASSUME NEW x \in readers', Dials(x[2], x[1])' PROVE FALSE
    OBVIOUS
  <2>1. x \in readers /\ x[2] \in Proc /\ ~Dials(x[2], x[1])
    BY DEF Inv, TypeOK, Greets
  <2> QED BY <2>1 DEF Dials
<1>2. \A p \in Proc : pc'[p] = "hello" =>
        /\ pc[p] = "hello" /\ sock'[p] = sock[p] /\ tgt'[p] = tgt[p]
        /\ <<sock[p], p>> \in open'
  OBVIOUS
<1> QED BY <1>1, <1>2 DEF Inv, Greets

\* Steps that do not connect, write or read.
LEMMA QuietLinked ==
    ASSUME Inv, UNCHANGED <<conns, stream>>, open' \subseteq open,
           readers' \subseteq readers, accepted' = accepted,
           \A p, q \in Proc : cache'[p][q] \in {cache[p][q], 0},
           \A p \in Proc :
             /\ pc'[p] \in Sending => pc[p] \in Sending /\ tgt'[p] = tgt[p]
             /\ pc'[p] \in {"hello", "attach"} => pc'[p] = pc[p] /\ sock'[p] = sock[p]
             /\ pc'[p] = "write" => pc[p] = "write" /\ sock'[p] = sock[p],
           \A p \in Proc : pc[p] = "hello" /\ pc'[p] = "hello" =>
                <<sock[p], p>> \in open'
    PROVE  Linked' /\ Greets'
<1>1. \A c, p, q : Between(c, p, q)' <=> Between(c, p, q)
  BY DEF Between
<1>2. \A p \in Proc, q \in Proc : cache'[p][q] # 0 => Between(cache[p][q], p, q)'
  BY <1>1 DEF Inv, Linked
<1>3. \A p \in Proc :
        /\ pc'[p] \in Sending => tgt'[p] # p
        /\ pc'[p] \in {"hello", "attach"} =>
             sock'[p] \in 1..Len(conns) /\ conns[sock'[p]] = <<p, tgt'[p]>>
        /\ pc'[p] = "write" => Between(sock'[p], p, tgt'[p])
  BY DEF Inv, Linked, Sending
<1>4. Linked'
  BY <1>1, <1>2, <1>3 DEF Inv, Linked
<1>5. Greets'
  BY QuietGreets DEF Sending
<1> QED BY <1>4, <1>5

LEMMA StartSendInv ==
    ASSUME Inv, NEW p \in Proc, NEW t \in Proc, StartSend(p, t) PROVE Inv'
<1>0. /\ sends \in 0..MaxSends /\ sends' = sends + 1 /\ sends' \in 0..MaxSends
      /\ sends \in Nat
  BY ConnTypes DEF StartSend, Inv, TypeOK
<1>a. /\ t # p /\ pc[p] = "idle" /\ tgt' = [tgt EXCEPT ![p] = t]
      /\ \E at \in {"cached", "absent"} : pc' = [pc EXCEPT ![p] = at]
  BY DEF StartSend, Goto
<1>1. TypeOK'
  BY <1>0, <1>a DEF StartSend, Inv, TypeOK
<1>2. Writes'
  <2>1. \A r, k \in Proc : wrote[r][k] \in Nat /\ wrote[r][k] <= sends
    BY ConnTypes DEF Inv, TypeOK, Writes
  <2>2. \A r, k \in Proc : wrote'[r][k] <= sends /\ wrote'[r][k] < sends'
    BY <1>0, <1>a, <2>1 DEF StartSend
  <2> QED BY <1>0, <1>a, <2>2, <2>1 DEF StartSend, Writes
<1>3. Counted'
  <2>1. Absent' \subseteq Absent \cup {p} /\ p \notin Absent
    BY <1>0, <1>a DEF Absent, Inv, TypeOK
  <2>2. /\ IsFiniteSet(Absent) /\ IsFiniteSet(Absent \cup {p})
        /\ Cardinality(Absent \cup {p}) = Cardinality(Absent) + 1
    BY <2>1, FS_AddElement DEF Inv, Counted
  <2>3. /\ IsFiniteSet(Absent')
        /\ Cardinality(Absent') <= Cardinality(Absent \cup {p})
    BY <2>1, <2>2, FS_Subset
  <2>4. Cardinality(Absent') \in Nat /\ Cardinality(Absent) \in Nat
    BY <2>2, <2>3, FS_CardinalityType
  <2> QED BY <1>0, <1>a, <2>2, <2>3, <2>4, ConnTypes DEF StartSend, Inv, Counted
<1>4. Linked' /\ Greets'
  <2>1. \A c, a, b : Between(c, a, b)' <=> Between(c, a, b)
    BY SameBetween DEF StartSend
  <2>2. /\ pc'[p] \notin {"hello", "attach", "write"} /\ tgt'[p] = t
        /\ \A r \in Proc \ {p} : pc'[r] = pc[r] /\ tgt'[r] = tgt[r]
    BY <1>0, <1>a DEF Inv, TypeOK
  <2>3. Linked'
    BY <1>0, <1>a, <2>1, <2>2 DEF StartSend, Inv, Linked
  <2>4. Greets'
    BY <1>0, <1>a, <2>1, <2>2 DEF StartSend, Inv, Greets, Dials
  <2> QED BY <2>3, <2>4
<1> QED BY <1>1, <1>2, <1>3, <1>4 DEF Inv

\* Steps that only take the first value off a stream.
LEMMA ShrunkKeeps ==
    ASSUME Inv, UNCHANGED <<pc, sendVars, cache, readers, conns, accepted, open>>,
           stream' \in [Conn -> [Proc -> Seq(Value)]],
           NEW b, NEW e, Taken(b, e)
    PROVE  Linked' /\ Greets'
<1>1. UNCHANGED <<tgt, sock, sends>>
  BY DEF sendVars
<1>2. ASSUME NEW c \in Conn, NEW p \in Proc, NEW i \in 1..Len(stream'[c][p])
      PROVE  /\ Between(c, p, stream[c][p][i].from)'
             /\ stream'[c][p][i].type = "hello" =>
                  i = 1 /\ p = conns[c][2] /\ accepted[c] \in {"no", "handshake"}
  <2>1. PICK j \in 1..Len(stream[c][p]) : stream'[c][p][i] = stream[c][p][j] /\ i <= j
    BY DEF Taken
  <2>2. Between(c, p, stream[c][p][j].from)
    BY DEF Inv, Linked
  <2>3. stream[c][p][j].type = "hello" =>
          j = 1 /\ p = conns[c][2] /\ accepted[c] \in {"no", "handshake"}
    BY DEF Inv, Greets
  <2>4. j = 1 => i = 1
    BY <2>1
  <2>5. Between(c, p, stream'[c][p][i].from)
    BY <2>1, <2>2
  <2> QED BY <2>1, <2>3, <2>4, <2>5 DEF Between
<1>3. Linked'
  <2>1. \A p, q \in Proc : cache'[p][q] # 0 => Between(cache[p][q], p, q)'
    BY DEF Inv, Linked, Between
  <2>2. \A p \in Proc : pc'[p] = "write" => Between(sock[p], p, tgt[p])'
    BY <1>1 DEF Inv, Linked, Between
  <2>3. /\ \A c \in 1..Len(conns') : conns'[c][1] # conns'[c][2]
        /\ \A x \in readers' \cup open' :
             x[1] \in 1..Len(conns') /\ x[2] \in {conns'[x[1]][1], conns'[x[1]][2]}
        /\ \A c \in Conn : c > Len(conns') => accepted'[c] = "no"
    BY DEF Inv, Linked
  <2>4. \A p \in Proc :
          /\ pc'[p] \in Sending => tgt'[p] # p
          /\ pc'[p] \in {"hello", "attach"} =>
               sock'[p] \in 1..Len(conns') /\ conns'[sock'[p]] = <<p, tgt'[p]>>
    BY <1>1 DEF Inv, Linked
  <2> QED BY <1>2, <2>1, <2>2, <2>3, <2>4 DEF Linked
<1>4. Greets'
  <2>1. \A p \in Proc : pc[p] = "hello" =>
          /\ stream'[sock[p]][tgt[p]] = <<>> /\ accepted[sock[p]] \in {"no", "handshake"}
          /\ <<sock[p], p>> \in open
    <3>1. \A p \in Proc : pc[p] = "hello" => sock[p] \in Conn /\ tgt[p] \in Proc
      BY ConnTypes DEF Inv, TypeOK, Linked
    <3> QED BY <3>1 DEF Inv, Greets, Taken
  <2>2. \A x \in readers :
          /\ x[2] = conns[x[1]][2] => accepted[x[1]] \in {"attached", "late"}
          /\ ~Dials(x[2], x[1])'
    BY <1>1 DEF Inv, Greets, Dials
  <2> QED BY <1>1, <1>2, <2>1, <2>2 DEF Greets
<1> QED BY <1>3, <1>4

LEMMA WritesKept ==
    ASSUME Inv, UNCHANGED <<wrote, sends, tgt>>,
           \A p \in Proc : pc'[p] \in Sending => pc[p] \in Sending
    PROVE  Writes'
BY DEF Inv, Writes

LEMMA GetCachedInv ==
    ASSUME Inv, NEW p \in Proc, GetCached(p) PROVE Inv'
<1>1. /\ pc[p] = "cached" /\ tgt[p] \in Proc /\ tgt[p] # p
      /\ sock' = [sock EXCEPT ![p] = cache[p][tgt[p]]]
      /\ \/ cache[p][tgt[p]] # 0 /\ pc' = [pc EXCEPT ![p] = "write"]
         \/ pc' = [pc EXCEPT ![p] = "idle"]
  BY DEF GetCached, Goto, HasConnection, Inv, TypeOK, Linked, Sending
<1>2. TypeOK'
  <2>1. cache[p][tgt[p]] \in Conn \cup {0}
    BY <1>1 DEF Inv, TypeOK
  <2>2. sock' \in [Proc -> Conn \cup {0}]
    BY <1>1, <2>1 DEF Inv, TypeOK
  <2> QED BY <1>1, <2>2 DEF GetCached, Inv, TypeOK
<1>3. Counted'
  <2>1. Absent' \subseteq Absent
    BY <1>1 DEF Absent, Inv, TypeOK
  <2> QED BY <2>1, CountKept DEF GetCached
<1>4. Writes'
  <2>1. \A r \in Proc : pc'[r] \in Sending => pc[r] \in Sending
    BY <1>1 DEF Sending, Inv, TypeOK
  <2> QED BY <2>1, WritesKept DEF GetCached
<1>5. /\ pc'[p] = "write" => sock'[p] = cache[p][tgt[p]] /\ cache[p][tgt[p]] # 0
      /\ pc'[p] \in {"write", "idle"}
      /\ \A r \in Proc \ {p} : pc'[r] = pc[r] /\ sock'[r] = sock[r]
  BY <1>1 DEF Inv, TypeOK
<1>6. \A c, a, b : Between(c, a, b)' <=> Between(c, a, b)
  BY SameBetween DEF GetCached
<1>7. Linked'
  <2>1. pc'[p] = "write" => Between(sock'[p], p, tgt[p])
    BY <1>1, <1>5 DEF Inv, Linked
  <2>2. pc'[p] = "write" => Between(sock[p], p, tgt[p])'
    BY <2>1, <1>6 DEF GetCached, Between
  <2>3. pc'[p] \in Sending => tgt[p] # p
    BY <1>1
  <2>4. \A r \in Proc :
          /\ pc'[r] \in Sending => tgt'[r] # r
          /\ pc'[r] \in {"hello", "attach"} =>
               sock'[r] \in 1..Len(conns') /\ conns'[sock'[r]] = <<r, tgt'[r]>>
    BY <1>5, <2>3 DEF GetCached, Inv, Linked
  <2>5. \A r \in Proc : pc'[r] = "write" => Between(sock[r], r, tgt[r])'
    BY <1>5, <1>6, <2>2 DEF GetCached, Inv, Linked, Between
  <2>6. UNCHANGED <<conns, cache, readers, open, stream, accepted>>
    BY DEF GetCached
  <2>7. \A r, q \in Proc : cache'[r][q] # 0 => Between(cache[r][q], r, q)'
    BY <1>6, <2>6 DEF Inv, Linked, Between
  <2>8. \A c \in Conn : \A r \in Proc : \A i \in 1..Len(stream'[c][r]) :
            Between(c, r, stream[c][r][i].from)'
    BY <1>6, <2>6 DEF Inv, Linked, Between
  <2>9. /\ \A c \in 1..Len(conns') : conns'[c][1] # conns'[c][2]
        /\ \A x \in readers' \cup open' :
             x[1] \in 1..Len(conns') /\ x[2] \in {conns'[x[1]][1], conns'[x[1]][2]}
        /\ \A c \in Conn : c > Len(conns') => accepted'[c] = "no"
    BY <2>6 DEF Inv, Linked
  <2> QED BY <2>4, <2>5, <2>7, <2>8, <2>9 DEF Linked
<1>8. Greets'
  <2>1. \A r \in Proc : pc'[r] \in {"hello", "attach"} => r # p
    BY <1>5
  <2>2. \A r \in Proc : pc[r] = "hello" => <<sock[r], r>> \in open
    BY DEF Inv, Greets
  <2> QED BY <1>5, <2>1, <2>2, QuietGreets DEF GetCached
<1> QED BY <1>2, <1>3, <1>4, <1>7, <1>8 DEF Inv

LEMMA ConnectInv ==
    ASSUME Inv, NEW p \in Proc, Connect(p) PROVE Inv'
<1> DEFINE c == Len(conns) + 1
           t == tgt[p]
<1>1. CASE Listens(t) /\ conns' = Append(conns, <<p, t>>)
  <2>0. /\ pc[p] = "absent" /\ t \in Proc /\ t # p /\ <<p, t>> \in Proc \X Proc
        /\ open' = open \cup {<<c, p>>, <<c, t>>}
        /\ sock' = [sock EXCEPT ![p] = c]
        /\ pc' = [pc EXCEPT ![p] = "hello"]
        /\ UNCHANGED <<tgt, sends, torn, closing, wrote, cache, readers, box, accepted, stream>>
    BY <1>1 DEF Connect, Goto, Inv, TypeOK, Linked, Sending
  <2>1. /\ IsFiniteSet(Absent') /\ Absent' = Absent \ {p} /\ p \in Absent
        /\ Cardinality(Absent') = Cardinality(Absent) - 1
        /\ Cardinality(Absent) \in Nat /\ Cardinality(Absent') \in Nat
    <3>1. Absent' = Absent \ {p} /\ p \in Absent
      BY <2>0 DEF Absent, Inv, TypeOK
    <3> QED BY <3>1, FS_RemoveElement, FS_CardinalityType DEF Inv, Counted
  <2>2. /\ Len(conns) \in Nat /\ Len(conns') = c /\ conns' \in Seq(Proc \X Proc)
        /\ \A d \in 1..Len(conns) : conns'[d] = conns[d]
        /\ conns'[c] = <<p, t>>
    <3>1. conns \in Seq(Proc \X Proc) /\ conns' = Append(conns, <<p, t>>)
      BY <1>1 DEF Inv, TypeOK
    <3> QED BY <2>0, <3>1, LongerIs
  <2>3. sends \in Nat /\ sends <= MaxSends /\ MaxSends \in Nat
    BY SendTypes
  <2>4. Counted' /\ c <= sends /\ c \in Conn
    <3>1. Cardinality(Absent) + Len(conns) <= sends
      BY DEF Inv, Counted
    <3>2. Cardinality(Absent') + Len(conns') <= sends' /\ c <= sends
      BY <2>0, <2>1, <2>2, <2>3, <3>1
    <3>3. c \in Conn
      BY <2>2, <2>3, <3>2 DEF Conn
    <3> QED BY <2>1, <3>2, <3>3 DEF Counted
  <2>5. TypeOK'
    <3>1. <<c, p>> \in Conn \X Proc /\ <<c, t>> \in Conn \X Proc
      BY <2>0, <2>4
    <3>2. open' \subseteq Conn \X Proc /\ sock' \in [Proc -> Conn \cup {0}]
      BY <2>0, <2>4, <3>1 DEF Inv, TypeOK
    <3>3. Len(conns') <= MaxSends
      BY <2>2, <2>3, <2>4
    <3> QED BY <2>0, <2>2, <3>2, <3>3 DEF Inv, TypeOK
  <2>6. Writes'
    <3>1. \A r \in Proc : pc'[r] \in Sending => pc[r] \in Sending
      BY <2>0 DEF Sending, Inv, TypeOK
    <3> QED BY <2>0, <3>1, WritesKept
  <2>7. /\ \A d, a, b : Between(d, a, b) => Between(d, a, b)'
        /\ 1..Len(conns') = 1..Len(conns) \cup {c} /\ c \notin 1..Len(conns)
    BY <2>2 DEF Between
  <2>8. /\ pc'[p] = "hello" /\ sock'[p] = c
        /\ \A r \in Proc \ {p} : pc'[r] = pc[r] /\ sock'[r] = sock[r]
    BY <2>0, <2>4 DEF Inv, TypeOK
  <2>9. c \notin 1..Len(conns) /\ accepted[c] = "no" /\ c > Len(conns)
    BY <2>2, <2>4, <2>7 DEF Inv, Linked
  <2>10. \A r \in Proc : stream[c][r] = <<>>
    <3> SUFFICES ASSUME NEW r \in Proc, stream[c][r] # <<>> PROVE FALSE
      OBVIOUS
    <3>1. 1 \in 1..Len(stream[c][r])
      BY <2>4, Rest DEF Inv, TypeOK
    <3> QED BY <3>1, <2>4, <2>9 DEF Inv, Linked, Between
  <2>11. Linked'
    <3>1. \A d \in 1..Len(conns') : conns'[d][1] # conns'[d][2]
      BY <2>0, <2>2, <2>7 DEF Inv, Linked
    <3>2. \A r, q \in Proc : cache'[r][q] # 0 => Between(cache[r][q], r, q)'
      BY <2>0, <2>7 DEF Inv, Linked
    <3>3. \A x \in readers' \cup open' :
            x[1] \in 1..Len(conns') /\ x[2] \in {conns'[x[1]][1], conns'[x[1]][2]}
      <4>1. ASSUME NEW x \in readers \cup open
            PROVE  x[1] \in 1..Len(conns') /\ x[2] \in {conns'[x[1]][1], conns'[x[1]][2]}
        <5>1. x[1] \in 1..Len(conns) /\ x[2] \in {conns[x[1]][1], conns[x[1]][2]}
          BY DEF Inv, Linked
        <5> QED BY <5>1, <2>2, <2>7
      <4>2. ASSUME NEW x \in {<<c, p>>, <<c, t>>}
            PROVE  x[1] \in 1..Len(conns') /\ x[2] \in {conns'[x[1]][1], conns'[x[1]][2]}
        <5>1. x[1] = c /\ x[2] \in {p, t} /\ c \in 1..Len(conns')
          BY <2>7
        <5>2. conns'[c][1] = p /\ conns'[c][2] = t
          BY <2>2
        <5> QED BY <5>1, <5>2
      <4> QED BY <4>1, <4>2, <2>0
    <3>4. \A r \in Proc :
            /\ pc'[r] \in Sending => tgt'[r] # r
            /\ pc'[r] \in {"hello", "attach"} =>
                 sock'[r] \in 1..Len(conns') /\ conns'[sock'[r]] = <<r, tgt'[r]>>
      BY <2>0, <2>2, <2>7, <2>8 DEF Inv, Linked, Sending
    <3>5. \A r \in Proc : pc'[r] = "write" => Between(sock[r], r, tgt[r])'
      <4>1. \A r \in Proc : pc'[r] = "write" => r # p
        BY <2>8
      <4>2. \A r \in Proc : pc'[r] = "write" =>
              sock'[r] = sock[r] /\ tgt'[r] = tgt[r] /\ Between(sock[r], r, tgt[r])
        BY <2>0, <2>8, <4>1 DEF Inv, Linked
      <4> QED BY <4>2, <2>2 DEF Between
    <3>6. \A d \in Conn : \A r \in Proc : \A i \in 1..Len(stream'[d][r]) :
            Between(d, r, stream[d][r][i].from)'
      <4>1. \A d \in Conn : \A r \in Proc : \A i \in 1..Len(stream[d][r]) :
              Between(d, r, stream[d][r][i].from)
        BY DEF Inv, Linked
      <4> QED BY <4>1, <2>0, <2>2, <2>7 DEF Between
    <3>7. \A d \in Conn : d > Len(conns') => accepted'[d] = "no"
      <4>1. \A d \in Conn : d \in Int
        BY DEF Conn
      <4> QED BY <4>1, <2>0, <2>2 DEF Inv, Linked
    <3> QED BY <3>1, <3>2, <3>3, <3>4, <3>5, <3>6, <3>7 DEF Linked
  <2>12. Greets'
    <3>1. \A d \in Conn : \A r \in Proc : \A i \in 1..Len(stream'[d][r]) :
            stream'[d][r][i].type = "hello" =>
              i = 1 /\ r = conns'[d][2] /\ accepted'[d] \in {"no", "handshake"}
      <4>1. \A d \in Conn : \A r \in Proc : \A i \in 1..Len(stream[d][r]) : d \in 1..Len(conns)
        BY DEF Inv, Linked, Between
      <4> QED BY <4>1, <2>0, <2>2 DEF Inv, Greets
    <3>2. \A r \in Proc : pc'[r] = "hello" =>
            /\ stream'[sock'[r]][tgt'[r]] = <<>> /\ accepted'[sock'[r]] \in {"no", "handshake"}
            /\ <<sock'[r], r>> \in open'
      BY <2>0, <2>8, <2>9, <2>10 DEF Inv, Greets
    <3>3. \A x \in readers' :
            /\ x[2] = conns'[x[1]][2] => accepted'[x[1]] \in {"attached", "late"}
            /\ ~Dials(x[2], x[1])'
      <4> SUFFICES ASSUME NEW x \in readers
                   PROVE  /\ x[2] = conns'[x[1]][2] => accepted[x[1]] \in {"attached", "late"}
                          /\ ~Dials(x[2], x[1])'
        BY <2>0
      <4>1. x[1] \in 1..Len(conns) /\ x[1] # c /\ x[2] \in Proc
        BY <2>7 DEF Inv, Linked, TypeOK
      <4>2. conns'[x[1]] = conns[x[1]]
        BY <4>1, <2>2
      <4>3. ~Dials(x[2], x[1])'
        BY <4>1, <2>8 DEF Inv, Greets, Dials
      <4> QED BY <4>2, <4>3 DEF Inv, Greets
    <3> QED BY <3>1, <3>2, <3>3 DEF Greets
  <2> QED BY <2>4, <2>5, <2>6, <2>11, <2>12 DEF Inv
<1>2. CASE ~Listens(t) /\ Goto(p, "idle") /\ UNCHANGED <<conns, open, sock>>
  <2>1. TypeOK'
    BY <1>2 DEF Connect, Goto, Inv, TypeOK
  <2>2. /\ \A r \in Proc : pc'[r] \in {pc[r], "idle"}
        /\ UNCHANGED <<tgt, sends, torn, closing, wrote, cache, readers, box, accepted, stream>>
    BY <1>2 DEF Connect, Goto, Inv, TypeOK
  <2>3. Absent' \subseteq Absent /\ \A r \in Proc : pc'[r] \in Sending => pc[r] = pc'[r]
    BY <2>2 DEF Absent, Sending
  <2>4. Counted'
    BY <1>2, <2>2, <2>3, CountKept
  <2>5. Writes'
    BY <2>2, <2>3, WritesKept
  <2>6. Linked' /\ Greets'
    <3>1. \A r \in Proc : pc[r] = "hello" => <<sock[r], r>> \in open'
      BY <1>2 DEF Inv, Greets
    <3> QED BY <1>2, <2>2, <2>3, <3>1, QuietLinked DEF Sending
  <2> QED BY <2>1, <2>4, <2>5, <2>6 DEF Inv
<1> QED BY <1>1, <1>2 DEF Connect

\* What a write does to what the connections and the first messages are.
LEMMA SendKeeps ==
    ASSUME Inv, NEW p \in Proc, NEW v \in Value, v.from = p, NEW next \in {"attach", "idle"},
           SendValue(p, v, next), pc[p] \in {"hello", "write"},
           next = "attach" \/ v.type = "hello" => pc[p] = "hello",
           UNCHANGED <<sendVars, cache, readers, conns, accepted>>
    PROVE  /\ Linked' /\ Greets' /\ Counted'
           /\ stream' \in [Conn -> [Proc -> Seq(Value)]] /\ open' \subseteq open
           /\ \E at \in {next, "idle"} : pc' = [pc EXCEPT ![p] = at]
<1> DEFINE c == sock[p]
           t == tgt[p]
<1>0. /\ t \in Proc /\ t # p /\ UNCHANGED <<tgt, sock, sends>>
      /\ pc[p] = "hello" => conns[c] = <<p, t>>
  BY DEF sendVars, Inv, TypeOK, Linked, Sending
<1>1. Between(c, p, t)
  BY <1>0 DEF Inv, Linked, Between
<1>2. c \in Conn /\ c \in 1..Len(conns) /\ Between(c, t, p)
  BY <1>0, <1>1, PeerIs
<1>3. /\ stream' \in [Conn -> [Proc -> Seq(Value)]] /\ open' \subseteq open
      /\ \E at \in {next, "idle"} : pc' = [pc EXCEPT ![p] = at]
      /\ \A x \in open \ open' : x = <<c, p>>
      /\ UNCHANGED stream \/ stream' = [stream EXCEPT ![c][t] = Append(@, v)]
  <2>1. Delivered(p, v, next)
    BY <1>1, Sent
  <2> QED BY <2>1 DEF Delivered
<1>4. \A d \in Conn, r \in Proc :
        /\ <<d, r>> # <<c, t>> => stream'[d][r] = stream[d][r]
        /\ \A i \in 1..Len(stream'[d][r]) :
             \/ i \in 1..Len(stream[d][r]) /\ stream'[d][r][i] = stream[d][r][i]
             \/ d = c /\ r = t /\ stream'[d][r][i] = v /\ i = Len(stream[d][r]) + 1
  <2>1. CASE UNCHANGED stream
    BY <2>1
  <2>2. CASE stream' = [stream EXCEPT ![c][t] = Append(@, v)]
    BY <1>0, <1>2, <2>2, Appended
  <2> QED BY <1>3, <2>1, <2>2
<1>5. /\ pc'[p] \in {"attach", "idle"}
      /\ pc'[p] = "attach" => pc[p] = "hello"
      /\ \A r \in Proc \ {p} : pc'[r] = pc[r]
  BY <1>3 DEF Inv, TypeOK
<1>6. \A d, a, b : Between(d, a, b)' <=> Between(d, a, b)
  BY SameBetween
<1>7. Counted'
  <2>1. Absent' \subseteq Absent
    BY <1>5 DEF Absent
  <2> QED BY <2>1, <1>0, CountKept
<1>8. Linked'
  <2>1. /\ \A d \in 1..Len(conns') : conns'[d][1] # conns'[d][2]
        /\ \A d \in Conn : d > Len(conns') => accepted'[d] = "no"
        /\ \A x \in readers' \cup open' :
             x[1] \in 1..Len(conns') /\ x[2] \in {conns'[x[1]][1], conns'[x[1]][2]}
    BY <1>3 DEF Inv, Linked
  <2>2. \A r, q \in Proc : cache'[r][q] # 0 => Between(cache[r][q], r, q)'
    BY DEF Inv, Linked, Between
  <2>3. \A r \in Proc :
          /\ pc'[r] \in Sending => tgt'[r] # r
          /\ pc'[r] \in {"hello", "attach"} =>
               sock'[r] \in 1..Len(conns') /\ conns'[sock'[r]] = <<r, tgt'[r]>>
    <3>1. \A r \in Proc \ {p} :
            /\ pc[r] \in Sending => tgt[r] # r
            /\ pc[r] \in {"hello", "attach"} =>
                 sock[r] \in 1..Len(conns) /\ conns[sock[r]] = <<r, tgt[r]>>
      BY DEF Inv, Linked
    <3>2. /\ tgt[p] # p
          /\ pc'[p] \in {"hello", "attach"} =>
               sock[p] \in 1..Len(conns) /\ conns[sock[p]] = <<p, tgt[p]>>
      BY <1>0, <1>2, <1>5
    <3> QED BY <1>0, <1>5, <3>1, <3>2
  <2>4. \A r \in Proc : pc'[r] = "write" => Between(sock[r], r, tgt[r])'
    BY <1>0, <1>5 DEF Inv, Linked, Between
  <2>5. ASSUME NEW d \in Conn, NEW r \in Proc, NEW i \in 1..Len(stream'[d][r])
        PROVE  Between(d, r, stream[d][r][i].from)'
    <3>1. Between(d, r, stream'[d][r][i].from)
      <4>1. CASE i \in 1..Len(stream[d][r]) /\ stream'[d][r][i] = stream[d][r][i]
        <5>1. Between(d, r, stream[d][r][i].from)
          BY <4>1 DEF Inv, Linked
        <5> QED BY <4>1, <5>1
      <4>2. CASE d = c /\ r = t /\ stream'[d][r][i] = v
        BY <1>2, <4>2
      <4> QED BY <1>4, <4>1, <4>2
    <3> QED BY <3>1 DEF Between
  <2> QED BY <2>1, <2>2, <2>3, <2>4, <2>5 DEF Linked
<1>9. Greets'
  <2>1. ASSUME NEW d \in Conn, NEW r \in Proc, NEW i \in 1..Len(stream'[d][r]),
               stream'[d][r][i].type = "hello"
        PROVE  i = 1 /\ r = conns[d][2] /\ accepted[d] \in {"no", "handshake"}
    <3>1. CASE i \in 1..Len(stream[d][r]) /\ stream'[d][r][i] = stream[d][r][i]
      BY <2>1, <3>1 DEF Inv, Greets
    <3>2. CASE d = c /\ r = t /\ stream'[d][r][i] = v /\ i = Len(stream[d][r]) + 1
      <4>1. /\ pc[p] = "hello" /\ conns[d] = <<p, r>> /\ stream[d][r] = <<>>
            /\ accepted[d] \in {"no", "handshake"}
        BY <1>0, <2>1, <3>2 DEF Inv, Greets
      <4> QED BY <3>2, <4>1
    <3> QED BY <3>1, <3>2, <1>4
  <2>2. ASSUME NEW r \in Proc, pc'[r] = "hello"
        PROVE  /\ stream'[sock[r]][tgt[r]] = <<>> /\ accepted[sock[r]] \in {"no", "handshake"}
               /\ <<sock[r], r>> \in open'
    <3>1. r # p /\ pc[r] = "hello" /\ tgt[r] \in Proc /\ tgt[r] # r
      BY <1>5, <2>2 DEF Inv, TypeOK, Linked, Sending
    <3>2. /\ conns[sock[r]] = <<r, tgt[r]>> /\ sock[r] \in 1..Len(conns) /\ sock[r] \in Conn
          /\ stream[sock[r]][tgt[r]] = <<>> /\ accepted[sock[r]] \in {"no", "handshake"}
          /\ <<sock[r], r>> \in open
      BY <3>1, ConnTypes DEF Inv, Linked, Greets
    <3>3. <<sock[r], tgt[r]>> # <<c, t>>
      <4> SUFFICES ASSUME sock[r] = c, tgt[r] = t PROVE FALSE
        OBVIOUS
      <4>1. conns[c] = <<r, t>> /\ (conns[c] = <<p, t>> \/ conns[c] = <<t, p>>)
        BY <3>2, <1>1 DEF Between
      <4> QED BY <4>1, <3>1, <1>0
    <3> QED BY <1>3, <1>4, <3>1, <3>2, <3>3
  <2>3. ASSUME NEW x \in readers
        PROVE  /\ x[2] = conns[x[1]][2] => accepted[x[1]] \in {"attached", "late"}
               /\ ~Dials(x[2], x[1])'
    <3>1. x[2] \in Proc /\ ~Dials(x[2], x[1])
      BY DEF Inv, TypeOK, Greets
    <3>2. ~Dials(x[2], x[1])'
      BY <1>0, <1>5, <3>1 DEF Dials
    <3> QED BY <3>2 DEF Inv, Greets
  <2> QED BY <1>0, <2>1, <2>2, <2>3 DEF Greets
<1> QED BY <1>3, <1>7, <1>8, <1>9

LEMMA SayHelloInv ==
    ASSUME Inv, NEW p \in Proc, SayHello(p) PROVE Inv'
<1>1. /\ Hello(p) \in Value /\ Hello(p).from = p /\ Hello(p).type = "hello" /\ pc[p] = "hello"
      /\ SendValue(p, Hello(p), "attach")
      /\ UNCHANGED <<sendVars, closing, wrote, cache, readers, box, conns, accepted>>
  BY SendTypes DEF SayHello, Hello, Value
<1>2. /\ Linked' /\ Greets' /\ Counted'
      /\ stream' \in [Conn -> [Proc -> Seq(Value)]] /\ open' \subseteq open
      /\ \E at \in {"attach", "idle"} : pc' = [pc EXCEPT ![p] = at]
  BY <1>1, SendKeeps
<1>3. TypeOK'
  BY <1>1, <1>2 DEF sendVars, Inv, TypeOK
<1>4. Writes'
  <2>1. \A r \in Proc : pc'[r] \in Sending => pc[r] \in Sending
    BY <1>1, <1>2 DEF Sending, Inv, TypeOK
  <2> QED BY <1>1, <2>1, WritesKept DEF sendVars
<1> QED BY <1>2, <1>3, <1>4 DEF Inv

LEMMA WriteInv ==
    ASSUME Inv, NEW p \in Proc, Write(p) PROVE Inv'
<1> DEFINE t == tgt[p]
           n == wrote[p][t] + 1
<1>1. t \in Proc /\ wrote[p][t] \in Nat /\ n \in 1..sends /\ n \in 0..MaxSends
  <2>1. t \in Proc /\ wrote[p][t] \in 0..MaxSends
    BY DEF Inv, TypeOK
  <2>2. wrote[p][t] < sends
    BY <2>1 DEF Write, Inv, Writes, Sending
  <2> QED BY <2>1, <2>2, SendTypes
<1>2. /\ Message(p, n) \in Value /\ Message(p, n).from = p /\ Message(p, n).type = "message"
      /\ pc[p] = "write" /\ SendValue(p, Message(p, n), "idle")
      /\ wrote' = [wrote EXCEPT ![p][t] = n]
      /\ UNCHANGED <<sendVars, closing, cache, readers, box, conns, accepted>>
  BY <1>1 DEF Write, Message, Value
<1>3. /\ Linked' /\ Greets' /\ Counted'
      /\ stream' \in [Conn -> [Proc -> Seq(Value)]] /\ open' \subseteq open
      /\ \E at \in {"idle", "idle"} : pc' = [pc EXCEPT ![p] = at]
  <2>1. ~("idle" = "attach" \/ Message(p, n).type = "hello")
    BY <1>2
  <2> QED BY <1>2, <2>1, SendKeeps
<1>4. TypeOK'
  <2>1. wrote' \in [Proc -> [Proc -> 0..MaxSends]]
    BY <1>1, <1>2 DEF Inv, TypeOK
  <2> QED BY <1>2, <1>3, <2>1 DEF sendVars, Inv, TypeOK
<1>5. Writes'
  <2> SUFFICES ASSUME NEW r \in Proc, NEW k \in Proc
               PROVE  /\ wrote'[r][k] <= sends'
                      /\ pc'[r] \in Sending /\ tgt'[r] = k => wrote'[r][k] < sends'
    BY DEF Writes
  <2>1. wrote'[r][k] = IF r = p /\ k = t THEN n ELSE wrote[r][k]
    BY <1>1, <1>2 DEF Inv, TypeOK
  <2>2. /\ wrote[r][k] <= sends /\ wrote[r][k] \in 0..MaxSends
        /\ pc[r] \in Sending /\ tgt[r] = k => wrote[r][k] < sends
    BY DEF Inv, Writes, TypeOK
  <2>3. pc'[p] \notin Sending /\ \A q \in Proc \ {p} : pc'[q] = pc[q]
    BY <1>3 DEF Inv, TypeOK, Sending
  <2> QED BY <1>1, <1>2, <2>1, <2>2, <2>3 DEF sendVars
<1> QED BY <1>3, <1>4, <1>5 DEF Inv

\* Steps of a user that change nothing a send or a reader depends on.
LEMMA QuietInv ==
    ASSUME Inv, TypeOK', UNCHANGED <<tgt, sock, sends, wrote, cache, conns, accepted, stream>>,
           open' \subseteq open, readers' \subseteq readers,
           \A p \in Proc : pc'[p] \in Sending => pc'[p] = pc[p],
           \A p \in Proc : pc[p] = "hello" /\ pc'[p] = "hello" => <<sock[p], p>> \in open'
    PROVE  Inv'
<1>1. UNCHANGED <<tgt, sock, sends>>
  OBVIOUS
<1>2. Counted'
  <2>1. Absent' \subseteq Absent
    BY DEF Absent, Sending
  <2> QED BY <1>1, <2>1, CountKept
<1>3. Writes'
  BY <1>1, WritesKept
<1>4. Linked' /\ Greets'
  <2>2. \A p \in Proc :
          /\ pc'[p] \in Sending => pc[p] \in Sending /\ tgt'[p] = tgt[p]
          /\ pc'[p] \in {"hello", "attach"} => pc'[p] = pc[p] /\ sock'[p] = sock[p]
          /\ pc'[p] = "write" => pc[p] = "write" /\ sock'[p] = sock[p]
    BY <1>1 DEF Sending
  <2> QED BY <2>2, QuietLinked
<1> QED BY <1>2, <1>3, <1>4 DEF Inv

LEMMA StartCloseInv ==
    ASSUME Inv, NEW p \in Proc, StartClose(p) PROVE Inv'
<1>1. /\ open' \subseteq open
      /\ \A x \in open \ open' : accepted[x[1]] = "no" /\ x[2] = conns[x[1]][2]
      /\ pc' = [pc EXCEPT ![p] = "closing"]
      /\ UNCHANGED <<sendVars, closing, wrote, cache, readers, box, conns, accepted, stream>>
  BY DEF StartClose, Goto
<1>2. TypeOK'
  BY <1>1 DEF sendVars, Inv, TypeOK
<1>3. \A r \in Proc : pc'[r] \in Sending => pc'[r] = pc[r]
  BY <1>1 DEF Sending, Inv, TypeOK
<1>4. ASSUME NEW r \in Proc, pc[r] = "hello", pc'[r] = "hello"
      PROVE  <<sock[r], r>> \in open'
  <2>1. <<sock[r], r>> \in open /\ conns[sock[r]] = <<r, tgt[r]>> /\ tgt[r] # r
    BY <1>4 DEF Inv, Greets, Linked, Sending
  <2>2. <<sock[r], r>>[1] = sock[r] /\ <<sock[r], r>>[2] = r /\ conns[sock[r]][2] # r
    BY <2>1
  <2> QED BY <1>1, <2>1, <2>2
<1> QED BY <1>1, <1>2, <1>3, <1>4, QuietInv DEF sendVars

LEMMA ListConnectionsInv ==
    ASSUME Inv, NEW p \in Proc, ListConnections(p) PROVE Inv'
<1>1. /\ closing' = [closing EXCEPT ![p] = Listed(p)]
      /\ pc' = [pc EXCEPT ![p] = "closes"]
      /\ UNCHANGED <<sendVars, wrote, cache, readers, box, conns, accepted, open, stream>>
  BY DEF ListConnections, Goto
<1>2. Listed(p) \subseteq Conn
  BY DEF Listed, Inv, TypeOK
<1>3. TypeOK'
  BY <1>1, <1>2 DEF sendVars, Inv, TypeOK
<1>4. \A r \in Proc : pc'[r] \in Sending => pc'[r] = pc[r]
  BY <1>1 DEF Sending, Inv, TypeOK
<1>5. \A r \in Proc : pc[r] = "hello" => <<sock[r], r>> \in open'
  BY <1>1 DEF Inv, Greets
<1> QED BY <1>1, <1>3, <1>4, <1>5, QuietInv DEF sendVars

LEMMA CloseConnectionInv ==
    ASSUME Inv, NEW p \in Proc, CloseConnection(p) PROVE Inv'
<1>1. /\ pc[p] = "closes" /\ open' \subseteq open /\ \A x \in open \ open' : x[2] = p
      /\ pc' \in {pc, [pc EXCEPT ![p] = "closed"]}
      /\ closing' \in [Proc -> SUBSET Conn]
      /\ UNCHANGED <<sendVars, wrote, cache, readers, box, conns, accepted, stream>>
  <2>1. CASE \E c \in closing[p] :
               /\ open' = open \ {<<c, p>>} /\ closing' = [closing EXCEPT ![p] = @ \ {c}]
               /\ UNCHANGED pc
    BY <2>1 DEF CloseConnection, Inv, TypeOK
  <2>2. CASE Goto(p, "closed") /\ UNCHANGED <<closing, open>>
    BY <2>2 DEF CloseConnection, Goto, Inv, TypeOK
  <2> QED BY <2>1, <2>2 DEF CloseConnection
<1>2. TypeOK'
  BY <1>1 DEF sendVars, Inv, TypeOK
<1>3. pc'[p] # "hello" /\ \A r \in Proc : pc'[r] \in Sending => pc'[r] = pc[r]
  BY <1>1 DEF Sending, Inv, TypeOK
<1>4. ASSUME NEW r \in Proc, pc[r] = "hello", pc'[r] = "hello"
      PROVE  <<sock[r], r>> \in open'
  <2>1. r # p /\ <<sock[r], r>> \in open
    BY <1>3, <1>4 DEF Inv, Greets
  <2> QED BY <1>1, <2>1
<1>5. /\ open' \subseteq open /\ readers' \subseteq readers
      /\ UNCHANGED <<sendVars, wrote, cache, conns, accepted, stream>>
  BY <1>1
<1> QED BY <1>2, <1>3, <1>4, <1>5, QuietInv DEF sendVars

LEMMA DieInv ==
    ASSUME Inv, NEW p \in Proc, Die(p) PROVE Inv'
<1>1. /\ open' \subseteq open /\ readers' \subseteq readers
      /\ \A x \in open \ open' : x[2] = p
      /\ pc' = [pc EXCEPT ![p] = "dead"]
      /\ UNCHANGED <<tgt, sock, sends, closing, wrote, cache, box, conns, accepted, stream>>
  BY DEF Die, Goto
<1>2. TypeOK'
  <2>1. <<sock[p], tgt[p]>> \in Conn \X Proc \/ ~WholeSocket(p)
    BY DEF WholeSocket, Inv, TypeOK
  <2>2. torn' \subseteq Conn \X Proc
    BY <2>1 DEF Die, Torn, Inv, TypeOK
  <2> QED BY <1>1, <2>2 DEF Inv, TypeOK
<1>3. pc'[p] # "hello" /\ \A r \in Proc : pc'[r] \in Sending => pc'[r] = pc[r]
  BY <1>1 DEF Sending, Inv, TypeOK
<1>4. ASSUME NEW r \in Proc, pc[r] = "hello", pc'[r] = "hello"
      PROVE  <<sock[r], r>> \in open'
  <2>1. r # p /\ <<sock[r], r>> \in open
    BY <1>3, <1>4 DEF Inv, Greets
  <2> QED BY <1>1, <2>1
<1>5. /\ open' \subseteq open /\ readers' \subseteq readers
      /\ UNCHANGED <<tgt, sock, sends, wrote, cache, conns, accepted, stream>>
  BY <1>1
<1> QED BY <1>2, <1>3, <1>4, <1>5, QuietInv DEF sendVars

LEMMA AttachConnectedInv ==
    ASSUME Inv, NEW p \in Proc, AttachConnected(p) PROVE Inv'
<1> DEFINE c == sock[p]
           t == tgt[p]
<1>1. /\ pc[p] = "attach" /\ t \in Proc /\ t # p /\ c \in 1..Len(conns) /\ c \in Conn
      /\ conns[c] = <<p, t>> /\ conns[c][1] = p /\ conns[c][2] = t
      /\ cache' = [cache EXCEPT ![p][t] = c] /\ readers' = readers \cup {<<c, p>>}
      /\ pc' = [pc EXCEPT ![p] = "write"]
      /\ UNCHANGED <<tgt, sock, sends, torn, closing, wrote, box, conns, accepted, open, stream>>
  <2>1. t \in Proc /\ pc[p] = "attach"
    BY DEF AttachConnected, Inv, TypeOK
  <2>2. t # p /\ c \in 1..Len(conns) /\ conns[c] = <<p, t>>
    BY <2>1 DEF Inv, Linked, Sending
  <2>3. c \in Conn
    BY <2>2, ConnTypes
  <2> QED BY <2>1, <2>2, <2>3 DEF AttachConnected, Attach, Goto, sendVars
<1>2. TypeOK'
  <2>1. cache' \in [Proc -> [Proc -> Conn \cup {0}]]
    <3>1. cache \in [Proc -> [Proc -> Conn \cup {0}]]
      BY DEF Inv, TypeOK
    <3>2. c \in Conn \cup {0} /\ p \in Proc /\ t \in Proc
      BY <1>1
    <3>3. [cache[p] EXCEPT ![t] = c] \in [Proc -> Conn \cup {0}]
      BY <3>1, <3>2
    <3>4. cache' = [cache EXCEPT ![p] = [cache[p] EXCEPT ![t] = c]]
      BY <1>1
    <3> HIDE DEF c, t
    <3> QED BY <3>1, <3>3, <3>4
  <2>2. readers' \subseteq Conn \X Proc
    <3>1. readers \subseteq Conn \X Proc
      BY DEF Inv, TypeOK
    <3>2. <<c, p>> \in Conn \X Proc
      BY <1>1
    <3> HIDE DEF c
    <3> QED BY <1>1, <3>1, <3>2
  <2> QED BY <1>1, <2>1, <2>2 DEF Inv, TypeOK
<1>3. pc'[p] = "write" /\ \A r \in Proc \ {p} : pc'[r] = pc[r]
  BY <1>1 DEF Inv, TypeOK
<1>4. Counted' /\ Writes'
  <2>1. Absent' \subseteq Absent
    BY <1>3 DEF Absent
  <2>2. \A r \in Proc : pc'[r] \in Sending => pc[r] \in Sending
    BY <1>1, <1>3 DEF Sending
  <2> QED BY <1>1, <2>1, <2>2, CountKept, WritesKept
<1>5. Linked'
  <2>1. /\ \A d \in 1..Len(conns') : conns'[d][1] # conns'[d][2]
        /\ \A d \in Conn : d > Len(conns') => accepted'[d] = "no"
        /\ \A x \in readers' \cup open' :
             x[1] \in 1..Len(conns') /\ x[2] \in {conns'[x[1]][1], conns'[x[1]][2]}
    BY <1>1 DEF Inv, Linked
  <2>2. ASSUME NEW r \in Proc, NEW q \in Proc, cache'[r][q] # 0
        PROVE  Between(cache[r][q], r, q)'
    <3>1. cache'[r][q] = IF r = p /\ q = t THEN c ELSE cache[r][q]
      BY <1>1 DEF Inv, TypeOK
    <3>2. Between(cache'[r][q], r, q)
      <4>1. CASE r = p /\ q = t
        BY <1>1, <3>1, <4>1 DEF Between
      <4>2. CASE ~(r = p /\ q = t)
        BY <2>2, <3>1, <4>2 DEF Inv, Linked
      <4> QED BY <4>1, <4>2
    <3> QED BY <1>1, <3>2 DEF Between
  <2>3. \A r \in Proc :
          /\ pc'[r] \in Sending => tgt'[r] # r
          /\ pc'[r] \in {"hello", "attach"} =>
               sock'[r] \in 1..Len(conns') /\ conns'[sock'[r]] = <<r, tgt'[r]>>
    BY <1>1, <1>3 DEF Inv, Linked
  <2>4. \A r \in Proc : pc'[r] = "write" => Between(sock[r], r, tgt[r])'
    BY <1>1, <1>3 DEF Inv, Linked, Between
  <2>5. \A d \in Conn : \A r \in Proc : \A i \in 1..Len(stream'[d][r]) :
            Between(d, r, stream[d][r][i].from)'
    BY <1>1 DEF Inv, Linked, Between
  <2> QED BY <2>1, <2>2, <2>3, <2>4, <2>5 DEF Linked
<1>6. Greets'
  <2>1. \A d \in Conn : \A r \in Proc : \A i \in 1..Len(stream'[d][r]) :
          stream'[d][r][i].type = "hello" =>
            i = 1 /\ r = conns'[d][2] /\ accepted'[d] \in {"no", "handshake"}
    BY <1>1 DEF Inv, Greets
  <2>2. \A r \in Proc : pc'[r] = "hello" =>
          /\ stream'[sock'[r]][tgt'[r]] = <<>> /\ accepted'[sock'[r]] \in {"no", "handshake"}
          /\ <<sock'[r], r>> \in open'
    BY <1>1, <1>3 DEF Inv, Greets
  <2>3. ASSUME NEW x \in readers'
        PROVE  /\ x[2] = conns[x[1]][2] => accepted[x[1]] \in {"attached", "late"}
               /\ ~Dials(x[2], x[1])'
    <3>1. CASE x \in readers
      <4>1. x[2] \in Proc /\ ~Dials(x[2], x[1])
        BY <3>1 DEF Inv, TypeOK, Greets
      <4>2. ~Dials(x[2], x[1])'
        BY <1>1, <1>3, <4>1 DEF Dials
      <4> QED BY <3>1, <4>2 DEF Inv, Greets
    <3>2. CASE x = <<c, p>>
      BY <1>1, <1>3, <3>2 DEF Dials
    <3> QED BY <1>1, <3>1, <3>2
  <2> QED BY <1>1, <2>1, <2>2, <2>3 DEF Greets
<1> QED BY <1>2, <1>4, <1>5, <1>6 DEF Inv

LEMMA AcceptInv ==
    ASSUME Inv, NEW p \in Proc, Accept(p) PROVE Inv'
<1>1. PICK c \in DOMAIN conns : accepted[c] = "no" /\ accepted' = [accepted EXCEPT ![c] = "handshake"]
  BY DEF Accept
<1>2. UNCHANGED <<pc, sendVars, closing, wrote, cache, readers, box, conns, open, stream>>
  BY DEF Accept
<1>3. /\ UNCHANGED <<tgt, sock, sends>> /\ c \in Conn /\ c \in 1..Len(conns) /\ Len(conns) \in Nat
      /\ accepted'[c] = "handshake" /\ \A d \in Conn \ {c} : accepted'[d] = accepted[d]
  BY <1>1, <1>2, ConnTypes DEF sendVars, Inv, TypeOK
<1>4. TypeOK'
  BY <1>1, <1>2, <1>3 DEF sendVars, Inv, TypeOK
<1>5. Counted' /\ Writes'
  <2>1. Absent' \subseteq Absent
    BY <1>2 DEF Absent
  <2> QED BY <1>2, <1>3, <2>1, CountKept, WritesKept
<1>6. Linked'
  <2>1. ASSUME NEW d \in Conn, d > Len(conns) PROVE accepted'[d] = "no"
    <3>1. d # c
      BY <1>3, <2>1
    <3> QED BY <1>3, <2>1, <3>1 DEF Inv, Linked
  <2>2. \A r, q \in Proc : cache'[r][q] # 0 => Between(cache[r][q], r, q)'
    BY <1>2 DEF Inv, Linked, Between
  <2>3. \A r \in Proc : pc'[r] = "write" => Between(sock[r], r, tgt[r])'
    BY <1>2, <1>3 DEF Inv, Linked, Between
  <2>4. \A d \in Conn : \A r \in Proc : \A i \in 1..Len(stream'[d][r]) :
            Between(d, r, stream[d][r][i].from)'
    BY <1>2 DEF Inv, Linked, Between
  <2>5. \A r \in Proc :
          /\ pc'[r] \in Sending => tgt'[r] # r
          /\ pc'[r] \in {"hello", "attach"} =>
               sock'[r] \in 1..Len(conns') /\ conns'[sock'[r]] = <<r, tgt'[r]>>
    BY <1>2, <1>3 DEF Inv, Linked
  <2>6. /\ \A d \in 1..Len(conns') : conns'[d][1] # conns'[d][2]
        /\ \A x \in readers' \cup open' :
             x[1] \in 1..Len(conns') /\ x[2] \in {conns'[x[1]][1], conns'[x[1]][2]}
    BY <1>2 DEF Inv, Linked
  <2> QED BY <1>2, <2>1, <2>2, <2>3, <2>4, <2>5, <2>6 DEF Linked
<1>7. Greets'
  <2>1. \A d \in Conn : \A r \in Proc : \A i \in 1..Len(stream'[d][r]) :
          stream'[d][r][i].type = "hello" =>
            i = 1 /\ r = conns'[d][2] /\ accepted'[d] \in {"no", "handshake"}
    BY <1>2, <1>3 DEF Inv, Greets
  <2>2. ASSUME NEW r \in Proc, pc'[r] = "hello"
        PROVE  /\ stream'[sock'[r]][tgt'[r]] = <<>> /\ accepted'[sock'[r]] \in {"no", "handshake"}
               /\ <<sock'[r], r>> \in open'
    <3>1. sock[r] \in Conn
      BY <1>2, <2>2, ConnTypes DEF Inv, Linked
    <3> QED BY <1>2, <1>3, <2>2, <3>1 DEF Inv, Greets
  <2>3. ASSUME NEW x \in readers
        PROVE  /\ x[2] = conns[x[1]][2] => accepted'[x[1]] \in {"attached", "late"}
               /\ ~Dials(x[2], x[1])'
    <3>1. /\ x[1] \in Conn /\ ~Dials(x[2], x[1])
          /\ x[2] = conns[x[1]][2] => accepted[x[1]] \in {"attached", "late"}
      BY DEF Inv, TypeOK, Greets
    <3>2. ~Dials(x[2], x[1])'
      BY <1>2, <1>3, <3>1 DEF Dials
    <3>3. x[2] = conns[x[1]][2] => x[1] # c
      BY <1>1, <3>1
    <3> QED BY <1>3, <3>1, <3>2, <3>3
  <2> QED BY <1>2, <2>1, <2>2, <2>3 DEF Greets
<1> QED BY <1>4, <1>5, <1>6, <1>7 DEF Inv

LEMMA ReadMessageTypes ==
    ASSUME Inv, NEW p \in Proc, NEW c \in 1..Len(conns), ReadMessage(c, p)
    PROVE  /\ c \in Conn /\ stream[c][p] # <<>> /\ <<c, p>> \in readers
           /\ stream' = [stream EXCEPT ![c][p] = Tail(@)]
           /\ Head(stream[c][p]) \in Letter /\ Head(stream[c][p]) = stream[c][p][1]
           /\ Head(stream[c][p]).type = "message" /\ Between(c, p, Head(stream[c][p]).from)
           /\ 1 \in 1..Len(stream[c][p])
<1>1. /\ c \in Conn /\ stream[c][p] # <<>> /\ <<c, p>> \in readers
      /\ stream' = [stream EXCEPT ![c][p] = Tail(@)]
  BY ConnTypes DEF ReadMessage
<1>2. /\ Head(stream[c][p]) \in Value /\ Head(stream[c][p]) = stream[c][p][1]
      /\ 1 \in 1..Len(stream[c][p])
  BY <1>1, Consumed
<1>3. Between(c, p, Head(stream[c][p]).from)
  BY <1>1, <1>2 DEF Inv, Linked
<1>4. Head(stream[c][p]).type # "hello"
  <2> SUFFICES ASSUME Head(stream[c][p]).type = "hello" PROVE FALSE
    OBVIOUS
  <2>1. p = conns[c][2] /\ accepted[c] \in {"no", "handshake"}
    BY <1>1, <1>2 DEF Inv, Greets
  <2>2. <<c, p>>[1] = c /\ <<c, p>>[2] = p
    OBVIOUS
  <2>3. accepted[c] \in {"attached", "late"}
    BY <1>1, <2>1, <2>2 DEF Inv, Greets
  <2> QED BY <2>1, <2>3
<1> QED BY <1>1, <1>2, <1>3, <1>4 DEF Value, Letter

LEMMA ReadMessageInv ==
    ASSUME Inv, NEW p \in Proc, NEW c \in 1..Len(conns), ReadMessage(c, p) PROVE Inv'
<1> DEFINE m == Head(stream[c][p])
<1>1. /\ c \in Conn /\ stream[c][p] # <<>>
      /\ stream' = [stream EXCEPT ![c][p] = Tail(@)] /\ m \in Letter
  BY ReadMessageTypes
<1>2. UNCHANGED <<pc, sendVars, closing, wrote, cache, readers, conns, accepted, open>>
  BY DEF ReadMessage
<1>3. /\ stream' \in [Conn -> [Proc -> Seq(Value)]]
      /\ Taken(c, p)
  BY <1>1, Consumed
<1>4. TypeOK'
  <2>1. box' \in [Proc -> Seq(Letter)]
    <3>1. box' = [box EXCEPT ![p] = Append(@, m)] /\ box \in [Proc -> Seq(Letter)]
      BY DEF ReadMessage, Inv, TypeOK
    <3>2. Append(box[p], m) \in Seq(Letter)
      BY <1>1, <3>1
    <3> QED BY <3>1, <3>2
  <2> QED BY <1>2, <1>3, <2>1 DEF sendVars, Inv, TypeOK
<1>5. Counted' /\ Writes'
  <2>1. Absent' \subseteq Absent /\ UNCHANGED <<tgt, sends>>
    BY <1>2 DEF Absent, sendVars
  <2> QED BY <1>2, <2>1, CountKept, WritesKept
<1>6. Linked' /\ Greets'
  BY <1>2, <1>3, ShrunkKeeps DEF sendVars
<1> QED BY <1>4, <1>5, <1>6 DEF Inv

LEMMA ReadEndInv ==
    ASSUME Inv, NEW p \in Proc, NEW c \in 1..Len(conns), ReadEnd(c, p) PROVE Inv'
<1> DEFINE q == Peer(c, p)
<1>1. /\ UNCHANGED <<pc, sendVars, closing, wrote, conns, accepted, stream>>
      /\ open' = open \ {<<c, p>>} /\ readers' = readers \ {<<c, p>>} /\ <<c, p>> \in readers
      /\ \/ cache' = [cache EXCEPT ![p][q] = 0] /\ box' = [box EXCEPT ![p] = Append(@, Gone(q))]
         \/ UNCHANGED <<cache, box>>
  BY DEF ReadEnd, Notice
<1>2. UNCHANGED <<tgt, sock, sends>> /\ q \in Proc
  <2>1. p \in {conns[c][1], conns[c][2]}
    <3>1. <<c, p>>[1] = c /\ <<c, p>>[2] = p
      OBVIOUS
    <3> QED BY <1>1, <3>1 DEF Inv, Linked
  <2> QED BY <1>1, <2>1, EndsAre DEF sendVars
<1>3. TypeOK'
  <2>1. Gone(q) \in Letter
    BY <1>2, SendTypes DEF Gone, Letter
  <2> HIDE DEF q
  <2>2. Append(box[p], Gone(q)) \in Seq(Letter)
    BY <2>1 DEF Inv, TypeOK
  <2>3. box' \in [Proc -> Seq(Letter)]
    BY <1>1, <2>2 DEF Inv, TypeOK
  <2>4. cache' \in [Proc -> [Proc -> Conn \cup {0}]]
    <3>1. cache \in [Proc -> [Proc -> Conn \cup {0}]]
      BY DEF Inv, TypeOK
    <3> QED BY <1>1, <1>2, <3>1
  <2> QED BY <1>1, <1>2, <2>3, <2>4 DEF sendVars, Inv, TypeOK
<1>4. Counted' /\ Writes'
  <2>1. Absent' \subseteq Absent
    BY <1>1 DEF Absent
  <2> QED BY <1>1, <1>2, <2>1, CountKept, WritesKept
<1>5. Linked' /\ Greets'
  <2>1. \A r, k \in Proc : cache'[r][k] \in {cache[r][k], 0}
    <3> HIDE DEF q
    <3>1. cache \in [Proc -> [Proc -> Conn \cup {0}]]
      BY DEF Inv, TypeOK
    <3>2. CASE cache' = [cache EXCEPT ![p][q] = 0]
      BY <1>2, <3>1, <3>2
    <3> QED BY <1>1, <3>2
  <2>2. ASSUME NEW r \in Proc, pc[r] = "hello" PROVE <<sock[r], r>> \in open'
    <3>1. <<sock[r], r>> \in open /\ Dials(r, sock[r])
      BY <2>2 DEF Inv, Greets, Dials
    <3>2. <<c, p>>[1] = c /\ <<c, p>>[2] = p
      OBVIOUS
    <3>3. ~Dials(p, c)
      BY <1>1, <3>2 DEF Inv, Greets
    <3> QED BY <1>1, <3>1, <3>3
  <2> QED BY <1>1, <1>2, <2>1, <2>2, QuietLinked
<1> QED BY <1>3, <1>4, <1>5 DEF Inv

LEMMA ReadClosedInv ==
    ASSUME Inv, NEW p \in Proc, NEW c \in 1..Len(conns), ReadTorn(c, p) \/ ReadClosed(c, p)
    PROVE  Inv'
<1>1. /\ UNCHANGED <<pc, sendVars, closing, wrote, cache, box, conns, accepted, stream>>
      /\ readers' \subseteq readers /\ open' \in {open, open \ {<<c, p>>}} /\ <<c, p>> \in readers
  BY DEF ReadTorn, ReadClosed
<1>2. TypeOK'
  BY <1>1 DEF sendVars, Inv, TypeOK
<1>3. \A r \in Proc : pc[r] = "hello" => <<sock[r], r>> \in open'
  <2> SUFFICES ASSUME NEW r \in Proc, pc[r] = "hello" PROVE <<sock[r], r>> \in open'
    OBVIOUS
  <2>1. <<sock[r], r>> \in open /\ Dials(r, sock[r])
    BY DEF Inv, Greets, Dials
  <2>2. <<c, p>>[1] = c /\ <<c, p>>[2] = p
    OBVIOUS
  <2>3. ~Dials(p, c)
    BY <1>1, <2>2 DEF Inv, Greets
  <2> QED BY <1>1, <2>1, <2>3
<1> QED BY <1>1, <1>2, <1>3, QuietInv DEF sendVars

LEMMA ReadHelloInv ==
    ASSUME Inv, NEW p \in Proc, NEW c \in 1..Len(conns), ReadHello(c, p) PROVE Inv'
<1> DEFINE q == Head(stream[c][p]).from
<1>1. /\ UNCHANGED <<pc, sendVars, closing, wrote, box, conns>>
      /\ conns[c][2] = p /\ accepted[c] = "handshake"
      /\ \E at \in {"late", "attached"} : accepted' = [accepted EXCEPT ![c] = at]
      /\ c \in Conn /\ Between(c, p, conns[c][1]) /\ conns[c][1] # p /\ conns[c][1] \in Proc
      /\ UNCHANGED <<tgt, sock, sends>> /\ Len(conns) \in Nat
  BY ConnTypes DEF ReadHello, Between, sendVars
<1>2. /\ accepted'[c] \in {"late", "attached"} /\ \A d \in Conn \ {c} : accepted'[d] = accepted[d]
      /\ accepted' \in [Conn -> {"no", "handshake", "attached", "late"}]
  BY <1>1 DEF Inv, TypeOK
<1>3. Counted' /\ Writes'
  <2>1. Absent' \subseteq Absent
    BY <1>1 DEF Absent
  <2> QED BY <1>1, <2>1, CountKept, WritesKept
<1>4. \A r \in Proc : pc[r] = "hello" =>
        /\ sock[r] \in Conn /\ tgt[r] \in Proc /\ conns[sock[r]] = <<r, tgt[r]>>
        /\ stream[sock[r]][tgt[r]] = <<>> /\ <<sock[r], r>> \in open
        /\ accepted[sock[r]] \in {"no", "handshake"}
  BY ConnTypes DEF Inv, TypeOK, Linked, Greets
<1>5. ASSUME NEW x \in readers \cup {<<c, p>>}
      PROVE  /\ x[2] = conns[x[1]][2] => accepted'[x[1]] \in {"attached", "late"}
             /\ ~Dials(x[2], x[1])'
  <2>1. CASE x = <<c, p>>
    <3>1. ~Dials(p, c)
      BY <1>1 DEF Dials, Inv, Linked
    <3> QED BY <1>1, <1>2, <2>1, <3>1 DEF Dials
  <2>2. CASE x \in readers
    <3>1. /\ x[1] \in Conn /\ ~Dials(x[2], x[1])
          /\ x[2] = conns[x[1]][2] => accepted[x[1]] \in {"attached", "late"}
      BY <2>2 DEF Inv, TypeOK, Greets
    <3>2. ~Dials(x[2], x[1])'
      BY <1>1, <3>1 DEF Dials
    <3> QED BY <1>2, <3>1, <3>2
  <2> QED BY <2>1, <2>2
<1>6. CASE /\ stream[c][p] # <<>> /\ stream' = [stream EXCEPT ![c][p] = Tail(@)]
           /\ cache' = [cache EXCEPT ![p][q] = c] /\ readers' = readers \cup {<<c, p>>}
           /\ UNCHANGED open
  <2>0. c \in Conn /\ stream[c][p] # <<>> /\ stream' = [stream EXCEPT ![c][p] = Tail(@)]
    BY <1>1, <1>6
  <2>1. /\ stream' \in [Conn -> [Proc -> Seq(Value)]]
        /\ Head(stream[c][p]) \in Value /\ Head(stream[c][p]) = stream[c][p][1]
        /\ 1 \in 1..Len(stream[c][p])
    BY <2>0, Consumed
  <2>2. Taken(c, p)
    BY <2>0, Consumed
  <2>3. q \in Proc /\ Between(c, p, q)
    <3>1. Between(c, p, Head(stream[c][p]).from)
      BY <1>1, <2>1 DEF Inv, Linked
    <3> QED BY <2>1, <3>1 DEF Value
  <2> HIDE DEF q
  <2>4. TypeOK'
    <3>1. cache \in [Proc -> [Proc -> Conn \cup {0}]] /\ readers \subseteq Conn \X Proc
      BY DEF Inv, TypeOK
    <3>2. cache' \in [Proc -> [Proc -> Conn \cup {0}]]
      BY <1>1, <1>6, <2>3, <3>1
    <3>3. readers' \subseteq Conn \X Proc
      BY <1>1, <1>6, <3>1
    <3> QED BY <1>1, <1>2, <1>6, <2>1, <3>2, <3>3 DEF sendVars, Inv, TypeOK
  <2>5. ASSUME NEW d \in Conn, NEW r \in Proc, NEW i \in 1..Len(stream'[d][r])
        PROVE  /\ Between(d, r, stream[d][r][i].from)'
               /\ stream'[d][r][i].type = "hello" =>
                    i = 1 /\ r = conns[d][2] /\ accepted'[d] \in {"no", "handshake"}
    <3>1. PICK j \in 1..Len(stream[d][r]) :
            /\ stream'[d][r][i] = stream[d][r][j] /\ i <= j /\ (d = c /\ r = p => i < j)
      BY <2>2 DEF Taken
    <3>2. Between(d, r, stream[d][r][j].from)
      BY DEF Inv, Linked
    <3>3. stream[d][r][j].type = "hello" =>
            j = 1 /\ r = conns[d][2] /\ accepted[d] \in {"no", "handshake"}
      BY DEF Inv, Greets
    <3>4. stream'[d][r][i].type = "hello" => i = 1 /\ ~(d = c /\ r = p) /\ r = conns[d][2]
      BY <3>1, <3>3
    <3>5. stream'[d][r][i].type = "hello" => d # c
      BY <1>1, <3>4
    <3>6. Between(d, r, stream'[d][r][i].from)
      BY <3>1, <3>2
    <3> QED BY <1>1, <1>2, <3>1, <3>3, <3>4, <3>5, <3>6 DEF Between
  <2>6. Linked'
    <3>1. ASSUME NEW r \in Proc, NEW k \in Proc, cache'[r][k] # 0
          PROVE  Between(cache[r][k], r, k)'
      <4>1. cache'[r][k] = IF r = p /\ k = q THEN c ELSE cache[r][k]
        <5>1. cache \in [Proc -> [Proc -> Conn \cup {0}]]
          BY DEF Inv, TypeOK
        <5> QED BY <1>6, <2>3, <5>1
      <4>2. Between(cache'[r][k], r, k)
        <5>1. CASE r = p /\ k = q
          BY <2>3, <4>1, <5>1
        <5>2. CASE ~(r = p /\ k = q)
          BY <3>1, <4>1, <5>2 DEF Inv, Linked
        <5> QED BY <5>1, <5>2
      <4> QED BY <1>1, <4>2 DEF Between
    <3>2. \A r \in Proc : pc'[r] = "write" => Between(sock[r], r, tgt[r])'
      BY <1>1 DEF Inv, Linked, Between
    <3>3. \A r \in Proc :
            /\ pc'[r] \in Sending => tgt'[r] # r
            /\ pc'[r] \in {"hello", "attach"} =>
                 sock'[r] \in 1..Len(conns') /\ conns'[sock'[r]] = <<r, tgt'[r]>>
      BY <1>1 DEF Inv, Linked
    <3>4. \A x \in readers' \cup open' :
             x[1] \in 1..Len(conns') /\ x[2] \in {conns'[x[1]][1], conns'[x[1]][2]}
      BY <1>1, <1>6 DEF Inv, Linked
    <3>5. /\ \A d \in 1..Len(conns') : conns'[d][1] # conns'[d][2]
          /\ \A d \in Conn : d > Len(conns') => accepted'[d] = "no"
      BY <1>1, <1>2 DEF Inv, Linked
    <3> QED BY <2>5, <3>1, <3>2, <3>3, <3>4, <3>5 DEF Linked
  <2>7. Greets'
    <3>1. ASSUME NEW r \in Proc, pc[r] = "hello"
          PROVE  /\ stream'[sock[r]][tgt[r]] = <<>> /\ accepted'[sock[r]] \in {"no", "handshake"}
                 /\ <<sock[r], r>> \in open'
      <4>1. sock[r] # c
        <5>0. conns[sock[r]] = <<r, tgt[r]>> /\ conns[c][2] = p
          BY <1>1, <1>4, <3>1
        <5>1. sock[r] = c => tgt[r] = p
          BY <5>0
        <5> QED BY <1>4, <1>6, <3>1, <5>1
      <4> QED BY <1>2, <1>4, <1>6, <2>2, <3>1, <4>1 DEF Taken
    <3> QED BY <1>1, <1>5, <1>6, <2>5, <3>1 DEF Greets
  <2> QED BY <1>3, <2>4, <2>6, <2>7 DEF Inv
<1>7. CASE /\ stream[c][p] = <<>> /\ <<c, Peer(c, p)>> \notin open
           /\ open' = open \ {<<c, p>>} /\ UNCHANGED <<stream, cache, readers>>
  <2>1. Peer(c, p) = conns[c][1]
    BY <1>1 DEF Peer
  <2>2. TypeOK'
    BY <1>1, <1>2, <1>7 DEF sendVars, Inv, TypeOK
  <2>3. Linked'
    <3>1. \A r, k \in Proc : cache'[r][k] # 0 => Between(cache[r][k], r, k)'
      BY <1>1, <1>7 DEF Inv, Linked, Between
    <3>2. \A r \in Proc : pc'[r] = "write" => Between(sock[r], r, tgt[r])'
      BY <1>1 DEF Inv, Linked, Between
    <3>3. \A r \in Proc :
            /\ pc'[r] \in Sending => tgt'[r] # r
            /\ pc'[r] \in {"hello", "attach"} =>
                 sock'[r] \in 1..Len(conns') /\ conns'[sock'[r]] = <<r, tgt'[r]>>
      BY <1>1 DEF Inv, Linked
    <3>4. \A x \in readers' \cup open' :
             x[1] \in 1..Len(conns') /\ x[2] \in {conns'[x[1]][1], conns'[x[1]][2]}
      BY <1>1, <1>7 DEF Inv, Linked
    <3>5. /\ \A d \in 1..Len(conns') : conns'[d][1] # conns'[d][2]
          /\ \A d \in Conn : d > Len(conns') => accepted'[d] = "no"
      BY <1>1, <1>2 DEF Inv, Linked
    <3>6. \A d \in Conn : \A r \in Proc : \A i \in 1..Len(stream'[d][r]) :
            Between(d, r, stream[d][r][i].from)'
      BY <1>1, <1>7 DEF Inv, Linked, Between
    <3> QED BY <3>1, <3>2, <3>3, <3>4, <3>5, <3>6 DEF Linked
  <2>4. Greets'
    <3>1. ASSUME NEW r \in Proc, pc[r] = "hello"
          PROVE  /\ stream'[sock[r]][tgt[r]] = <<>> /\ accepted'[sock[r]] \in {"no", "handshake"}
                 /\ <<sock[r], r>> \in open'
      <4>1. sock[r] # c
        <5>0. conns[sock[r]] = <<r, tgt[r]>>
          BY <1>4, <3>1
        <5>1. sock[r] = c => conns[c][1] = r
          BY <5>0
        <5> QED BY <1>4, <1>7, <2>1, <3>1, <5>1
      <4> QED BY <1>2, <1>4, <1>7, <3>1, <4>1
    <3>2. ASSUME NEW d \in Conn, NEW r \in Proc, NEW i \in 1..Len(stream[d][r]),
                 stream[d][r][i].type = "hello"
          PROVE  i = 1 /\ r = conns[d][2] /\ accepted'[d] \in {"no", "handshake"}
      <4>1. i = 1 /\ r = conns[d][2] /\ accepted[d] \in {"no", "handshake"}
        BY <3>2 DEF Inv, Greets
      <4>2. d # c
        BY <1>1, <1>7, <4>1
      <4> QED BY <1>2, <4>1, <4>2
    <3> QED BY <1>1, <1>5, <1>7, <3>1, <3>2 DEF Greets
  <2> QED BY <1>3, <2>2, <2>3, <2>4 DEF Inv
<1> QED BY <1>6, <1>7 DEF ReadHello, Attach

\* Every step is one of these.
LEMMA NextIs ==
    ASSUME Inv, Next
    PROVE  \E p \in Proc :
             \/ \E t \in Proc : StartSend(p, t)
             \/ GetCached(p) \/ Connect(p) \/ SayHello(p) \/ AttachConnected(p) \/ Write(p)
             \/ ListConnections(p) \/ CloseConnection(p) \/ StartClose(p) \/ Accept(p) \/ Die(p)
             \/ \E c \in 1..Len(conns) :
                  ReadHello(c, p) \/ ReadMessage(c, p) \/ ReadEnd(c, p) \/ ReadTorn(c, p) \/ ReadClosed(c, p)
BY ConnTypes DEF Next, UserStep, ReaderStep

LEMMA NextInv == Inv /\ [Next]_vars => Inv'
<1> SUFFICES ASSUME Inv, [Next]_vars PROVE Inv'
  OBVIOUS
<1>1. CASE UNCHANGED vars
  BY <1>1, QuietInv DEF vars, Inv, TypeOK, Greets, sendVars
<1>2. CASE Next
  BY <1>2, NextIs, StartSendInv, GetCachedInv, ConnectInv, SayHelloInv, AttachConnectedInv, WriteInv,
     ListConnectionsInv, CloseConnectionInv, StartCloseInv, AcceptInv, DieInv,
     ReadHelloInv, ReadMessageInv, ReadEndInv, ReadClosedInv
<1> QED BY <1>1, <1>2

LEMMA AlwaysInv == Spec => []Inv
BY InitInv, NextInv, PTL DEF Spec

\* Every variable has its type: what the threads of inboxes that listen keep of
\* each other in caches, reader threads and streams is about the connections
\* that were made, and the first value of a connection is its caller's hello.
THEOREM TypesCorrect == Spec => []TypeOK
<1>1. Inv => TypeOK
  BY DEF Inv
<1> QED BY AlwaysInv, <1>1, PTL

----------------------------------------------------------------------------
(* Whoever is told of an end.                                               *)

\* A connection breaks because one of the two is closed or dies.
Broken ==
    \A c \in 1..Len(conns) : ~Whole(c) => ~Listens(conns[c][1]) \/ ~Listens(conns[c][2])
TruthInv == Inv /\ Broken /\ GoneTruthful

LEMMA SendEffect ==
    ASSUME Inv, NEW p \in Proc, SayHello(p) \/ Write(p)
    PROVE  /\ Between(sock[p], p, tgt[p]) /\ tgt[p] \in Proc /\ pc[p] \in {"hello", "write"}
           /\ pc'[p] \in {"attach", "idle"} /\ \A r \in Proc \ {p} : pc'[r] = pc[r]
           /\ pc'[p] = "attach" => pc[p] = "hello"
           /\ open' \subseteq open /\ \A x \in open \ open' : x = <<sock[p], p>>
           /\ open' # open => ~Whole(sock[p])
           /\ pc[p] = "hello" /\ pc'[p] = "idle" => ~Whole(sock[p]) /\ <<sock[p], p>> \notin open'
           /\ UNCHANGED <<tgt, sock, sends, closing, cache, readers, box, conns, accepted>>
<1>1. /\ pc[p] \in {"hello", "write"} /\ tgt[p] \in Proc
      /\ UNCHANGED <<tgt, sock, sends, closing, cache, readers, box, conns, accepted>>
  BY DEF SayHello, Write, sendVars, Inv, TypeOK
<1>2. Between(sock[p], p, tgt[p])
  BY <1>1 DEF Inv, Linked, Between
<1>3. ASSUME NEW v \in Value, NEW next \in {"attach", "idle"}, SendValue(p, v, next),
             next = "attach" <=> pc[p] = "hello"
      PROVE  /\ pc'[p] \in {"attach", "idle"} /\ \A r \in Proc \ {p} : pc'[r] = pc[r]
             /\ pc'[p] = "attach" => pc[p] = "hello"
             /\ open' \subseteq open /\ \A x \in open \ open' : x = <<sock[p], p>>
             /\ open' # open => ~Whole(sock[p])
             /\ pc[p] = "hello" /\ pc'[p] = "idle" => ~Whole(sock[p]) /\ <<sock[p], p>> \notin open'
  <2>1. /\ \E at \in {next, "idle"} : pc' = [pc EXCEPT ![p] = at]
        /\ open' \subseteq open /\ \A x \in open \ open' : x = <<sock[p], p>>
        /\ open' # open => ~Whole(sock[p])
        /\ pc' # [pc EXCEPT ![p] = next] => ~Whole(sock[p]) /\ <<sock[p], p>> \notin open'
    <3>1. Delivered(p, v, next)
      BY <1>2, <1>3, Sent
    <3> QED BY <3>1 DEF Delivered
  <2>2. pc'[p] \in {next, "idle"} /\ \A r \in Proc \ {p} : pc'[r] = pc[r]
    BY <2>1 DEF Inv, TypeOK
  <2>3. pc'[p] # next => pc' # [pc EXCEPT ![p] = next]
    BY DEF Inv, TypeOK
  <2> QED BY <1>3, <2>1, <2>2, <2>3
<1>4. CASE SayHello(p)
  <2>1. Hello(p) \in Value /\ SendValue(p, Hello(p), "attach") /\ pc[p] = "hello"
    BY <1>4, SendTypes DEF SayHello, Hello, Value
  <2> QED BY <1>1, <1>2, <1>3, <2>1
<1>5. CASE Write(p)
  <2>1. Message(p, wrote[p][tgt[p]] + 1) \in Value
    <3>1. wrote[p][tgt[p]] \in 0..MaxSends /\ wrote[p][tgt[p]] < sends
      BY <1>1, <1>5 DEF Inv, TypeOK, Writes, Write, Sending
    <3> QED BY <3>1, SendTypes DEF Message, Value
  <2>2. SendValue(p, Message(p, wrote[p][tgt[p]] + 1), "idle") /\ pc[p] = "write"
    BY <1>5 DEF Write
  <2> QED BY <1>1, <1>2, <1>3, <2>1, <2>2
<1> QED BY <1>4, <1>5

\* Nobody listens again.
LEMMA StaysDeaf ==
    ASSUME Inv, [Next]_vars, NEW r \in Proc, Listens(r)' PROVE Listens(r)
<1>1. CASE UNCHANGED pc
  BY <1>1 DEF Listens
<1>2. ASSUME NEW p \in Proc, NEW at, pc' = [pc EXCEPT ![p] = at],
             pc[p] \notin {"closing", "closes", "closed", "dead"}
             \/ at \in {"closing", "closes", "closed", "dead"}
      PROVE  Listens(r)
  BY <1>2 DEF Listens, Inv, TypeOK
<1>3. ASSUME NEW p \in Proc, SayHello(p) \/ Write(p) PROVE Listens(r)
  BY <1>3, SendEffect DEF Listens
<1>4. ASSUME NEW p \in Proc, NEW t \in Proc, StartSend(p, t) PROVE Listens(r)
  BY <1>2, <1>4 DEF StartSend, Goto
<1>5. ASSUME NEW p \in Proc, GetCached(p) PROVE Listens(r)
  BY <1>2, <1>5 DEF GetCached, Goto
<1>6. ASSUME NEW p \in Proc, Connect(p) PROVE Listens(r)
  BY <1>2, <1>6 DEF Connect, Goto
<1>7. ASSUME NEW p \in Proc, AttachConnected(p) PROVE Listens(r)
  BY <1>2, <1>7 DEF AttachConnected, Goto
<1>8. ASSUME NEW p \in Proc, ListConnections(p) \/ CloseConnection(p) \/ StartClose(p) \/ Die(p)
      PROVE  Listens(r)
  BY <1>1, <1>2, <1>8 DEF ListConnections, CloseConnection, StartClose, Die, Goto
<1>9. ASSUME NEW p \in Proc, NEW c \in 1..Len(conns),
             Accept(p) \/ ReadHello(c, p) \/ ReadMessage(c, p) \/ ReadEnd(c, p) \/ ReadTorn(c, p) \/ ReadClosed(c, p)
      PROVE  Listens(r)
  BY <1>1, <1>9 DEF Accept, ReadHello, ReadMessage, ReadEnd, ReadTorn, ReadClosed
<1>10. ASSUME NEW p \in Proc, Accept(p) PROVE Listens(r)
  BY <1>1, <1>10 DEF Accept
<1>11. CASE UNCHANGED vars
  BY <1>1, <1>11 DEF vars
<1> QED BY <1>3, <1>4, <1>5, <1>6, <1>7, <1>8, <1>9, <1>10, <1>11, NextIs

\* A step that makes a connection makes one, at both ends; the others leave the
\* connections as they are.
LEMMA ConnsStep ==
    ASSUME Inv, [Next]_vars
    PROVE  \/ UNCHANGED conns
           \/ \E p \in Proc :
                /\ pc[p] = "absent" /\ Listens(tgt[p]) /\ tgt[p] \in Proc /\ tgt[p] # p
                /\ conns' = Append(conns, <<p, tgt[p]>>)
                /\ open' = open \cup {<<Len(conns) + 1, p>>, <<Len(conns) + 1, tgt[p]>>}
                /\ sock' = [sock EXCEPT ![p] = Len(conns) + 1]
                /\ pc' = [pc EXCEPT ![p] = "hello"]
                /\ UNCHANGED <<tgt, sends, closing, wrote, cache, readers, box, accepted, stream>>
<1>1. ASSUME NEW p \in Proc, Connect(p)
      PROVE  \/ UNCHANGED conns
             \/ /\ pc[p] = "absent" /\ Listens(tgt[p]) /\ tgt[p] \in Proc /\ tgt[p] # p
                /\ conns' = Append(conns, <<p, tgt[p]>>)
                /\ open' = open \cup {<<Len(conns) + 1, p>>, <<Len(conns) + 1, tgt[p]>>}
                /\ sock' = [sock EXCEPT ![p] = Len(conns) + 1]
                /\ pc' = [pc EXCEPT ![p] = "hello"]
                /\ UNCHANGED <<tgt, sends, closing, wrote, cache, readers, box, accepted, stream>>
  BY <1>1 DEF Connect, Goto, Inv, TypeOK, Linked, Sending
<1>2. ASSUME NEW p \in Proc, NEW t \in Proc,
             \/ StartSend(p, t) \/ GetCached(p) \/ AttachConnected(p) \/ SayHello(p) \/ Write(p)
             \/ ListConnections(p) \/ CloseConnection(p) \/ StartClose(p) \/ Accept(p) \/ Die(p)
      PROVE  UNCHANGED conns
  BY <1>2 DEF StartSend, GetCached, AttachConnected, SayHello, Write, ListConnections,
     CloseConnection, StartClose, Accept, Die
<1>3. ASSUME NEW p \in Proc, NEW c \in 1..Len(conns),
             ReadHello(c, p) \/ ReadMessage(c, p) \/ ReadEnd(c, p) \/ ReadTorn(c, p) \/ ReadClosed(c, p)
      PROVE  UNCHANGED conns
  BY <1>3 DEF ReadHello, ReadMessage, ReadEnd, ReadTorn, ReadClosed
<1>4. CASE UNCHANGED vars
  BY <1>4 DEF vars
<1> QED BY <1>1, <1>2, <1>3, <1>4, NextIs

LEMMA ConnsGrow ==
    ASSUME Inv, [Next]_vars
    PROVE  /\ Len(conns) \in Nat /\ Len(conns') \in Nat /\ Len(conns) <= Len(conns')
           /\ 1..Len(conns) \subseteq 1..Len(conns')
           /\ \A c \in 1..Len(conns) : conns'[c] = conns[c]
<1>1. conns \in Seq(Proc \X Proc) /\ Len(conns) \in Nat
  BY DEF Inv, TypeOK
<1>2. ASSUME NEW p \in Proc, tgt[p] \in Proc, conns' = Append(conns, <<p, tgt[p]>>)
      PROVE  Len(conns') = Len(conns) + 1 /\ \A c \in 1..Len(conns) : conns'[c] = conns[c]
  <2>1. <<p, tgt[p]>> \in Proc \X Proc
    BY <1>2
  <2> QED BY <1>1, <1>2, <2>1, LongerIs
<1> QED BY <1>1, <1>2, ConnsStep

\* The first end of a connection that is closed is that of one who goes.
LEMMA FirstClose ==
    ASSUME Inv, [Next]_vars, NEW c \in 1..Len(conns), Whole(c), ~Whole(c)'
    PROVE  ~Listens(conns[c][1])' \/ ~Listens(conns[c][2])'
<1> DEFINE Ends == {conns[c][1], conns[c][2]}
<1>0. conns[c][1] \in Proc /\ conns[c][2] \in Proc /\ conns'[c] = conns[c]
  BY ConnTypes, ConnsGrow
<1>1. PICK e \in Ends : <<c, e>> \in open /\ <<c, e>> \notin open'
  BY <1>0 DEF Whole
<1>2. ASSUME NEW p \in Proc, pc'[p] \in {"closing", "closes", "closed", "dead"}, e = p
      PROVE  ~Listens(conns[c][1])' \/ ~Listens(conns[c][2])'
  BY <1>0, <1>1, <1>2 DEF Listens
<1>3. ASSUME NEW p \in Proc, StartClose(p) \/ Die(p)
      PROVE  ~Listens(conns[c][1])' \/ ~Listens(conns[c][2])'
  <2>1. pc'[p] \in {"closing", "dead"}
    BY <1>3 DEF StartClose, Die, Goto, Inv, TypeOK
  <2>2. \A x \in open \ open' : x[2] = p
    BY <1>3 DEF StartClose, Die
  <2>3. <<c, e>>[2] = e
    OBVIOUS
  <2> QED BY <1>1, <1>2, <2>1, <2>2, <2>3
<1>4. ASSUME NEW p \in Proc, CloseConnection(p)
      PROVE  ~Listens(conns[c][1])' \/ ~Listens(conns[c][2])'
  <2>1. pc'[p] \in {"closes", "closed"}
    BY <1>4 DEF CloseConnection, Goto, Inv, TypeOK
  <2>2. e = p
    BY <1>1, <1>4 DEF CloseConnection
  <2> QED BY <1>2, <2>1, <2>2
<1>5. ASSUME NEW p \in Proc, SayHello(p) \/ Write(p) PROVE FALSE
  <2>1. open' # open /\ <<c, e>> = <<sock[p], p>>
    BY <1>1, <1>5, SendEffect
  <2>2. c = sock[p] /\ ~Whole(sock[p])
    BY <1>5, <2>1, SendEffect
  <2> QED BY <2>2
<1>6. ASSUME NEW p \in Proc, NEW d \in 1..Len(conns), ReadHello(d, p) PROVE FALSE
  <2>1. d = c /\ e = p /\ <<d, Peer(d, p)>> \notin open /\ conns[d][2] = p
    BY <1>1, <1>6 DEF ReadHello
  <2>2. Peer(d, p) \in Ends
    BY <2>1 DEF Peer
  <2> QED BY <2>1, <2>2 DEF Whole
<1>7. ASSUME NEW p \in Proc, NEW d \in 1..Len(conns), ReadEnd(d, p) PROVE FALSE
  <2>1. d = c /\ e = p /\ ~({d} \X {p, Peer(d, p)} \subseteq open)
    BY <1>1, <1>7 DEF ReadEnd, Ended
  <2>2. {p, Peer(d, p)} \subseteq Ends
    BY <2>1 DEF Peer
  <2> QED BY <2>1, <2>2 DEF Whole
<1>8. ASSUME NEW p \in Proc, NEW t \in Proc,
             \/ StartSend(p, t) \/ GetCached(p) \/ Connect(p) \/ AttachConnected(p)
             \/ ListConnections(p) \/ Accept(p)
      PROVE  FALSE
  BY <1>1, <1>8 DEF StartSend, GetCached, Connect, AttachConnected, ListConnections, Accept
<1>9. ASSUME NEW p \in Proc, NEW d \in 1..Len(conns), ReadMessage(d, p) \/ ReadClosed(d, p)
      PROVE  FALSE
  BY <1>1, <1>9 DEF ReadMessage, ReadClosed
<1>11. ASSUME NEW p \in Proc, NEW d \in 1..Len(conns), ReadTorn(d, p) PROVE FALSE
  <2>1. d = c /\ e = p /\ ~({d} \X {p, Peer(d, p)} \subseteq open)
    BY <1>1, <1>11 DEF ReadTorn, Ended
  <2>2. {p, Peer(d, p)} \subseteq Ends
    BY <2>1 DEF Peer
  <2> QED BY <2>1, <2>2 DEF Whole
<1>10. CASE UNCHANGED vars
  BY <1>1, <1>10 DEF vars
<1> QED BY <1>3, <1>4, <1>5, <1>6, <1>7, <1>8, <1>9, <1>10, <1>11, NextIs

LEMMA ReadEndIs ==
    ASSUME Inv, NEW p \in Proc, NEW c \in 1..Len(conns), ReadEnd(c, p)
    PROVE  /\ Peer(c, p) \in Proc /\ Between(c, p, Peer(c, p)) /\ ~Whole(c)
           /\ <<c, p>> \in readers /\ Gone(Peer(c, p)) \in Letter
<1>1. <<c, p>> \in readers /\ ~({c} \X {p, Peer(c, p)} \subseteq open)
  BY DEF ReadEnd, Ended
<1>2. p \in {conns[c][1], conns[c][2]}
  <2>1. <<c, p>>[1] = c /\ <<c, p>>[2] = p
    OBVIOUS
  <2> QED BY <1>1, <2>1 DEF Inv, Linked
<1>3. Peer(c, p) \in Proc /\ Between(c, p, Peer(c, p))
  BY <1>2, EndsAre
<1>4. Whole(c) => {c} \X {p, Peer(c, p)} \subseteq open
  <2>1. {p, Peer(c, p)} \subseteq {conns[c][1], conns[c][2]}
    BY <1>2 DEF Peer
  <2> QED BY <2>1 DEF Whole
<1>5. Gone(Peer(c, p)) \in Letter
  BY <1>3, SendTypes DEF Gone, Letter
<1> QED BY <1>1, <1>3, <1>4, <1>5

\* What gets into a queue comes off a stream, or is a notice.
Fills(r) ==
    \/ box'[r] = box[r]
    \/ \E c \in 1..Len(conns) :
         ReadMessage(c, r) /\ box'[r] = Append(box[r], Head(stream[c][r]))
    \/ \E c \in 1..Len(conns) :
         ReadEnd(c, r) /\ box'[r] = Append(box[r], Gone(Peer(c, r)))

LEMMA BoxStep ==
    ASSUME Inv, [Next]_vars, NEW r \in Proc PROVE Fills(r)
<1>0. box \in [Proc -> Seq(Letter)]
  BY DEF Inv, TypeOK
<1>1. ASSUME NEW p \in Proc, NEW c \in 1..Len(conns), ReadMessage(c, p) PROVE Fills(r)
  <2>1. box' = [box EXCEPT ![p] = Append(@, Head(stream[c][p]))]
    BY <1>1 DEF ReadMessage
  <2>2. p = r \/ box'[r] = box[r]
    BY <1>0, <2>1
  <2>3. p = r => box'[r] = Append(box[r], Head(stream[c][r]))
    BY <1>0, <2>1
  <2> QED BY <1>1, <2>2, <2>3 DEF Fills
<1>2. ASSUME NEW p \in Proc, NEW c \in 1..Len(conns), ReadEnd(c, p) PROVE Fills(r)
  <2>1. UNCHANGED box \/ box' = [box EXCEPT ![p] = Append(@, Gone(Peer(c, p)))]
    BY <1>2 DEF ReadEnd, Notice
  <2>2. p = r \/ box'[r] = box[r]
    BY <1>0, <2>1
  <2>3. p = r => box'[r] = box[r] \/ box'[r] = Append(box[r], Gone(Peer(c, r)))
    BY <1>0, <2>1
  <2> QED BY <1>2, <2>2, <2>3 DEF Fills
<1>3. ASSUME NEW p \in Proc, NEW t \in Proc,
             \/ StartSend(p, t) \/ GetCached(p) \/ Connect(p) \/ SayHello(p) \/ AttachConnected(p)
             \/ Write(p) \/ ListConnections(p) \/ CloseConnection(p) \/ StartClose(p) \/ Accept(p)
             \/ Die(p)
      PROVE  Fills(r)
  BY <1>3 DEF StartSend, GetCached, Connect, SayHello, AttachConnected, Write, ListConnections,
     CloseConnection, StartClose, Accept, Die, Fills
<1>4. ASSUME NEW p \in Proc, NEW c \in 1..Len(conns), ReadHello(c, p) \/ ReadTorn(c, p) \/ ReadClosed(c, p) PROVE Fills(r)
  BY <1>4 DEF ReadHello, ReadTorn, ReadClosed, Fills
<1>5. CASE UNCHANGED vars
  BY <1>5 DEF vars, Fills
<1>6. CASE Next
  <2>1. PICK p \in Proc :
          \/ \E t \in Proc : StartSend(p, t)
          \/ GetCached(p) \/ Connect(p) \/ SayHello(p) \/ AttachConnected(p) \/ Write(p)
          \/ ListConnections(p) \/ CloseConnection(p) \/ StartClose(p) \/ Accept(p) \/ Die(p)
          \/ \E c \in 1..Len(conns) :
               ReadHello(c, p) \/ ReadMessage(c, p) \/ ReadEnd(c, p) \/ ReadTorn(c, p) \/ ReadClosed(c, p)
    BY <1>6, NextIs
  <2> QED BY <1>1, <1>2, <1>3, <1>4, <2>1
<1> QED BY <1>5, <1>6

LEMMA BrokenStep == Inv /\ Broken /\ [Next]_vars => Broken'
<1> SUFFICES ASSUME Inv, Broken, [Next]_vars, NEW c \in 1..Len(conns'), ~Whole(c)'
             PROVE  ~Listens(conns[c][1])' \/ ~Listens(conns[c][2])'
  BY DEF Broken
<1>1. CASE c \in 1..Len(conns)
  <2>1. conns[c][1] \in Proc /\ conns[c][2] \in Proc /\ conns'[c] = conns[c]
    BY <1>1, ConnTypes, ConnsGrow
  <2>2. CASE Whole(c)
    BY <1>1, <2>1, <2>2, FirstClose DEF Listens
  <2>3. CASE ~Whole(c)
    <3>1. ~Listens(conns[c][1]) \/ ~Listens(conns[c][2])
      BY <1>1, <2>3 DEF Broken
    <3>2. \A p \in Proc : ~Listens(p) => ~Listens(p)'
      BY StaysDeaf
    <3> QED BY <2>1, <3>1, <3>2 DEF Listens
  <2> QED BY <2>2, <2>3
<1>2. CASE c \notin 1..Len(conns)
  <2>0. ~UNCHANGED conns
    BY <1>2
  <2>1. PICK p \in Proc :
          /\ tgt[p] \in Proc /\ conns' = Append(conns, <<p, tgt[p]>>)
          /\ open' = open \cup {<<Len(conns) + 1, p>>, <<Len(conns) + 1, tgt[p]>>}
    BY <2>0, ConnsStep
  <2>2. conns \in Seq(Proc \X Proc) /\ <<p, tgt[p]>> \in Proc \X Proc
    BY <2>1 DEF Inv, TypeOK
  <2>3. c = Len(conns) + 1 /\ conns'[Len(conns) + 1] = <<p, tgt[p]>>
    BY <1>2, <2>1, <2>2, LongerIs
  <2> QED BY <2>1, <2>3 DEF Whole
<1> QED BY <1>1, <1>2

LEMMA TruthStep == TruthInv /\ [Next]_vars => TruthInv'
<1> SUFFICES ASSUME TruthInv, [Next]_vars PROVE TruthInv'
  OBVIOUS
<1>1. Inv /\ Broken /\ GoneTruthful /\ Inv' /\ Broken'
  BY NextInv, BrokenStep DEF TruthInv
<1>2. GoneTruthful'
  <2> SUFFICES ASSUME NEW p \in Proc, NEW i \in DOMAIN box'[p],
                      box'[p][i].type = "client-disconnected"
               PROVE  ~Listens(p)' \/ ~Listens(box[p][i].from)'
    BY DEF GoneTruthful
  <2>0. PICK m, q : m = box'[p][i] /\ q = m.from
    OBVIOUS
  <2>1. /\ box[p] \in Seq(Letter) /\ box'[p] \in Seq(Letter) /\ i \in 1..Len(box'[p])
        /\ DOMAIN box[p] = 1..Len(box[p]) /\ m \in Letter /\ q \in Proc
    <3>1. box[p] \in Seq(Letter) /\ box'[p] \in Seq(Letter)
      BY <1>1 DEF Inv, TypeOK
    <3>2. i \in 1..Len(box'[p]) /\ m \in Letter
      BY <2>0, <3>1
    <3> QED BY <2>0, <3>1, <3>2 DEF Letter
  <2>2. \A r \in Proc : ~Listens(r) => ~Listens(r)'
    BY <1>1, StaysDeaf
  <2>3. ASSUME i \in 1..Len(box[p]), m = box[p][i]
        PROVE  ~Listens(p)' \/ ~Listens(q)'
    <3>1. ~Listens(p) \/ ~Listens(q)
      BY <1>1, <2>0, <2>1, <2>3 DEF GoneTruthful
    <3> QED BY <2>1, <2>2, <3>1
  <2>4. ASSUME NEW c \in 1..Len(conns), ReadMessage(c, p),
               box'[p] = Append(box[p], Head(stream[c][p]))
        PROVE  ~Listens(p)' \/ ~Listens(q)'
    <3>1. Head(stream[c][p]).type = "message" /\ Head(stream[c][p]) \in Letter
      BY <1>1, <2>4, ReadMessageTypes
    <3>2. (i \in 1..Len(box[p]) /\ m = box[p][i]) \/ m = Head(stream[c][p])
      BY <2>0, <2>1, <2>4, <3>1, LongerIs
    <3>3. m # Head(stream[c][p])
      BY <2>0, <3>1
    <3> QED BY <2>3, <3>2, <3>3
  <2>5. ASSUME NEW c \in 1..Len(conns), ReadEnd(c, p),
               box'[p] = Append(box[p], Gone(Peer(c, p)))
        PROVE  ~Listens(p)' \/ ~Listens(q)'
    <3>1. /\ Peer(c, p) \in Proc /\ Between(c, p, Peer(c, p)) /\ ~Whole(c)
          /\ Gone(Peer(c, p)) \in Letter
      BY <1>1, <2>5, ReadEndIs
    <3>2. (i \in 1..Len(box[p]) /\ m = box[p][i]) \/ m = Gone(Peer(c, p))
      BY <2>0, <2>1, <2>5, <3>1, LongerIs
    <3>3. ~Listens(conns[c][1]) \/ ~Listens(conns[c][2])
      BY <1>1, <3>1 DEF Broken
    <3>4. ~Listens(p) \/ ~Listens(Peer(c, p))
      BY <3>1, <3>3, <1>1, ConnTypes DEF Between
    <3>5. m = Gone(Peer(c, p)) => q = Peer(c, p)
      BY <2>0 DEF Gone
    <3> QED BY <2>2, <2>3, <3>1, <3>2, <3>4, <3>5
  <2>6. CASE box'[p] = box[p]
    <3>1. i \in 1..Len(box[p]) /\ m = box[p][i]
      BY <2>0, <2>1, <2>6
    <3>2. ~Listens(p)' \/ ~Listens(q)'
      BY <2>3, <3>1
    <3> QED BY <2>0, <3>2 DEF Listens
  <2>7. CASE box'[p] # box[p]
    <3>1. ~Listens(p)' \/ ~Listens(q)'
      BY <1>1, <2>4, <2>5, <2>7, BoxStep DEF Fills
    <3> QED BY <2>0, <3>1 DEF Listens
  <2> QED BY <2>6, <2>7
<1> QED BY <1>1, <1>2 DEF TruthInv

LEMMA AlwaysTruth == Spec => []TruthInv
<1>1. Init => TruthInv
  <2> SUFFICES ASSUME Init PROVE TruthInv
    OBVIOUS
  <2>1. Inv
    BY InitInv
  <2>2. Broken /\ GoneTruthful
    BY DEF Init, Broken, GoneTruthful
  <2> QED BY <2>1, <2>2 DEF TruthInv
<1> QED BY <1>1, TruthStep, PTL DEF Spec

\* Whoever is told that another has disconnected: that one has died or is being
\* closed, or who is told is.  A failed handshake or write, a reset connection or
\* one that was replaced in a cache disconnects nobody who goes on listening.
THEOREM GoneTruthfulCorrect == Spec => []GoneTruthful
<1>1. TruthInv => GoneTruthful
  BY DEF TruthInv
<1> QED BY AlwaysTruth, <1>1, PTL

----------------------------------------------------------------------------
(* One connection each way.                                                 *)

\* Nobody connects to the same process twice: as long as both listen, there is
\* an entry in the cache behind a connection of one's own.
Once      == \A c, d \in 1..Len(conns) : conns[c] = conns[d] => c = d
Remembers ==
    \A p, r \in Proc : \A c \in 1..Len(conns) :
        conns[c] = <<p, r>> /\ Listens(p) /\ Listens(r) => cache[p][r] # 0 \/ Dials(p, c)
NotAgain  ==
    \A p \in Proc : pc[p] = "absent" /\ Listens(tgt[p]) =>
        \A c \in 1..Len(conns) : conns[c] # <<p, tgt[p]>>
OnceInv == TruthInv /\ Once /\ Remembers /\ NotAgain

\* A step keeps the cache and what is dialled, while the two listen.
Keeps ==
    \A p, r \in Proc : \A c \in 1..Len(conns) :
        conns[c] = <<p, r>> /\ Listens(p) /\ Listens(p)' /\ Listens(r) /\ Listens(r)' =>
            /\ cache[p][r] # 0 => cache'[p][r] # 0
            /\ Dials(p, c) => cache'[p][r] # 0 \/ Dials(p, c)'
\* Whoever is about to connect was, or has found no entry in the cache.
FindsNone ==
    \A p \in Proc : pc'[p] = "absent" =>
        \/ pc[p] = "absent" /\ tgt'[p] = tgt[p]
        \/ pc[p] = "idle" /\ cache[p][tgt'[p]] = 0

LEMMA RemembersKept ==
    ASSUME OnceInv, [Next]_vars, UNCHANGED conns, Keeps, FindsNone
    PROVE  Once' /\ Remembers' /\ NotAgain'
<1>0. Inv /\ \A p \in Proc : Listens(p)' => Listens(p)
  BY StaysDeaf DEF OnceInv, TruthInv
<1>1. Once'
  BY DEF OnceInv, Once
<1>2. Remembers'
  <2> SUFFICES ASSUME NEW p \in Proc, NEW r \in Proc, NEW c \in 1..Len(conns),
                      conns[c] = <<p, r>>, Listens(p)', Listens(r)'
               PROVE  cache'[p][r] # 0 \/ Dials(p, c)'
    BY DEF Remembers
  <2>1. cache[p][r] # 0 \/ Dials(p, c)
    BY <1>0 DEF OnceInv, Remembers
  <2> QED BY <1>0, <2>1 DEF Keeps
<1>3. NotAgain'
  <2> SUFFICES ASSUME NEW p \in Proc, pc'[p] = "absent", NEW t, t = tgt'[p], Listens(t)',
                      NEW c \in 1..Len(conns), conns[c] = <<p, t>>
               PROVE  FALSE
    BY DEF NotAgain, Listens
  <2>1. t \in Proc
    BY <1>0, ConnTypes
  <2>2. Listens(t)
    BY <1>0, <2>1
  <2>3. CASE pc[p] = "absent" /\ tgt'[p] = tgt[p]
    BY <2>2, <2>3 DEF OnceInv, NotAgain
  <2>4. CASE pc[p] = "idle" /\ cache[p][t] = 0
    <3>1. Listens(p) /\ ~Dials(p, c)
      BY <2>4 DEF Listens, Dials
    <3> QED BY <2>1, <2>2, <2>4, <3>1 DEF OnceInv, Remembers
  <2> QED BY <2>3, <2>4 DEF FindsNone
<1> QED BY <1>1, <1>2, <1>3

LEMMA OnceKept ==
    ASSUME OnceInv, [Next]_vars, UNCHANGED conns PROVE Once' /\ Remembers' /\ NotAgain'
<1>0. Inv /\ Broken
  BY DEF OnceInv, TruthInv
<1>1. CASE UNCHANGED <<pc, tgt, sock, cache>>
  <2>1. Keeps /\ FindsNone
    BY <1>1 DEF Keeps, FindsNone, Dials
  <2> QED BY <2>1, RemembersKept
<1>2. ASSUME NEW p \in Proc, NEW t \in Proc, StartSend(p, t) PROVE Keeps /\ FindsNone
  <2>1. /\ pc[p] = "idle" /\ tgt' = [tgt EXCEPT ![p] = t] /\ UNCHANGED <<sock, cache>>
        /\ pc' = [pc EXCEPT ![p] = IF HasConnection(p, t) THEN "cached" ELSE "absent"]
    BY <1>2 DEF StartSend, Goto
  <2>2. Keeps
    BY <1>0, <2>1 DEF Keeps, Dials, Inv, TypeOK
  <2>3. FindsNone
    <3>1. pc'[p] = "absent" => cache[p][tgt'[p]] = 0
      BY <1>0, <2>1 DEF HasConnection, Inv, TypeOK
    <3>2. \A r \in Proc \ {p} : pc'[r] = pc[r] /\ tgt'[r] = tgt[r]
      BY <1>0, <2>1 DEF Inv, TypeOK
    <3> QED BY <2>1, <3>1, <3>2 DEF FindsNone
  <2> QED BY <2>2, <2>3
<1>3. ASSUME NEW p \in Proc, GetCached(p) PROVE Keeps /\ FindsNone
  <2>1. /\ pc[p] = "cached" /\ UNCHANGED <<tgt, cache>> /\ pc'[p] \in {"write", "idle"}
        /\ \A r \in Proc \ {p} : pc'[r] = pc[r] /\ sock'[r] = sock[r]
    BY <1>0, <1>3 DEF GetCached, Goto, Inv, TypeOK
  <2> QED BY <2>1 DEF Keeps, FindsNone, Dials
<1>4. ASSUME NEW p \in Proc, Connect(p) PROVE Keeps /\ FindsNone
  <2>1. Len(conns) \in Nat /\ conns \in Seq(Proc \X Proc) /\ tgt[p] \in Proc
    BY <1>0 DEF Inv, TypeOK
  <2>2. conns' # Append(conns, <<p, tgt[p]>>)
    <3>1. Len(Append(conns, <<p, tgt[p]>>)) = Len(conns) + 1
      BY <2>1, Longer
    <3> QED BY <2>1, <3>1
  <2>3. /\ pc[p] = "absent" /\ UNCHANGED <<tgt, sock, cache>> /\ pc'[p] = "idle"
        /\ \A r \in Proc \ {p} : pc'[r] = pc[r]
    BY <1>0, <1>4, <2>2 DEF Connect, Goto, Inv, TypeOK
  <2> QED BY <2>3 DEF Keeps, FindsNone, Dials
<1>5. ASSUME NEW p \in Proc, SayHello(p) \/ Write(p) PROVE Keeps /\ FindsNone
  <2>1. /\ Between(sock[p], p, tgt[p]) /\ tgt[p] \in Proc /\ pc[p] \in {"hello", "write"}
        /\ pc'[p] \in {"attach", "idle"} /\ \A r \in Proc \ {p} : pc'[r] = pc[r]
        /\ pc[p] = "hello" /\ pc'[p] = "idle" => ~Whole(sock[p])
        /\ UNCHANGED <<tgt, sock, cache>>
    BY <1>0, <1>5, SendEffect
  <2>2. Keeps
    <3> SUFFICES ASSUME NEW q \in Proc, NEW r \in Proc, NEW c \in 1..Len(conns),
                        conns[c] = <<q, r>>, Listens(q), Listens(r), Dials(q, c)
                 PROVE  Dials(q, c)'
      BY <2>1 DEF Keeps
    <3>1. Whole(c)
      BY <1>0 DEF Broken
    <3> QED BY <2>1, <3>1 DEF Dials
  <2>3. FindsNone
    BY <2>1 DEF FindsNone
  <2> QED BY <2>2, <2>3
<1>6. ASSUME NEW p \in Proc, AttachConnected(p) PROVE Keeps /\ FindsNone
  <2>1. /\ pc[p] = "attach" /\ cache' = [cache EXCEPT ![p][tgt[p]] = sock[p]] /\ UNCHANGED <<tgt, sock>>
        /\ pc' = [pc EXCEPT ![p] = "write"]
    BY <1>6 DEF AttachConnected, Attach, Goto, sendVars
  <2>2. /\ sock[p] \in Conn /\ sock[p] # 0 /\ conns[sock[p]] = <<p, tgt[p]>> /\ tgt[p] \in Proc
    BY <1>0, <2>1, ConnTypes DEF Inv, TypeOK, Linked
  <2>3. /\ cache'[p][tgt[p]] # 0
        /\ \A q, r \in Proc : cache[q][r] # 0 => cache'[q][r] # 0
    <3>1. cache \in [Proc -> [Proc -> Conn \cup {0}]]
      BY <1>0 DEF Inv, TypeOK
    <3> QED BY <2>1, <2>2, <3>1
  <2>4. pc'[p] = "write" /\ \A r \in Proc \ {p} : pc'[r] = pc[r]
    BY <1>0, <2>1 DEF Inv, TypeOK
  <2>5. Keeps
    <3> SUFFICES ASSUME NEW q \in Proc, NEW r \in Proc, NEW c \in 1..Len(conns),
                        conns[c] = <<q, r>>, Dials(q, c)
                 PROVE  cache'[q][r] # 0 \/ Dials(q, c)'
      BY <2>3 DEF Keeps
    <3>1. CASE q = p
      <4>1. <<p, r>> = <<p, tgt[p]>>
        BY <2>2, <3>1 DEF Dials
      <4>2. r = tgt[p]
        BY <4>1
      <4> QED BY <2>3, <3>1, <4>2
    <3>2. CASE q # p
      BY <2>1, <2>4, <3>2 DEF Dials
    <3> QED BY <3>1, <3>2
  <2> QED BY <2>1, <2>4, <2>5 DEF FindsNone
<1>7. ASSUME NEW p \in Proc, ListConnections(p) \/ CloseConnection(p) \/ StartClose(p) \/ Die(p)
      PROVE  Keeps /\ FindsNone
  <2>1. UNCHANGED <<tgt, sock, cache>>
    BY <1>7 DEF ListConnections, CloseConnection, StartClose, Die, sendVars
  <2>2. pc'[p] \in {"closing", "closes", "closed", "dead"} /\ \A r \in Proc \ {p} : pc'[r] = pc[r]
    BY <1>0, <1>7 DEF ListConnections, CloseConnection, StartClose, Die, Goto, Inv, TypeOK
  <2>3. ~Listens(p)'
    BY <2>2 DEF Listens
  <2> QED BY <2>1, <2>2, <2>3 DEF Keeps, FindsNone, Dials
<1>8. ASSUME NEW p \in Proc, NEW d \in 1..Len(conns), ReadHello(d, p) PROVE Keeps /\ FindsNone
  <2>1. UNCHANGED <<pc, tgt, sock>>
    BY <1>8 DEF ReadHello, sendVars
  <2>2. \A q, r \in Proc : cache[q][r] # 0 => cache'[q][r] # 0
    <3>1. cache \in [Proc -> [Proc -> Conn \cup {0}]]
      BY <1>0 DEF Inv, TypeOK
    <3>2. UNCHANGED cache \/ cache' = [cache EXCEPT ![p][Head(stream[d][p]).from] = d]
      BY <1>8 DEF ReadHello, Attach
    <3>3. d # 0
      BY <1>0, ConnTypes
    <3> QED BY <3>1, <3>2, <3>3
  <2> QED BY <2>1, <2>2 DEF Keeps, FindsNone, Dials
<1>9. ASSUME NEW p \in Proc, NEW d \in 1..Len(conns), ReadEnd(d, p) PROVE Keeps /\ FindsNone
  <2> DEFINE e == Peer(d, p)
  <2>1. UNCHANGED <<pc, tgt, sock>>
    BY <1>9 DEF ReadEnd, sendVars
  <2>2. e \in Proc /\ Between(d, p, e) /\ ~Whole(d)
    BY <1>0, <1>9, ReadEndIs
  <2>3. \A q, r \in Proc : cache'[q][r] = cache[q][r] \/ (q = p /\ r = e)
    <3>1. cache \in [Proc -> [Proc -> Conn \cup {0}]]
      BY <1>0 DEF Inv, TypeOK
    <3>2. UNCHANGED cache \/ cache' = [cache EXCEPT ![p][e] = 0]
      BY <1>9 DEF ReadEnd
    <3> HIDE DEF e
    <3>3. CASE cache' = [cache EXCEPT ![p][e] = 0]
      <4> SUFFICES ASSUME NEW q \in Proc, NEW r \in Proc
                   PROVE  cache'[q][r] = cache[q][r] \/ (q = p /\ r = e)
        OBVIOUS
      <4>1. CASE q = p /\ r # e
        BY <3>1, <3>3, <4>1
      <4>2. CASE q # p
        BY <3>1, <3>3, <4>2
      <4> QED BY <4>1, <4>2
    <3>4. CASE UNCHANGED cache
      BY <3>4
    <3> QED BY <3>2, <3>3, <3>4
  <2>4. ~Listens(p) \/ ~Listens(e)
    <3>1. ~Listens(conns[d][1]) \/ ~Listens(conns[d][2])
      BY <1>0, <2>2 DEF Broken
    <3>2. {conns[d][1], conns[d][2]} = {p, e}
      BY <1>0, <2>2, PeerIs
    <3> QED BY <3>1, <3>2
  <2> HIDE DEF e
  <2>5. Keeps
    BY <2>1, <2>3, <2>4 DEF Keeps, Dials
  <2> QED BY <2>1, <2>5 DEF FindsNone
<1>10. ASSUME NEW p \in Proc, NEW d \in 1..Len(conns),
              Accept(p) \/ ReadMessage(d, p) \/ ReadTorn(d, p) \/ ReadClosed(d, p)
       PROVE  UNCHANGED <<pc, tgt, sock, cache>>
  BY <1>10 DEF Accept, ReadMessage, ReadTorn, ReadClosed, sendVars
<1>11. ASSUME NEW p \in Proc, Accept(p) PROVE UNCHANGED <<pc, tgt, sock, cache>>
  BY <1>11 DEF Accept, sendVars
<1>12. CASE UNCHANGED vars
  BY <1>1, <1>12 DEF vars, sendVars
<1>13. CASE Next
  <2>1. (Keeps /\ FindsNone) \/ UNCHANGED <<pc, tgt, sock, cache>>
    BY <1>0, <1>2, <1>3, <1>4, <1>5, <1>6, <1>7, <1>8, <1>9, <1>10, <1>11, <1>13, NextIs
  <2> QED BY <1>1, <2>1, RemembersKept
<1> QED BY <1>12, <1>13

LEMMA OnceStep == OnceInv /\ [Next]_vars => OnceInv'
<1> SUFFICES ASSUME OnceInv, [Next]_vars PROVE OnceInv'
  OBVIOUS
<1>0. TruthInv' /\ Inv /\ \A r \in Proc : Listens(r)' => Listens(r)
  BY TruthStep, StaysDeaf DEF OnceInv, TruthInv
<1>1. CASE UNCHANGED conns
  BY <1>0, <1>1, OnceKept DEF OnceInv
<1>2. CASE conns' # conns
  <2>1. PICK p \in Proc :
          /\ pc[p] = "absent" /\ Listens(tgt[p]) /\ tgt[p] \in Proc
          /\ conns' = Append(conns, <<p, tgt[p]>>)
          /\ sock' = [sock EXCEPT ![p] = Len(conns) + 1]
          /\ pc' = [pc EXCEPT ![p] = "hello"]
          /\ UNCHANGED <<tgt, cache>>
    BY <1>0, <1>2, ConnsStep
  <2> DEFINE n == Len(conns) + 1
  <2>2. /\ \A c \in 1..Len(conns) : conns'[c] = conns[c] /\ conns[c] # <<p, tgt[p]>>
        /\ conns'[n] = <<p, tgt[p]>> /\ 1..Len(conns') = 1..Len(conns) \cup {n}
        /\ n \notin 1..Len(conns)
    <3>1. conns \in Seq(Proc \X Proc) /\ <<p, tgt[p]>> \in Proc \X Proc
      BY <1>0, <2>1 DEF Inv, TypeOK
    <3>2. /\ \A c \in 1..Len(conns) : conns'[c] = conns[c]
          /\ conns'[n] = <<p, tgt[p]>> /\ Len(conns') = n /\ Len(conns) \in Nat
      BY <2>1, <3>1, LongerIs
    <3>3. 1..Len(conns') = 1..Len(conns) \cup {n} /\ n \notin 1..Len(conns)
      BY <3>2
    <3> QED BY <2>1, <3>2, <3>3 DEF OnceInv, NotAgain
  <2>3. Once'
    <3> SUFFICES ASSUME NEW c \in 1..Len(conns'), NEW d \in 1..Len(conns'), conns'[c] = conns'[d]
                 PROVE  c = d
      BY DEF Once
    <3> HIDE DEF n
    <3> QED BY <2>2 DEF OnceInv, Once
  <2>4. pc'[p] = "hello" /\ \A r \in Proc \ {p} : pc'[r] = pc[r] /\ sock'[r] = sock[r]
    BY <1>0, <2>1 DEF Inv, TypeOK
  <2>5. sock'[p] = n
    BY <1>0, <2>1 DEF Inv, TypeOK
  <2>6. Remembers'
    <3> SUFFICES ASSUME NEW q \in Proc, NEW r \in Proc, NEW c \in 1..Len(conns'),
                        conns'[c] = <<q, r>>, Listens(q)', Listens(r)'
                 PROVE  cache'[q][r] # 0 \/ Dials(q, c)'
      BY DEF Remembers
    <3>1. CASE c = n
      <4>1. <<q, r>> = <<p, tgt[p]>>
        BY <2>2, <3>1
      <4>2. q = p
        BY <4>1
      <4> QED BY <2>4, <2>5, <3>1, <4>2 DEF Dials
    <3>2. CASE c \in 1..Len(conns)
      <4>1. cache[q][r] # 0 \/ Dials(q, c)
        BY <1>0, <2>2, <3>2 DEF OnceInv, Remembers
      <4>2. Dials(q, c) => Dials(q, c)'
        BY <2>1, <2>4 DEF Dials
      <4> QED BY <2>1, <4>1, <4>2
    <3> QED BY <2>2, <3>1, <3>2
  <2>7. NotAgain'
    <3> SUFFICES ASSUME NEW q \in Proc, pc'[q] = "absent", NEW t, t = tgt'[q], Listens(t)',
                        NEW c \in 1..Len(conns')
                 PROVE  conns'[c] # <<q, t>>
      BY DEF NotAgain, Listens
    <3>1. q # p /\ pc[q] = "absent" /\ t = tgt[q] /\ t \in Proc
      BY <1>0, <2>1, <2>4 DEF Inv, TypeOK
    <3>2. CASE c = n
      <4>1. conns'[c][1] = p
        BY <2>2, <3>2
      <4> QED BY <3>1, <4>1
    <3>3. CASE c \in 1..Len(conns)
      BY <1>0, <2>2, <3>1, <3>3 DEF OnceInv, NotAgain
    <3> QED BY <2>2, <3>2, <3>3
  <2> QED BY <1>0, <2>3, <2>6, <2>7 DEF OnceInv
<1> QED BY <1>1, <1>2

LEMMA AlwaysOnce == Spec => []OnceInv
<1>1. Init /\ TruthInv => OnceInv
  <2> SUFFICES ASSUME Init, TruthInv PROVE OnceInv
    OBVIOUS
  <2>1. Once /\ Remembers /\ NotAgain
    BY DEF Init, Once, Remembers, NotAgain
  <2> QED BY <2>1 DEF OnceInv
<1> QED BY <1>1, OnceStep, AlwaysTruth, PTL DEF Spec

----------------------------------------------------------------------------
(* Order.                                                                   *)

LEMMA CrossedStays ==
    ASSUME Inv, [Next]_vars, NEW p \in Proc, NEW q \in Proc, Crossed(p, q) PROVE Crossed(p, q)'
<1>1. \A c \in 1..Len(conns) : c \in 1..Len(conns') /\ conns'[c] = conns[c]
  BY ConnsGrow
<1>2. DOMAIN conns = 1..Len(conns) /\ DOMAIN conns' = 1..Len(conns')
  BY NextInv DEF Inv, TypeOK
<1> QED BY <1>1, <1>2 DEF Crossed

\* Two that have not connected to each other crosswise have one connection.
LEMMA SoleConnection ==
    ASSUME OnceInv, NEW p \in Proc, NEW q \in Proc, ~Crossed(p, q), NEW c, NEW d,
           Between(c, p, q), Between(d, p, q)
    PROVE  c = d
<1>1. c \in DOMAIN conns /\ d \in DOMAIN conns
  BY ConnTypes DEF Between, OnceInv, TruthInv
<1>2. ~(conns[c] = <<p, q>> /\ conns[d] = <<q, p>>) /\ ~(conns[d] = <<p, q>> /\ conns[c] = <<q, p>>)
  BY <1>1 DEF Crossed
<1> QED BY <1>2 DEF Between, OnceInv, Once

LEMMA CrossedBoth ==
    ASSUME NEW p, NEW q PROVE Crossed(p, q) <=> Crossed(q, p)
BY DEF Crossed

From(m, p) == m.type = "message" /\ m.from = p

Increasing(s, p) ==
    \A i, j \in 1..Len(s) : i < j /\ From(s[i], p) /\ From(s[j], p) => s[i].n < s[j].n
Below(s, p, k) == \A i \in 1..Len(s) : From(s[i], p) => s[i].n <= k
Before(s, t, p) ==
    \A i \in 1..Len(s), j \in 1..Len(t) : From(s[i], p) /\ From(t[j], p) => s[i].n < t[j].n

\* t has no message of p that s does not have, and has them in the same order.
Fewer(t, s, p) ==
    /\ Increasing(s, p) => Increasing(t, p)
    /\ \A k : Below(s, p, k) => Below(t, p, k)
    /\ \A u : Before(s, u, p) => Before(t, u, p)
    /\ \A u : Before(u, s, p) => Before(u, t, p)

LEMMA FewerSame == ASSUME NEW s, NEW t, NEW p, t = s PROVE Fewer(t, s, p)
BY DEF Fewer

LEMMA FewerTail ==
    ASSUME NEW S, NEW s \in Seq(S), s # <<>>, NEW t, t = Tail(s), NEW p PROVE Fewer(t, s, p)
<1>1. /\ Len(s) \in Nat /\ Len(t) = Len(s) - 1
      /\ \A i \in 1..Len(t) : i + 1 \in 1..Len(s) /\ t[i] = s[i + 1]
  BY Rest
<1>2. \A i, j \in 1..Len(t) : i < j => i + 1 < j + 1
  BY <1>1
<1>3. Increasing(s, p) => Increasing(t, p)
  BY <1>1, <1>2 DEF Increasing
<1>4. \A k : Below(s, p, k) => Below(t, p, k)
  BY <1>1 DEF Below
<1>5. \A u : Before(s, u, p) => Before(t, u, p)
  BY <1>1 DEF Before
<1>6. \A u : Before(u, s, p) => Before(u, t, p)
  BY <1>1 DEF Before
<1> QED BY <1>3, <1>4, <1>5, <1>6 DEF Fewer

LEMMA FewerAppend ==
    ASSUME NEW S, NEW s \in Seq(S), NEW m \in S, NEW t, t = Append(s, m), NEW p, ~From(m, p)
    PROVE  Fewer(t, s, p)
<1>1. \A i \in 1..Len(t) : From(t[i], p) => i \in 1..Len(s) /\ t[i] = s[i]
  BY LongerIs
<1>2. Increasing(s, p) => Increasing(t, p)
  BY <1>1 DEF Increasing
<1>3. \A k : Below(s, p, k) => Below(t, p, k)
  BY <1>1 DEF Below
<1>4. \A u : Before(s, u, p) => Before(t, u, p)
  BY <1>1 DEF Before
<1>5. \A u : Before(u, s, p) => Before(u, t, p)
  BY <1>1 DEF Before
<1> QED BY <1>2, <1>3, <1>4, <1>5 DEF Fewer

\* The numbers of p's messages to r go up, from the inbox through the streams to
\* what p has written last.
Ordered(p, r) ==
    /\ Increasing(box[r], p) /\ Below(box[r], p, wrote[p][r])
    /\ \A c \in Conn : /\ Increasing(stream[c][r], p) /\ Below(stream[c][r], p, wrote[p][r])
                       /\ Before(box[r], stream[c][r], p)
Orders == \A p, r \in Proc : Crossed(p, r) \/ Ordered(p, r)
OrderInv == OnceInv /\ Orders

LEMMA OrderedNext ==
    ASSUME NEW p \in Proc, NEW r \in Proc, NEW k, k = wrote'[p][r], NEW b, b = box'[r],
           Increasing(b, p), Below(b, p, k),
           \A c \in Conn : /\ Increasing(stream'[c][r], p) /\ Below(stream'[c][r], p, k)
                           /\ Before(b, stream'[c][r], p)
    PROVE  Ordered(p, r)'
BY DEF Ordered, Increasing, Below, Before, From

LEMMA OrderedFewer ==
    ASSUME NEW p \in Proc, NEW r \in Proc, Ordered(p, r), wrote'[p][r] = wrote[p][r],
           Fewer(box'[r], box[r], p), \A c \in Conn : Fewer(stream'[c][r], stream[c][r], p)
    PROVE  Ordered(p, r)'
<1> DEFINE k == wrote[p][r]
<1>1. Increasing(box'[r], p) /\ Below(box'[r], p, k)
  BY DEF Ordered, Fewer
<1>2. ASSUME NEW c \in Conn
      PROVE  /\ Increasing(stream'[c][r], p) /\ Below(stream'[c][r], p, k)
             /\ Before(box'[r], stream'[c][r], p)
  <2>1. /\ Increasing(stream[c][r], p) /\ Below(stream[c][r], p, k)
        /\ Before(box[r], stream[c][r], p)
    BY DEF Ordered
  <2>2. Before(box'[r], stream[c][r], p)
    BY <2>1 DEF Fewer
  <2> QED BY <2>1, <2>2 DEF Fewer
<1> QED BY <1>1, <1>2, OrderedNext

LEMMA Numbers ==
    ASSUME Inv, NEW r \in Proc
    PROVE  /\ box[r] \in Seq(Letter) /\ \A i \in 1..Len(box[r]) : box[r][i].n \in Int
           /\ \A c \in Conn : /\ stream[c][r] \in Seq(Value)
                              /\ \A i \in 1..Len(stream[c][r]) : stream[c][r][i].n \in Int
<1>1. \A m \in Letter \cup Value : m.n \in Int
  BY DEF Letter, Value
<1>2. box[r] \in Seq(Letter) /\ \A c \in Conn : stream[c][r] \in Seq(Value)
  BY DEF Inv, TypeOK
<1>3. \A i \in 1..Len(box[r]) : box[r][i] \in Letter
  BY <1>2
<1>4. \A c \in Conn : \A i \in 1..Len(stream[c][r]) : stream[c][r][i] \in Value
  BY <1>2
<1> QED BY <1>1, <1>2, <1>3, <1>4

\* What a write does to the order of what one process has from another.
LEMMA WriteOrder ==
    ASSUME Inv, NEW q \in Proc, Write(q), NEW p \in Proc, NEW r \in Proc, Ordered(p, r)
    PROVE  Ordered(p, r)'
<1> DEFINE t == tgt[q]
           k == wrote[p][r]
           n == wrote[q][t] + 1
           m == Message(q, n)
<1>1. /\ t \in Proc /\ n \in Nat /\ m \in Value /\ m.n = n /\ From(m, q)
      /\ \A x : From(m, x) => x = q
      /\ sock[q] \in Conn /\ Between(sock[q], q, t)
  <2>1. /\ Between(sock[q], q, t) /\ t \in Proc /\ pc[q] = "write"
    BY SendEffect DEF Write
  <2>2. wrote[q][t] \in 0..MaxSends /\ wrote[q][t] < sends
    BY <2>1 DEF Inv, TypeOK, Writes, Sending
  <2>3. n \in 0..MaxSends /\ n \in Nat
    BY <2>2, SendTypes
  <2>4. sock[q] \in Conn
    BY <2>1, PeerIs
  <2> QED BY <2>1, <2>3, <2>4 DEF Message, Value, From
<1>2. /\ wrote' = [wrote EXCEPT ![q][t] = n] /\ box' = box
      /\ \/ UNCHANGED stream
         \/ stream' = [stream EXCEPT ![sock[q]][t] = Append(@, m)]
  BY DEF Write, SendValue
<1>3. /\ stream \in [Conn -> [Proc -> Seq(Value)]]
      /\ wrote \in [Proc -> [Proc -> 0..MaxSends]]
  BY DEF Inv, TypeOK
<1>4. \A c \in Conn : \/ stream'[c][r] = stream[c][r]
                      \/ r = t /\ stream'[c][r] = Append(stream[c][r], m)
  <2> SUFFICES ASSUME NEW c \in Conn
               PROVE  \/ stream'[c][r] = stream[c][r]
                      \/ r = t /\ stream'[c][r] = Append(stream[c][r], m)
    OBVIOUS
  <2> HIDE DEF m, t
  <2>1. CASE UNCHANGED stream
    BY <2>1
  <2>2. CASE stream' = [stream EXCEPT ![sock[q]][t] = Append(@, m)]
    <3>1. CASE c = sock[q] /\ r = t
      BY <1>1, <1>3, <2>2, <3>1
    <3>2. CASE c = sock[q] /\ r # t
      BY <1>1, <1>3, <2>2, <3>2
    <3>3. CASE c # sock[q]
      BY <1>1, <1>3, <2>2, <3>3
    <3> QED BY <3>1, <3>2, <3>3
  <2> QED BY <1>2, <2>1, <2>2
<1> HIDE DEF m
<1>5. CASE p # q \/ r # t
  <2>1. wrote'[p][r] = wrote[p][r]
    BY <1>1, <1>2, <1>3, <1>5
  <2>2. ASSUME NEW c \in Conn PROVE Fewer(stream'[c][r], stream[c][r], p)
    <3>1. CASE stream'[c][r] = stream[c][r]
      BY <3>1, FewerSame
    <3>2. CASE r = t /\ stream'[c][r] = Append(stream[c][r], m)
      <4>1. ~From(m, p) /\ stream[c][r] \in Seq(Value)
        BY <1>1, <1>3, <1>5, <3>2
      <4> QED BY <1>1, <3>2, <4>1, FewerAppend
    <3> QED BY <1>4, <3>1, <3>2
  <2>3. Fewer(box'[r], box[r], p)
    BY <1>2, FewerSame
  <2> QED BY <2>1, <2>2, <2>3, OrderedFewer
<1>6. CASE p = q /\ r = t
  <2>1. /\ wrote'[p][r] = n /\ n = k + 1 /\ k \in Nat
    BY <1>1, <1>2, <1>3, <1>6
  <2> HIDE DEF n, k
  <2>2. Increasing(box[r], p) /\ Below(box[r], p, k) /\ box'[r] = box[r]
    BY <1>2 DEF Ordered, k
  <2>3. Below(box[r], p, n) /\ \A i \in 1..Len(box[r]) : From(box[r][i], p) => box[r][i].n < n
    BY <2>1, <2>2, Numbers DEF Below
  <2>4. ASSUME NEW c \in Conn
        PROVE  /\ Increasing(stream'[c][r], p) /\ Below(stream'[c][r], p, n)
               /\ Before(box[r], stream'[c][r], p)
    <3> DEFINE s == stream[c][r]
               u == stream'[c][r]
    <3>1. /\ Increasing(s, p) /\ Below(s, p, k) /\ Before(box[r], s, p)
      BY DEF Ordered, k
    <3>2. s \in Seq(Value) /\ \A i \in 1..Len(s) : s[i].n \in Int
      BY Numbers
    <3>3. Below(s, p, n) /\ \A i \in 1..Len(s) : From(s[i], p) => s[i].n < n
      BY <2>1, <3>1, <3>2 DEF Below
    <3>4. CASE u = s
      BY <3>1, <3>3, <3>4
    <3>5. CASE u = Append(s, m)
      <4>1. \A i \in 1..Len(u) : \/ i \in 1..Len(s) /\ u[i] = s[i]
                                 \/ i = Len(s) + 1 /\ u[i] = m
        <5>1. m \in Value
          BY <1>1
        <5> HIDE DEF s, u
        <5> QED BY <3>2, <3>5, <5>1, LongerIs
      <4>2. Len(s) \in Nat /\ m.n = n
        BY <1>1, <3>2
      <4> HIDE DEF s, u
      <4>3. Increasing(u, p)
        <5> SUFFICES ASSUME NEW i \in 1..Len(u), NEW j \in 1..Len(u), i < j,
                            From(u[i], p), From(u[j], p)
                     PROVE  u[i].n < u[j].n
          BY DEF Increasing
        <5>1. i \in 1..Len(s) /\ u[i] = s[i]
          BY <4>1, <4>2
        <5>2. CASE j \in 1..Len(s) /\ u[j] = s[j]
          BY <3>1, <5>1, <5>2 DEF Increasing
        <5>3. CASE u[j] = m
          BY <3>3, <4>2, <5>1, <5>3
        <5> QED BY <4>1, <5>2, <5>3
      <4>4. Below(u, p, n)
        BY <2>1, <3>3, <4>1, <4>2 DEF Below
      <4>5. Before(box[r], u, p)
        BY <2>3, <3>1, <4>1, <4>2 DEF Before
      <4> QED BY <4>3, <4>4, <4>5 DEF u
    <3> QED BY <1>4, <3>4, <3>5
  <2> QED BY <2>1, <2>2, <2>3, <2>4, OrderedNext
<1> QED BY <1>5, <1>6

\* What r reads from a connection has a higher number than what it has, and a
\* lower one than what is left.
LEMMA ReadOrder ==
    ASSUME OnceInv, NEW p \in Proc, NEW r \in Proc, Ordered(p, r), ~Crossed(p, r),
           NEW c \in 1..Len(conns), ReadMessage(c, r), From(Head(stream[c][r]), p)
    PROVE  Ordered(p, r)'
<1> DEFINE k == wrote[p][r]
           s == stream[c][r]
           m == Head(s)
           b == box[r]
           u == box'[r]
<1>0. Inv
  BY DEF OnceInv, TruthInv
<1>1. /\ c \in Conn /\ s # <<>> /\ m \in Letter /\ m = s[1] /\ 1 \in 1..Len(s)
      /\ Between(c, r, p) /\ stream' = [stream EXCEPT ![c][r] = Tail(@)]
  BY <1>0, ReadMessageTypes DEF From
<1>2. u = Append(b, m) /\ wrote'[p][r] = k
  BY <1>0 DEF ReadMessage, Inv, TypeOK
<1>3. /\ b \in Seq(Letter) /\ \A i \in 1..Len(b) : b[i].n \in Int
      /\ \A d \in Conn : /\ stream[d][r] \in Seq(Value)
                         /\ \A i \in 1..Len(stream[d][r]) : stream[d][r][i].n \in Int
  BY <1>0, Numbers
<1>4. /\ Increasing(b, p) /\ Below(b, p, k)
      /\ \A d \in Conn : /\ Increasing(stream[d][r], p) /\ Below(stream[d][r], p, k)
                         /\ Before(b, stream[d][r], p)
  BY DEF Ordered
<1>5. stream'[c][r] = Tail(s) /\ \A d \in Conn \ {c} : stream'[d][r] = stream[d][r]
  BY <1>0, <1>1 DEF Inv, TypeOK
<1>6. \A i \in 1..Len(u) : \/ i \in 1..Len(b) /\ u[i] = b[i]
                           \/ i = Len(b) + 1 /\ u[i] = m
  <2> HIDE DEF m, u, b
  <2> QED BY <1>1, <1>2, <1>3, LongerIs
<1>7. Len(b) \in Nat /\ \A i \in 1..Len(b) : From(b[i], p) => b[i].n < m.n
  BY <1>1, <1>3, <1>4 DEF Before
<1>8. From(m, p) /\ m.n <= k
  BY <1>1, <1>4 DEF Below
<1>9. \A d \in Conn \ {c} : \A i \in 1..Len(stream[d][r]) : ~From(stream[d][r][i], p)
  <2> SUFFICES ASSUME NEW d \in Conn \ {c}, NEW i \in 1..Len(stream[d][r]),
                      From(stream[d][r][i], p)
               PROVE  FALSE
    OBVIOUS
  <2>1. Between(d, r, p)
    BY <1>0 DEF Inv, Linked, From
  <2> QED BY <1>1, <2>1, SoleConnection, CrossedBoth
<1>10. /\ Len(s) \in Nat /\ Len(Tail(s)) = Len(s) - 1
       /\ \A i \in 1..Len(Tail(s)) : i + 1 \in 1..Len(s) /\ Tail(s)[i] = s[i + 1]
  <2> HIDE DEF s
  <2> QED BY <1>1, <1>3, Rest DEF s
<1> HIDE DEF k, s, m, b, u
<1>11. Increasing(u, p)
  BY <1>4, <1>6, <1>7 DEF Increasing
<1>12. Below(u, p, k)
  BY <1>4, <1>6, <1>8 DEF Below
<1>13. ASSUME NEW d \in Conn
       PROVE  /\ Increasing(stream'[d][r], p) /\ Below(stream'[d][r], p, k)
              /\ Before(u, stream'[d][r], p)
  <2>1. CASE d = c
    <3>1. Fewer(Tail(s), s, p)
      BY <1>1, <1>3, FewerTail DEF s
    <3>2. Increasing(s, p) /\ Below(s, p, k) /\ Before(b, s, p)
      BY <1>1, <1>4 DEF s
    <3>3. \A j \in 1..Len(Tail(s)) : From(Tail(s)[j], p) => m.n < Tail(s)[j].n
      <4> SUFFICES ASSUME NEW j \in 1..Len(Tail(s)), From(Tail(s)[j], p)
                   PROVE  m.n < Tail(s)[j].n
        OBVIOUS
      <4>1. j + 1 \in 1..Len(s) /\ Tail(s)[j] = s[j + 1] /\ 1 < j + 1
        BY <1>10
      <4> QED BY <1>1, <1>8, <3>2, <4>1 DEF Increasing
    <3>4. Before(b, Tail(s), p)
      BY <3>1, <3>2 DEF Fewer
    <3>5. Before(u, Tail(s), p)
      BY <1>6, <3>3, <3>4 DEF Before
    <3> QED BY <1>5, <2>1, <3>1, <3>2, <3>5 DEF Fewer
  <2>2. CASE d # c
    <3>1. Before(u, stream[d][r], p)
      BY <1>9, <2>2 DEF Before
    <3> QED BY <1>4, <1>5, <2>2, <3>1
  <2> QED BY <2>1, <2>2
<1>14. wrote'[p][r] = k
  BY <1>2
<1> QED BY <1>11, <1>12, <1>13, <1>14, OrderedNext DEF u

\* The steps that write and read no message from p to r.
LEMMA OtherOrder ==
    ASSUME Inv, [Next]_vars, NEW p \in Proc, NEW r \in Proc, Ordered(p, r),
           \A q \in Proc : ~Write(q),
           \A c \in 1..Len(conns) : ReadMessage(c, r) => ~From(Head(stream[c][r]), p)
    PROVE  Ordered(p, r)'
<1>0. /\ box[r] \in Seq(Letter) /\ \A c \in Conn : stream[c][r] \in Seq(Value)
      /\ stream \in [Conn -> [Proc -> Seq(Value)]]
  BY DEF Inv, TypeOK
<1>1. Fewer(box'[r], box[r], p)
  <2>1. CASE box'[r] = box[r]
    BY <2>1, FewerSame
  <2>2. ASSUME NEW c \in 1..Len(conns), ReadMessage(c, r),
               box'[r] = Append(box[r], Head(stream[c][r]))
        PROVE  Fewer(box'[r], box[r], p)
    <3>1. Head(stream[c][r]) \in Letter /\ ~From(Head(stream[c][r]), p)
      BY <2>2, ReadMessageTypes
    <3> QED BY <1>0, <2>2, <3>1, FewerAppend
  <2>3. ASSUME NEW c \in 1..Len(conns), ReadEnd(c, r), box'[r] = Append(box[r], Gone(Peer(c, r)))
        PROVE  Fewer(box'[r], box[r], p)
    <3>1. Gone(Peer(c, r)) \in Letter
      BY <2>3, ReadEndIs
    <3>2. ~From(Gone(Peer(c, r)), p)
      BY DEF Gone, From
    <3> QED BY <1>0, <2>3, <3>1, <3>2, FewerAppend
  <2> QED BY <2>1, <2>2, <2>3, BoxStep DEF Fills
<1>2. wrote' = wrote /\ \A c \in Conn : Fewer(stream'[c][r], stream[c][r], p)
  <2>1. CASE UNCHANGED <<wrote, stream>>
    BY <2>1, FewerSame
  <2>2. ASSUME NEW q \in Proc, SayHello(q)
        PROVE  wrote' = wrote /\ \A c \in Conn : Fewer(stream'[c][r], stream[c][r], p)
    <3> DEFINE h == Hello(q)
    <3>1. /\ h \in Value /\ ~From(h, p) /\ wrote' = wrote
          /\ UNCHANGED stream \/ stream' = [stream EXCEPT ![sock[q]][tgt[q]] = Append(@, h)]
      BY <2>2, SendTypes DEF Hello, Value, From, SayHello, SendValue
    <3>2. Between(sock[q], q, tgt[q]) /\ tgt[q] \in Proc
      BY <2>2, SendEffect
    <3>3. sock[q] \in Conn
      BY <3>2, PeerIs
    <3> HIDE DEF h
    <3>4. ASSUME NEW c \in Conn PROVE Fewer(stream'[c][r], stream[c][r], p)
      <4>1. CASE stream'[c][r] = stream[c][r]
        BY <4>1, FewerSame
      <4>2. CASE stream' = [stream EXCEPT ![sock[q]][tgt[q]] = Append(@, h)]
        <5>1. CASE c = sock[q] /\ r = tgt[q]
          <6>1. stream'[c][r] = Append(stream[c][r], h)
            BY <1>0, <3>2, <3>3, <4>2, <5>1
          <6> QED BY <1>0, <3>1, <6>1, FewerAppend
        <5>2. CASE c = sock[q] /\ r # tgt[q]
          <6>1. stream'[c][r] = stream[c][r]
            BY <1>0, <3>2, <3>3, <4>2, <5>2
          <6> QED BY <4>1, <6>1
        <5>3. CASE c # sock[q]
          <6>1. stream'[c][r] = stream[c][r]
            BY <1>0, <3>2, <3>3, <4>2, <5>3
          <6> QED BY <4>1, <6>1
        <5> QED BY <5>1, <5>2, <5>3
      <4> QED BY <3>1, <4>1, <4>2
    <3> QED BY <3>1, <3>4
  <2>3. ASSUME NEW q \in Proc, NEW d \in 1..Len(conns), ReadMessage(d, q) \/ ReadHello(d, q)
        PROVE  wrote' = wrote /\ \A c \in Conn : Fewer(stream'[c][r], stream[c][r], p)
    <3>1. /\ wrote' = wrote
          /\ \/ UNCHANGED stream
             \/ stream[d][q] # <<>> /\ stream' = [stream EXCEPT ![d][q] = Tail(@)]
      BY <2>3 DEF ReadMessage, ReadHello
    <3>2. d \in Conn
      BY ConnTypes
    <3>3. ASSUME NEW c \in Conn PROVE Fewer(stream'[c][r], stream[c][r], p)
      <4>1. CASE stream'[c][r] = stream[c][r]
        BY <4>1, FewerSame
      <4>2. CASE stream[d][q] # <<>> /\ stream' = [stream EXCEPT ![d][q] = Tail(@)]
        <5>1. CASE c = d /\ r = q
          <6>1. stream'[c][r] = Tail(stream[c][r])
            BY <1>0, <3>2, <4>2, <5>1
          <6> QED BY <1>0, <4>2, <5>1, <6>1, FewerTail
        <5>2. CASE c = d /\ r # q
          <6>1. stream'[c][r] = stream[c][r]
            BY <1>0, <3>2, <4>2, <5>2
          <6> QED BY <4>1, <6>1
        <5>3. CASE c # d
          <6>1. stream'[c][r] = stream[c][r]
            BY <1>0, <3>2, <4>2, <5>3
          <6> QED BY <4>1, <6>1
        <5> QED BY <5>1, <5>2, <5>3
      <4> QED BY <3>1, <4>1, <4>2
    <3> QED BY <3>1, <3>3
  <2>4. ASSUME NEW q \in Proc, NEW t \in Proc,
               \/ StartSend(q, t) \/ GetCached(q) \/ Connect(q) \/ AttachConnected(q)
               \/ ListConnections(q) \/ CloseConnection(q) \/ StartClose(q) \/ Accept(q) \/ Die(q)
        PROVE  UNCHANGED <<wrote, stream>>
    BY <2>4 DEF StartSend, GetCached, Connect, AttachConnected, ListConnections,
       CloseConnection, StartClose, Accept, Die
  <2>5. ASSUME NEW q \in Proc, NEW d \in 1..Len(conns), ReadEnd(d, q) \/ ReadTorn(d, q) \/ ReadClosed(d, q)
        PROVE  UNCHANGED <<wrote, stream>>
    BY <2>5 DEF ReadEnd, ReadTorn, ReadClosed
  <2>6. CASE UNCHANGED vars
    BY <2>1, <2>6 DEF vars
  <2>7. CASE Next
    <3>1. PICK q \in Proc :
            \/ \E t \in Proc : StartSend(q, t)
            \/ GetCached(q) \/ Connect(q) \/ SayHello(q) \/ AttachConnected(q) \/ Write(q)
            \/ ListConnections(q) \/ CloseConnection(q) \/ StartClose(q) \/ Accept(q) \/ Die(q)
            \/ \E c \in 1..Len(conns) :
                 ReadHello(c, q) \/ ReadMessage(c, q) \/ ReadEnd(c, q) \/ ReadTorn(c, q) \/ ReadClosed(c, q)
      BY <2>7, NextIs
    <3> QED BY <2>1, <2>2, <2>3, <2>4, <2>5, <3>1
  <2> QED BY <2>6, <2>7
<1> QED BY <1>1, <1>2, OrderedFewer

LEMMA OrderStep == OrderInv /\ [Next]_vars => OrderInv'
<1> SUFFICES ASSUME OrderInv, [Next]_vars PROVE OrderInv'
  OBVIOUS
<1>1. OnceInv /\ OnceInv' /\ Inv
  BY OnceStep DEF OrderInv, OnceInv, TruthInv
<1>2. ASSUME NEW p \in Proc, NEW r \in Proc, ~Crossed(p, r)' PROVE Ordered(p, r)'
  <2>1. ~Crossed(p, r)
    BY <1>1, <1>2, CrossedStays
  <2>2. Ordered(p, r)
    BY <2>1 DEF OrderInv, Orders
  <2>3. CASE \E q \in Proc : Write(q)
    BY <1>1, <2>2, <2>3, WriteOrder
  <2>4. CASE \E c \in 1..Len(conns) : ReadMessage(c, r) /\ From(Head(stream[c][r]), p)
    BY <1>1, <2>1, <2>2, <2>4, ReadOrder
  <2> QED BY <1>1, <2>2, <2>3, <2>4, OtherOrder
<1>3. Orders'
  BY <1>2 DEF Orders
<1> QED BY <1>1, <1>3 DEF OrderInv

LEMMA AlwaysOrder == Spec => []OrderInv
<1>1. Init /\ OnceInv => OrderInv
  <2> SUFFICES ASSUME Init, OnceInv PROVE OrderInv
    OBVIOUS
  <2>1. \A p \in Proc : box[p] = <<>> /\ \A c \in Conn : stream[c][p] = <<>>
    BY DEF Init
  <2>2. Orders
    BY <2>1 DEF Orders, Ordered, Increasing, Below, Before
  <2> QED BY <2>2 DEF OrderInv
<1> QED BY <1>1, OrderStep, AlwaysOnce, PTL DEF Spec

\* What one process has sent to another comes in the order in which it was sent,
\* as long as the two have not connected to each other crosswise: there is one
\* connection between them then, and no second one when it breaks.
THEOREM OrderUncrossedCorrect == Spec => []OrderUncrossed
<1>1. OrderInv => OrderUncrossed
  <2> SUFFICES ASSUME OrderInv, NEW p \in Proc, NEW r \in Proc, ~Crossed(p, r),
                      NEW i \in DOMAIN box[r], NEW j \in DOMAIN box[r], i < j,
                      box[r][i].from = p, box[r][j].from = p,
                      box[r][i].type = "message", box[r][j].type = "message"
               PROVE  box[r][i].n < box[r][j].n
    BY DEF OrderUncrossed
  <2>1. Increasing(box[r], p)
    BY DEF OrderInv, Orders, Ordered
  <2>2. DOMAIN box[r] = 1..Len(box[r])
    BY DEF OrderInv, OnceInv, TruthInv, Inv, TypeOK
  <2> QED BY <2>1, <2>2 DEF Increasing, From
<1> QED BY AlwaysOrder, <1>1, PTL

----------------------------------------------------------------------------
(* The last notice.                                                         *)

\* p was told that q has disconnected.
GoneIn(p, q) ==
    \E i \in 1..Len(box[p]) : box[p][i].type = "client-disconnected" /\ box[p][i].from = q
\* No thread of p reads what comes from q then, nor will one.
Over(c, p) ==
    /\ <<c, p>> \notin readers /\ ~Dials(p, c)
    /\ p = conns[c][2] => accepted[c] \in {"attached", "late"}
Finished ==
    \A p, q \in Proc : GoneIn(p, q) /\ ~Crossed(p, q) =>
        \A c \in 1..Len(conns) : Between(c, p, q) => Over(c, p)
LastInv == OnceInv /\ Finished /\ GoneLast

\* What nobody reads any more stays so.
LEMMA OverStays ==
    ASSUME Inv, [Next]_vars, NEW p \in Proc, NEW c \in 1..Len(conns), Over(c, p)
    PROVE  Over(c, p)'
<1>0. /\ c \in Conn /\ Len(conns) \in Nat /\ conns'[c] = conns[c]
      /\ accepted \in [Conn -> {"no", "handshake", "attached", "late"}]
  BY ConnTypes, ConnsGrow DEF Inv, TypeOK
<1>1. ASSUME <<c, p>> \notin readers', Dials(p, c)' => Dials(p, c), accepted'[c] = accepted[c]
      PROVE  Over(c, p)'
  BY <1>0, <1>1 DEF Over
<1>2. CASE UNCHANGED <<pc, sock, readers, accepted>>
  BY <1>1, <1>2 DEF Over, Dials
<1>3. ASSUME NEW q \in Proc, NEW t \in Proc, StartSend(q, t) \/ GetCached(q)
      PROVE  Over(c, p)'
  <2>1. UNCHANGED <<readers, accepted>> /\ pc'[q] \notin {"hello", "attach"}
    BY <1>3 DEF StartSend, GetCached, Goto, Inv, TypeOK
  <2>2. \A r \in Proc \ {q} : pc'[r] = pc[r] /\ sock'[r] = sock[r]
    BY <1>3 DEF StartSend, GetCached, Goto, Inv, TypeOK
  <2> QED BY <1>1, <2>1, <2>2 DEF Over, Dials
<1>4. ASSUME NEW q \in Proc, Connect(q) PROVE Over(c, p)'
  <2>1. UNCHANGED <<readers, accepted>>
    BY <1>4 DEF Connect
  <2>2. \A r \in Proc \ {q} : pc'[r] = pc[r] /\ sock'[r] = sock[r]
    BY <1>4 DEF Connect, Goto, Inv, TypeOK
  <2>3. pc'[q] = "idle" \/ sock'[q] = Len(conns) + 1
    BY <1>4 DEF Connect, Goto, Inv, TypeOK
  <2>4. c # Len(conns) + 1
    BY <1>0
  <2> QED BY <1>1, <2>1, <2>2, <2>3, <2>4 DEF Over, Dials
<1>5. ASSUME NEW q \in Proc, SayHello(q) \/ Write(q) PROVE Over(c, p)'
  <2>1. /\ UNCHANGED <<readers, accepted, sock>> /\ \A r \in Proc \ {q} : pc'[r] = pc[r]
        /\ pc'[q] \in {"attach", "idle"} /\ (pc'[q] = "attach" => pc[q] = "hello")
    BY <1>5, SendEffect
  <2> QED BY <1>1, <2>1 DEF Over, Dials
<1>6. ASSUME NEW q \in Proc, AttachConnected(q) PROVE Over(c, p)'
  <2>1. /\ readers' = readers \cup {<<sock[q], q>>} /\ UNCHANGED <<accepted, sock>> /\ Dials(q, sock[q])
        /\ pc'[q] = "write" /\ \A r \in Proc \ {q} : pc'[r] = pc[r]
    BY <1>6 DEF AttachConnected, Attach, Goto, Dials, sendVars, Inv, TypeOK
  <2>2. <<c, p>> # <<sock[q], q>>
    BY <2>1 DEF Over
  <2> QED BY <1>1, <2>1, <2>2 DEF Over, Dials
<1>7. ASSUME NEW q \in Proc, ListConnections(q) \/ CloseConnection(q) \/ StartClose(q) \/ Die(q)
      PROVE  Over(c, p)'
  <2>1. UNCHANGED <<sock, accepted>> /\ readers' \subseteq readers
    BY <1>7 DEF ListConnections, CloseConnection, StartClose, Die, sendVars
  <2>2. pc'[q] \notin {"hello", "attach"} /\ \A r \in Proc \ {q} : pc'[r] = pc[r]
    BY <1>7 DEF ListConnections, CloseConnection, StartClose, Die, Goto, Inv, TypeOK
  <2> QED BY <1>1, <2>1, <2>2 DEF Over, Dials
<1>8. ASSUME NEW q \in Proc, Accept(q) PROVE Over(c, p)'
  <2>1. PICK d \in DOMAIN conns :
          accepted[d] = "no" /\ conns[d][2] = q /\ accepted' = [accepted EXCEPT ![d] = "handshake"]
    BY <1>8 DEF Accept
  <2>2. UNCHANGED <<pc, sock, readers>>
    BY <1>8 DEF Accept, sendVars
  <2>3. p = conns[c][2] => accepted'[c] = accepted[c]
    BY <1>0, <2>1 DEF Over
  <2> QED BY <1>0, <2>2, <2>3 DEF Over, Dials
<1>9. ASSUME NEW q \in Proc, NEW d \in 1..Len(conns), ReadHello(d, q) PROVE Over(c, p)'
  <2>1. /\ UNCHANGED <<pc, sock>> /\ readers' \subseteq readers \cup {<<d, q>>}
        /\ conns[d][2] = q /\ accepted[d] = "handshake"
        /\ \E at \in {"late", "attached"} : accepted' = [accepted EXCEPT ![d] = at]
    BY <1>9 DEF ReadHello, Attach, sendVars
  <2>2. <<c, p>> # <<d, q>>
    BY <2>1 DEF Over
  <2>3. accepted'[c] = accepted[c] \/ accepted'[c] \in {"late", "attached"}
    BY <1>0, <2>1
  <2> QED BY <1>0, <2>1, <2>2, <2>3 DEF Over, Dials
<1>10. ASSUME NEW q \in Proc, NEW d \in 1..Len(conns),
              ReadMessage(d, q) \/ ReadEnd(d, q) \/ ReadTorn(d, q) \/ ReadClosed(d, q)
       PROVE  Over(c, p)'
  <2>1. UNCHANGED <<pc, sock, accepted>> /\ readers' \subseteq readers
    BY <1>10 DEF ReadMessage, ReadEnd, ReadTorn, ReadClosed, sendVars
  <2> QED BY <1>1, <2>1 DEF Over, Dials
<1>11. CASE UNCHANGED vars
  BY <1>2, <1>11 DEF vars, sendVars
<1>12. CASE Next
  <2>1. PICK q \in Proc :
          \/ \E t \in Proc : StartSend(q, t)
          \/ GetCached(q) \/ Connect(q) \/ SayHello(q) \/ AttachConnected(q) \/ Write(q)
          \/ ListConnections(q) \/ CloseConnection(q) \/ StartClose(q) \/ Accept(q) \/ Die(q)
          \/ \E d \in 1..Len(conns) :
               ReadHello(d, q) \/ ReadMessage(d, q) \/ ReadEnd(d, q) \/ ReadTorn(d, q) \/ ReadClosed(d, q)
    BY <1>12, NextIs
  <2> QED BY <1>3, <1>4, <1>5, <1>6, <1>7, <1>8, <1>9, <1>10, <2>1
<1> QED BY <1>11, <1>12

\* A reader thread that ends is the last.
LEMMA OverAfterEnd ==
    ASSUME Inv, NEW p \in Proc, NEW c \in 1..Len(conns), ReadEnd(c, p) PROVE Over(c, p)'
<1>1. <<c, p>> \in readers /\ <<c, p>>[1] = c /\ <<c, p>>[2] = p
  BY ReadEndIs
<1>2. ~Dials(p, c) /\ (p = conns[c][2] => accepted[c] \in {"attached", "late"})
  BY <1>1 DEF Inv, Greets
<1>3. readers' = readers \ {<<c, p>>} /\ UNCHANGED <<pc, sock, conns, accepted>>
  BY DEF ReadEnd, sendVars
<1> QED BY <1>2, <1>3 DEF Over, Dials

\* What was told before a step, and what is told by it.
LEMMA GoneStep ==
    ASSUME Inv, [Next]_vars, NEW p \in Proc, NEW q \in Proc, GoneIn(p, q)'
    PROVE  \/ GoneIn(p, q)
           \/ \E c \in 1..Len(conns) : ReadEnd(c, p) /\ Peer(c, p) = q
<1>1. PICK i \in 1..Len(box'[p]) : box'[p][i].type = "client-disconnected" /\ box'[p][i].from = q
  BY DEF GoneIn
<1>2. box[p] \in Seq(Letter)
  BY DEF Inv, TypeOK
<1>3. CASE box'[p] = box[p]
  BY <1>1, <1>3 DEF GoneIn
<1>4. ASSUME NEW c \in 1..Len(conns), ReadMessage(c, p),
             box'[p] = Append(box[p], Head(stream[c][p]))
      PROVE  GoneIn(p, q)
  <2>1. Head(stream[c][p]) \in Letter /\ Head(stream[c][p]).type = "message"
    BY <1>4, ReadMessageTypes
  <2>2. i \in 1..Len(box[p]) /\ box'[p][i] = box[p][i]
    BY <1>1, <1>2, <1>4, <2>1, LongerIs
  <2> QED BY <1>1, <2>2 DEF GoneIn
<1>5. ASSUME NEW c \in 1..Len(conns), ReadEnd(c, p), box'[p] = Append(box[p], Gone(Peer(c, p)))
      PROVE  GoneIn(p, q) \/ Peer(c, p) = q
  <2>1. Gone(Peer(c, p)) \in Letter
    BY <1>5, ReadEndIs
  <2>2. (i \in 1..Len(box[p]) /\ box'[p][i] = box[p][i]) \/ box'[p][i] = Gone(Peer(c, p))
    BY <1>1, <1>2, <1>5, <2>1, LongerIs
  <2> QED BY <1>1, <2>2 DEF GoneIn, Gone
<1> QED BY <1>3, <1>4, <1>5, BoxStep DEF Fills

LEMMA FinishedStep == OnceInv /\ Finished /\ [Next]_vars => Finished'
<1> SUFFICES ASSUME OnceInv, Finished, [Next]_vars, NEW p \in Proc, NEW q \in Proc,
                    GoneIn(p, q)', ~Crossed(p, q)',
                    NEW c \in 1..Len(conns'), Between(c, p, q)'
             PROVE  Over(c, p)'
  BY DEF Finished
<1>0. /\ Inv /\ Broken /\ GoneTruthful /\ GoneTruthful' /\ ~Crossed(p, q)
      /\ box'[p] \in Seq(Letter)
  BY CrossedStays, OnceStep DEF OnceInv, TruthInv, Inv, TypeOK
<1>1. CASE c \in 1..Len(conns)
  <2>1. Between(c, p, q)
    BY <1>0, <1>1, ConnsGrow DEF Between
  <2>2. CASE GoneIn(p, q)
    BY <1>0, <1>1, <2>1, <2>2, OverStays DEF Finished
  <2>3. ASSUME NEW d \in 1..Len(conns), ReadEnd(d, p), Peer(d, p) = q PROVE Over(c, p)'
    <3>1. Between(d, p, q)
      BY <1>0, <2>3, ReadEndIs
    <3>2. d = c
      BY <1>0, <2>1, <3>1, SoleConnection
    <3> QED BY <1>0, <2>3, <3>2, OverAfterEnd
  <2> QED BY <1>0, <2>2, <2>3, GoneStep
<1>2. CASE c \notin 1..Len(conns)
  <2>1. PICK a \in Proc :
          /\ pc[a] = "absent" /\ Listens(tgt[a]) /\ tgt[a] \in Proc
          /\ conns' = Append(conns, <<a, tgt[a]>>)
          /\ pc' = [pc EXCEPT ![a] = "hello"]
    BY <1>0, <1>2, ConnsStep
  <2>2. c = Len(conns) + 1 /\ conns'[c] = <<a, tgt[a]>>
    <3>1. conns \in Seq(Proc \X Proc) /\ <<a, tgt[a]>> \in Proc \X Proc
      BY <1>0, <2>1 DEF Inv, TypeOK
    <3> QED BY <1>2, <2>1, <3>1, LongerIs
  <2>3. \/ p = a /\ q = tgt[a]
        \/ q = a /\ p = tgt[a]
    BY <2>2 DEF Between
  <2>4. \A r \in Proc : Listens(r) => Listens(r)'
    BY <1>0, <2>1 DEF Listens, Inv, TypeOK
  <2>5. Listens(a) /\ Listens(p)' /\ Listens(q)'
    BY <2>1, <2>3, <2>4 DEF Listens
  <2>6. PICK i \in 1..Len(box'[p]) :
          box'[p][i].type = "client-disconnected" /\ box'[p][i].from = q
    BY DEF GoneIn
  <2>7. ~Listens(p)' \/ ~Listens(q)'
    <3>1. i \in DOMAIN box'[p]
      BY <1>0, <2>6
    <3>2. ~Listens(p)' \/ ~Listens(box[p][i].from)'
      BY <1>0, <2>6, <3>1 DEF GoneTruthful
    <3> QED BY <2>6, <3>2 DEF Listens
  <2> QED BY <2>5, <2>7
<1> QED BY <1>1, <1>2

\* Nothing comes from q behind a notice.
LEMMA NoMore ==
    ASSUME OnceInv, Finished, NEW p \in Proc, NEW q \in Proc, GoneIn(p, q), ~Crossed(p, q),
           NEW c \in 1..Len(conns), <<c, p>> \in readers, Between(c, p, q)
    PROVE  FALSE
BY DEF Finished, Over

LEMMA GoneLastStep == LastInv /\ [Next]_vars => GoneLast'
<1> SUFFICES ASSUME LastInv, [Next]_vars, NEW p \in Proc,
                    NEW i \in DOMAIN box'[p], NEW j \in DOMAIN box'[p],
                    box'[p][i].type = "client-disconnected", i < j,
                    box'[p][i].from = box'[p][j].from,
                    NEW q, q = box'[p][i].from
             PROVE  Crossed(p, q)'
  BY DEF GoneLast, Crossed
<1>0. /\ Inv /\ Inv' /\ OnceInv /\ Finished /\ GoneLast
      /\ box[p] \in Seq(Letter) /\ box'[p] \in Seq(Letter)
      /\ i \in 1..Len(box'[p]) /\ j \in 1..Len(box'[p])
  <2>1. Inv /\ Inv' /\ OnceInv /\ Finished /\ GoneLast
    BY NextInv DEF LastInv, OnceInv, TruthInv
  <2>2. box[p] \in Seq(Letter) /\ box'[p] \in Seq(Letter)
    BY <2>1 DEF Inv, TypeOK
  <2> QED BY <2>1, <2>2
<1>1. q \in Proc
  <2>1. box'[p][i] \in Letter
    BY <1>0
  <2> QED BY <2>1 DEF Letter
<1>2. ASSUME i \in 1..Len(box[p]), j \in 1..Len(box[p]),
             box'[p][i] = box[p][i], box'[p][j] = box[p][j]
      PROVE  Crossed(p, q)'
  <2>1. Crossed(p, q)
    BY <1>0, <1>2 DEF GoneLast
  <2> QED BY <1>0, <1>1, <2>1, CrossedStays
<1>3. ASSUME NEW c \in 1..Len(conns), <<c, p>> \in readers, NEW m \in Letter,
             box'[p] = Append(box[p], m), Between(c, p, m.from)
      PROVE  Crossed(p, q)'
  <2>1. /\ i \in 1..Len(box[p]) /\ box'[p][i] = box[p][i]
        /\ \/ j \in 1..Len(box[p]) /\ box'[p][j] = box[p][j]
           \/ j = Len(box[p]) + 1 /\ box'[p][j] = m
    <3>1. /\ Len(box[p]) \in Nat /\ Len(box'[p]) = Len(box[p]) + 1
          /\ \A k \in 1..Len(box[p]) : box'[p][k] = box[p][k]
          /\ box'[p][Len(box[p]) + 1] = m
      BY <1>0, <1>3, LongerIs
    <3>2. i \in 1..Len(box[p])
      BY <1>0, <3>1
    <3> QED BY <1>0, <3>1, <3>2
  <2>2. CASE j \in 1..Len(box[p]) /\ box'[p][j] = box[p][j]
    BY <1>2, <2>1, <2>2
  <2>3. CASE box'[p][j] = m
    <3>1. GoneIn(p, q) /\ m.from = q
      BY <2>1, <2>3 DEF GoneIn
    <3>2. Crossed(p, q)
      BY <1>0, <1>1, <1>3, <3>1, NoMore
    <3> QED BY <1>0, <1>1, <3>2, CrossedStays
  <2> QED BY <2>1, <2>2, <2>3
<1>4. CASE box'[p] = box[p]
  BY <1>0, <1>2, <1>4
<1>5. ASSUME NEW c \in 1..Len(conns), ReadMessage(c, p),
             box'[p] = Append(box[p], Head(stream[c][p]))
      PROVE  Crossed(p, q)'
  BY <1>0, <1>3, <1>5, ReadMessageTypes
<1>6. ASSUME NEW c \in 1..Len(conns), ReadEnd(c, p), box'[p] = Append(box[p], Gone(Peer(c, p)))
      PROVE  Crossed(p, q)'
  <2>1. /\ Gone(Peer(c, p)) \in Letter /\ <<c, p>> \in readers
        /\ Between(c, p, Gone(Peer(c, p)).from)
    BY <1>0, <1>6, ReadEndIs DEF Gone
  <2> QED BY <1>3, <1>6, <2>1
<1> QED BY <1>0, <1>4, <1>5, <1>6, BoxStep DEF Fills

LEMMA AlwaysLast == Spec => []LastInv
<1>1. Init /\ OnceInv => LastInv
  <2> SUFFICES ASSUME Init, OnceInv PROVE LastInv
    OBVIOUS
  <2>1. Finished /\ GoneLast
    BY DEF Init, Finished, GoneIn, GoneLast
  <2> QED BY <2>1 DEF LastInv
<1>2. LastInv /\ [Next]_vars => LastInv'
  BY OnceStep, FinishedStep, GoneLastStep DEF LastInv
<1> QED BY <1>1, <1>2, AlwaysOnce, PTL DEF Spec

\* A process that has not connected to another crosswise is told once that it has
\* disconnected, behind everything that came from it.
THEOREM GoneLastCorrect == Spec => []GoneLast
<1>1. LastInv => GoneLast
  BY DEF LastInv
<1> QED BY AlwaysLast, <1>1, PTL

----------------------------------------------------------------------------
(* What a close leaves open.                                                *)

\* What p knows of connection c to q while its end is open: it has it in the
\* cache, is about to, or is to be told of it by the hello; close lists it or
\* comes before the end of the handshake.
Known(c, p, q) ==
    LET greeting(S) == conns[c] = <<q, p>> /\ accepted[c] \in S IN
    /\ pc[p] # "dead"
    /\ pc[p] \notin {"closes", "closed"} =>
         cache[p][q] = c \/ Dials(p, c) \/ greeting({"no", "handshake"})
    /\ conns[c] = <<q, p>> /\ accepted[c] = "no" => Listens(p)
    /\ pc[p] = "closes" => c \in closing[p] \/ greeting({"handshake", "late"})
    /\ pc[p] = "closed" => greeting({"handshake", "late"})
AllKnown ==
    \A p, q \in Proc : \A c \in 1..Len(conns) :
        Between(c, p, q) /\ <<c, p>> \in open /\ ~Crossed(p, q) => Known(c, p, q)
KnownInv == OnceInv /\ AllKnown

\* A step that concerns neither p's end of c nor p's closing.
Unknowing(c, p, q) ==
    /\ conns'[c] = conns[c] /\ (conns[c] = <<q, p>> => accepted'[c] = accepted[c])
    /\ pc'[p] = pc[p] \/ (Listens(p) /\ Listens(p)')
    /\ closing'[p] = closing[p] /\ cache'[p][q] = cache[p][q]
    /\ Dials(p, c) => Dials(p, c)'

LEMMA KnownKept ==
    ASSUME NEW c, NEW p, NEW q, Known(c, p, q), Unknowing(c, p, q) PROVE Known(c, p, q)'
BY DEF Known, Unknowing, Listens

\* The user's thread of r sends.
LEMMA KnownSend ==
    ASSUME KnownInv, NEW p \in Proc, NEW q \in Proc, NEW c \in 1..Len(conns),
           Between(c, p, q), Known(c, p, q), <<c, p>> \in open', ~Crossed(p, q), NEW r \in Proc,
           \/ \E t \in Proc : StartSend(r, t)
           \/ GetCached(r) \/ Connect(r) \/ SayHello(r) \/ Write(r) \/ AttachConnected(r)
    PROVE  Known(c, p, q)'
<1>0. /\ Inv /\ OnceInv /\ c \in Conn /\ conns \in Seq(Proc \X Proc)
      /\ pc \in [Proc -> {"idle", "cached", "absent", "hello", "attach", "write",
                          "closing", "closes", "closed", "dead"}]
      /\ tgt \in [Proc -> Proc] /\ cache \in [Proc -> [Proc -> Conn \cup {0}]]
      /\ sock \in [Proc -> Conn \cup {0}]
  BY ConnTypes DEF KnownInv, OnceInv, TruthInv, Inv, TypeOK
<1>1. ASSUME NEW t \in Proc, StartSend(r, t) \/ GetCached(r) PROVE Known(c, p, q)'
  <2>1. UNCHANGED <<conns, accepted, closing, cache>>
    BY <1>1 DEF StartSend, GetCached
  <2>2. p # r => pc'[p] = pc[p] /\ sock'[p] = sock[p]
    BY <1>0, <1>1 DEF StartSend, GetCached, Goto
  <2>3. p = r => pc[p] \in {"idle", "cached"} /\ pc'[p] \in {"idle", "cached", "absent", "write"}
    BY <1>0, <1>1 DEF StartSend, GetCached, Goto
  <2>4. Unknowing(c, p, q)
    BY <2>1, <2>2, <2>3 DEF Unknowing, Listens, Dials
  <2> QED BY <2>4, KnownKept
<1>2. CASE Connect(r)
  <2>1. UNCHANGED <<accepted, closing, cache>>
    BY <1>2 DEF Connect
  <2>2. conns'[c] = conns[c]
    <3>1. conns' = conns \/ conns' = Append(conns, <<r, tgt[r]>>)
      BY <1>2 DEF Connect
    <3> QED BY <1>0, <3>1, LongerIs
  <2>3. p # r => pc'[p] = pc[p] /\ sock'[p] = sock[p]
    BY <1>0, <1>2 DEF Connect, Goto
  <2>4. p = r => pc[p] = "absent" /\ pc'[p] \in {"idle", "hello"}
    BY <1>0, <1>2 DEF Connect, Goto
  <2>5. Unknowing(c, p, q)
    BY <2>1, <2>2, <2>3, <2>4 DEF Unknowing, Listens, Dials
  <2> QED BY <2>5, KnownKept
<1>3. CASE SayHello(r) \/ Write(r)
  <2>1. /\ pc[r] \in {"hello", "write"} /\ pc'[r] \in {"attach", "idle"}
        /\ \A s \in Proc \ {r} : pc'[s] = pc[s]
        /\ pc[r] = "hello" /\ pc'[r] = "idle" => <<sock[r], r>> \notin open'
        /\ UNCHANGED <<sock, closing, cache, conns, accepted>>
    BY <1>0, <1>3, SendEffect
  <2>2. Dials(p, c) => Dials(p, c)'
    <3>1. SUFFICES ASSUME Dials(p, c) PROVE pc'[p] \in {"hello", "attach"}
      BY <2>1 DEF Dials
    <3>2. CASE p = r
      <4>1. pc[r] = "hello" /\ c = sock[r]
        BY <2>1, <3>1, <3>2 DEF Dials
      <4> QED BY <2>1, <3>2, <4>1
    <3> QED BY <2>1, <3>1, <3>2 DEF Dials
  <2>3. Unknowing(c, p, q)
    BY <2>1, <2>2 DEF Unknowing, Listens
  <2> QED BY <2>3, KnownKept
<1>4. CASE AttachConnected(r)
  <2>1. /\ pc[r] = "attach" /\ pc' = [pc EXCEPT ![r] = "write"]
        /\ cache' = [cache EXCEPT ![r][tgt[r]] = sock[r]]
        /\ UNCHANGED <<sock, closing, conns, accepted>>
    BY <1>4 DEF AttachConnected, Attach, Goto, sendVars
  <2>2. tgt[r] \in Proc /\ sock[r] \in 1..Len(conns) /\ conns[sock[r]] = <<r, tgt[r]>>
    BY <1>0, <2>1 DEF Inv, Linked
  <2>3. CASE p = r /\ q = tgt[r]
    <3>1. c = sock[r]
      <4>1. Between(sock[r], p, q)
        BY <2>2, <2>3 DEF Between
      <4> QED BY <1>0, <4>1, SoleConnection
    <3>2. cache'[p][q] = c /\ pc'[p] = "write"
      BY <1>0, <2>1, <2>3, <3>1
    <3> QED BY <3>2 DEF Known, Listens
  <2>4. CASE ~(p = r /\ q = tgt[r])
    <3>1. cache'[p][q] = cache[p][q]
      BY <1>0, <2>1, <2>4
    <3>2. pc'[p] = pc[p] \/ (Listens(p) /\ Listens(p)')
      BY <1>0, <2>1 DEF Listens
    <3>3. Dials(p, c) => p # r
      BY <2>2, <2>4, ConnTypes, <1>0 DEF Dials, Between
    <3>4. Dials(p, c) => Dials(p, c)'
      BY <1>0, <2>1, <3>3 DEF Dials
    <3>5. Unknowing(c, p, q)
      BY <2>1, <3>1, <3>2, <3>4 DEF Unknowing
    <3> QED BY <3>5, KnownKept
  <2> QED BY <2>3, <2>4
<1> QED BY <1>1, <1>2, <1>3, <1>4

\* The user's thread of r closes, or r dies.
LEMMA KnownClose ==
    ASSUME KnownInv, NEW p \in Proc, NEW q \in Proc, NEW c \in 1..Len(conns),
           Between(c, p, q), Known(c, p, q), <<c, p>> \in open', NEW r \in Proc,
           StartClose(r) \/ ListConnections(r) \/ CloseConnection(r) \/ Die(r)
    PROVE  Known(c, p, q)'
<1>0. /\ Inv /\ c \in Conn /\ 0 \notin Conn
      /\ pc \in [Proc -> {"idle", "cached", "absent", "hello", "attach", "write",
                          "closing", "closes", "closed", "dead"}]
      /\ closing \in [Proc -> SUBSET Conn]
  BY ConnTypes DEF KnownInv, OnceInv, TruthInv, Inv, TypeOK
<1>1. UNCHANGED <<sock, cache, conns, accepted>>
  BY DEF StartClose, ListConnections, CloseConnection, Die, sendVars
<1>2. CASE p # r
  <2>1. pc'[p] = pc[p] /\ closing'[p] = closing[p]
    <3>1. \E at : pc' = pc \/ pc' = [pc EXCEPT ![r] = at]
      BY DEF StartClose, ListConnections, CloseConnection, Die, Goto
    <3>2. \E ds : closing' = closing \/ closing' = [closing EXCEPT ![r] = ds]
      BY DEF StartClose, ListConnections, CloseConnection, Die
    <3> QED BY <1>0, <1>2, <3>1, <3>2
  <2>2. Unknowing(c, p, q)
    BY <1>1, <2>1 DEF Unknowing, Dials
  <2> QED BY <2>2, KnownKept
<1>3. CASE p = r /\ StartClose(r)
  <2>1. /\ pc[p] = "idle" /\ pc'[p] = "closing" /\ closing' = closing
        /\ ~(c \in DOMAIN conns /\ accepted[c] = "no" /\ conns[c][2] = p)
    BY <1>0, <1>3 DEF StartClose, Goto
  <2>2. ~(conns[c] = <<q, p>> /\ accepted[c] = "no")
    BY <1>0, <2>1, ConnTypes
  <2> QED BY <1>1, <2>1, <2>2 DEF Known, Dials, Listens
<1>4. CASE p = r /\ ListConnections(r)
  <2>1. pc[p] = "closing" /\ pc'[p] = "closes" /\ closing'[p] = Listed(p)
    BY <1>0, <1>4 DEF ListConnections, Goto
  <2>2. cache[p][q] = c => c \in Listed(p)
    BY <1>0 DEF Listed
  <2> QED BY <1>1, <2>1, <2>2 DEF Known, Dials, Listens
<1>5. CASE p = r /\ CloseConnection(r)
  <2>1. pc[p] = "closes"
    BY <1>5 DEF CloseConnection
  <2>2. ASSUME NEW d \in closing[p], open' = open \ {<<d, p>>},
               closing' = [closing EXCEPT ![p] = @ \ {d}], pc' = pc
        PROVE  Known(c, p, q)'
    <3>1. c # d
      BY <2>2
    <3>2. c \in closing[p] => c \in closing'[p]
      BY <1>0, <2>2, <3>1
    <3> QED BY <1>1, <2>1, <2>2, <3>2 DEF Known, Listens
  <2>3. ASSUME closing[p] = {}, pc' = [pc EXCEPT ![p] = "closed"]
        PROVE  Known(c, p, q)'
    <3>1. pc'[p] = "closed"
      BY <1>0, <2>3
    <3> QED BY <1>1, <2>1, <2>3, <3>1 DEF Known, Listens
  <2> QED BY <1>5, <2>2, <2>3 DEF CloseConnection, Goto
<1>6. CASE p = r /\ Die(r)
  BY <1>6 DEF Die
<1> QED BY <1>2, <1>3, <1>4, <1>5, <1>6

\* A thread of r accepts or reads.
LEMMA KnownRead ==
    ASSUME KnownInv, NEW p \in Proc, NEW q \in Proc, NEW c \in 1..Len(conns),
           Between(c, p, q), Known(c, p, q), <<c, p>> \in open', ~Crossed(p, q), NEW r \in Proc,
           \/ Accept(r)
           \/ \E d \in 1..Len(conns) :
                ReadHello(d, r) \/ ReadMessage(d, r) \/ ReadEnd(d, r) \/ ReadTorn(d, r) \/ ReadClosed(d, r)
    PROVE  Known(c, p, q)'
<1>0. /\ Inv /\ OnceInv /\ c \in Conn /\ 1..Len(conns) \subseteq Conn /\ DOMAIN conns = 1..Len(conns)
      /\ cache \in [Proc -> [Proc -> Conn \cup {0}]]
      /\ accepted \in [Conn -> {"no", "handshake", "attached", "late"}]
  BY ConnTypes DEF KnownInv, OnceInv, TruthInv, Inv, TypeOK
<1>1. UNCHANGED <<pc, sock, closing, conns>>
  BY DEF Accept, ReadHello, ReadMessage, ReadEnd, ReadTorn, ReadClosed, sendVars
<1>2. Dials(p, c)' <=> Dials(p, c)
  BY <1>1 DEF Dials
<1>3. ASSUME cache'[p][q] = cache[p][q], conns[c] = <<q, p>> => accepted'[c] = accepted[c]
      PROVE  Known(c, p, q)'
  BY <1>1, <1>2, <1>3, KnownKept DEF Unknowing
<1>4. CASE Accept(r)
  <2>1. PICK d \in 1..Len(conns) :
          /\ conns[d][2] = r /\ accepted[d] = "no"
          /\ accepted' = [accepted EXCEPT ![d] = "handshake"]
    BY <1>0, <1>4 DEF Accept
  <2>2. cache' = cache /\ Listens(r)
    BY <1>4 DEF Accept
  <2>3. CASE c # d
    BY <1>0, <1>3, <2>1, <2>2, <2>3
  <2>4. CASE c = d /\ conns[c] = <<q, p>>
    <3>1. p = r /\ accepted'[c] = "handshake"
      BY <1>0, <2>1, <2>4
    <3> QED BY <1>1, <1>2, <2>2, <2>4, <3>1 DEF Known, Listens
  <2> QED BY <1>3, <2>2, <2>3, <2>4
<1>5. ASSUME NEW d \in 1..Len(conns), ReadHello(d, r) PROVE Known(c, p, q)'
  <2>1. /\ conns[d][2] = r /\ accepted[d] = "handshake"
        /\ accepted' = [accepted EXCEPT ![d] = IF Closed(r) THEN "late" ELSE "attached"]
    BY <1>5 DEF ReadHello
  <2>2. conns[c] = <<q, p>> /\ accepted'[c] # accepted[c] => c = d /\ p = r
    BY <1>0, <2>1
  <2>3. ASSUME stream[d][r] # <<>>, cache' = [cache EXCEPT ![r][Head(stream[d][r]).from] = d]
        PROVE  Known(c, p, q)'
    <3>1. PICK h \in Proc : h = Head(stream[d][r]).from /\ Between(d, r, h)
      <4>1. stream[d][r] \in Seq(Value) /\ d \in Conn
        BY <1>0 DEF Inv, TypeOK
      <4>2. /\ Head(stream[d][r]) = stream[d][r][1] /\ 1 \in 1..Len(stream[d][r])
            /\ Head(stream[d][r]) \in Value
        BY <2>3, <4>1, Rest
      <4>3. Head(stream[d][r]).from \in Proc
        BY <4>2 DEF Value
      <4>4. Between(d, r, stream[d][r][1].from)
        BY <1>0, <4>1, <4>2 DEF Inv, Linked
      <4> QED BY <4>2, <4>3, <4>4
    <3>2. CASE p = r /\ q = h
      <4>1. c = d
        BY <1>0, <3>1, <3>2, SoleConnection
      <4>2. conns[c] = <<q, p>>
        BY <1>0, <2>1, <3>2, <4>1, ConnTypes DEF Between
      <4>3. cache'[p][q] = c /\ accepted'[c] \in {"late", "attached"}
            /\ (Closed(p) => accepted'[c] = "late")
        BY <1>0, <2>1, <2>3, <3>1, <3>2, <4>1
      <4> QED BY <1>1, <4>2, <4>3 DEF Known, Closed
    <3>3. CASE ~(p = r /\ q = h)
      <4>1. cache'[p][q] = cache[p][q]
        BY <1>0, <2>3, <3>1, <3>3
      <4>2. c = d /\ p = r => q = h
        <5>1. Peer(c, p) = q /\ Peer(d, r) = h
          BY <1>0, <3>1, PeerIs
        <5> QED BY <5>1
      <4> QED BY <1>3, <2>2, <3>3, <4>1, <4>2
    <3> QED BY <3>2, <3>3
  <2>4. ASSUME open' = open \ {<<d, r>>}, cache' = cache
        PROVE  Known(c, p, q)'
    <3>1. ~(c = d /\ p = r)
      BY <2>4
    <3> QED BY <1>3, <2>2, <2>4, <3>1
  <2> QED BY <1>5, <2>3, <2>4 DEF ReadHello, Attach
<1>6. ASSUME NEW d \in 1..Len(conns), ReadMessage(d, r) \/ ReadTorn(d, r) \/ ReadClosed(d, r) PROVE Known(c, p, q)'
  <2>1. UNCHANGED <<cache, accepted>>
    BY <1>6 DEF ReadMessage, ReadTorn, ReadClosed
  <2> QED BY <1>3, <2>1
<1>7. ASSUME NEW d \in 1..Len(conns), ReadEnd(d, r) PROVE Known(c, p, q)'
  <2>1. /\ accepted' = accepted /\ open' = open \ {<<d, r>>}
        /\ cache' = [cache EXCEPT ![r][Peer(d, r)] = 0] \/ cache' = cache
    BY <1>7 DEF ReadEnd
  <2>2. Peer(d, r) \in Proc /\ Between(d, r, Peer(d, r))
    BY <1>0, <1>7, ReadEndIs
  <2>3. ~(p = r /\ q = Peer(d, r))
    <3>1. SUFFICES ASSUME p = r, q = Peer(d, r) PROVE FALSE
      OBVIOUS
    <3>2. c = d
      BY <1>0, <2>2, <3>1, SoleConnection
    <3> QED BY <2>1, <3>1, <3>2
  <2>4. cache'[p][q] = cache[p][q]
    BY <1>0, <2>1, <2>2, <2>3
  <2> QED BY <1>3, <2>1, <2>4
<1> QED BY <1>4, <1>5, <1>6, <1>7

\* A new connection is dialled at one end, and not accepted at the other.
LEMMA KnownNew ==
    ASSUME Inv, [Next]_vars, NEW p \in Proc, NEW q \in Proc, Inv',
           NEW c \in 1..Len(conns'), c \notin 1..Len(conns), Between(c, p, q)'
    PROVE  Known(c, p, q)'
<1>1. PICK a \in Proc :
        /\ pc[a] = "absent" /\ Listens(tgt[a]) /\ tgt[a] \in Proc /\ tgt[a] # a
        /\ conns' = Append(conns, <<a, tgt[a]>>)
        /\ sock' = [sock EXCEPT ![a] = Len(conns) + 1]
        /\ pc' = [pc EXCEPT ![a] = "hello"]
        /\ accepted' = accepted
  BY ConnsStep
<1>2. c = Len(conns) + 1 /\ conns'[c] = <<a, tgt[a]>>
  <2>1. conns \in Seq(Proc \X Proc) /\ <<a, tgt[a]>> \in Proc \X Proc
    BY <1>1 DEF Inv, TypeOK
  <2> QED BY <1>1, <2>1, LongerIs
<1>3. accepted'[c] = "no"
  <2>1. c \in Conn /\ Len(conns) \in Nat
    <3>1. Len(conns) \in Nat /\ Len(conns') \in Nat /\ MaxSends \in Nat
      BY ConnTypes, ConnsGrow
    <3>2. Len(conns') <= MaxSends
      BY DEF Inv, TypeOK
    <3> QED BY <3>1, <3>2 DEF Conn
  <2> QED BY <1>1, <1>2, <2>1 DEF Inv, Linked
<1>4. pc'[a] = "hello" /\ sock'[a] = c /\ pc'[tgt[a]] = pc[tgt[a]]
  BY <1>1, <1>2 DEF Inv, TypeOK
<1>5. CASE p = a /\ q = tgt[a]
  BY <1>1, <1>2, <1>4, <1>5 DEF Known, Dials
<1>6. CASE q = a /\ p = tgt[a]
  BY <1>1, <1>2, <1>3, <1>4, <1>6 DEF Known, Listens
<1> QED BY <1>2, <1>5, <1>6 DEF Between

\* An end is opened by its connection alone.
LEMMA OpenStep ==
    ASSUME Inv, [Next]_vars, NEW p \in Proc, NEW c \in 1..Len(conns), <<c, p>> \in open'
    PROVE  <<c, p>> \in open
<1>1. Len(conns) \in Nat
  BY ConnTypes
<1>2. CASE UNCHANGED vars
  BY <1>2 DEF vars
<1>3. CASE Next
  <2>1. PICK q \in Proc :
          \/ \E t \in Proc : StartSend(q, t)
          \/ GetCached(q) \/ Connect(q) \/ SayHello(q) \/ AttachConnected(q) \/ Write(q)
          \/ ListConnections(q) \/ CloseConnection(q) \/ StartClose(q) \/ Accept(q) \/ Die(q)
          \/ \E d \in 1..Len(conns) :
               ReadHello(d, q) \/ ReadMessage(d, q) \/ ReadEnd(d, q) \/ ReadTorn(d, q) \/ ReadClosed(d, q)
    BY <1>3, NextIs
  <2>2. CASE Connect(q)
    <3>1. c # Len(conns) + 1
      BY <1>1
    <3> QED BY <2>2, <3>1 DEF Connect
  <2>3. CASE SayHello(q) \/ Write(q)
    BY <2>3, SendEffect
  <2> QED BY <2>1, <2>2, <2>3 DEF StartSend, GetCached, AttachConnected, ListConnections,
               CloseConnection, StartClose, Accept, Die, ReadHello, ReadMessage, ReadEnd, ReadTorn, ReadClosed
<1> QED BY <1>2, <1>3

LEMMA KnownStep == KnownInv /\ [Next]_vars => AllKnown'
<1> SUFFICES ASSUME KnownInv, [Next]_vars, NEW p \in Proc, NEW q \in Proc,
                    NEW c \in 1..Len(conns'), Between(c, p, q)', <<c, p>> \in open',
                    ~Crossed(p, q)'
             PROVE  Known(c, p, q)'
  BY DEF AllKnown
<1>0. Inv /\ Inv' /\ ~Crossed(p, q)
  BY NextInv, CrossedStays DEF KnownInv, OnceInv, TruthInv
<1>1. CASE c \notin 1..Len(conns)
  BY <1>0, <1>1, KnownNew
<1>2. CASE c \in 1..Len(conns)
  <2>1. Between(c, p, q)
    BY <1>0, <1>2, ConnsGrow DEF Between
  <2>2. <<c, p>> \in open
    BY <1>0, <1>2, OpenStep
  <2>3. Known(c, p, q)
    BY <1>0, <1>2, <2>1, <2>2 DEF KnownInv, AllKnown
  <2>4. CASE UNCHANGED vars
    BY <2>3, <2>4, KnownKept DEF vars, sendVars, Unknowing, Dials
  <2>5. CASE Next
    <3>1. PICK r \in Proc :
            \/ \E t \in Proc : StartSend(r, t)
            \/ GetCached(r) \/ Connect(r) \/ SayHello(r) \/ AttachConnected(r) \/ Write(r)
            \/ ListConnections(r) \/ CloseConnection(r) \/ StartClose(r) \/ Accept(r) \/ Die(r)
            \/ \E d \in 1..Len(conns) :
                 ReadHello(d, r) \/ ReadMessage(d, r) \/ ReadEnd(d, r) \/ ReadTorn(d, r) \/ ReadClosed(d, r)
      BY <1>0, <2>5, NextIs
    <3> QED BY <1>0, <1>2, <2>1, <2>3, <3>1, KnownSend, KnownClose, KnownRead
  <2> QED BY <2>4, <2>5
<1> QED BY <1>1, <1>2

LEMMA AlwaysKnown == Spec => []KnownInv
<1>1. Init => AllKnown
  BY DEF Init, AllKnown
<1>2. KnownInv /\ [Next]_vars => KnownInv'
  BY OnceStep, KnownStep DEF KnownInv
<1>3. OnceInv /\ AllKnown <=> KnownInv
  BY DEF KnownInv
<1> QED BY <1>1, <1>2, <1>3, AlwaysOnce, PTL DEF Spec

\* A closed inbox has no open connection that a peer would write to in vain,
\* except those whose handshake came too late to be listed, and those that a
\* crosswise connection has replaced in the cache.
THEOREM CloseClosesCorrect == Spec => []CloseCloses
<1>1. KnownInv => CloseCloses
  <2> SUFFICES ASSUME KnownInv, NEW p \in Proc, pc[p] = "closed", NEW c \in DOMAIN conns,
                      <<c, p>> \in open, ~Crossed(conns[c][1], conns[c][2])
               PROVE  conns[c][2] = p /\ accepted[c] \in {"handshake", "late"}
    BY DEF CloseCloses
  <2>1. Inv /\ AllKnown
    BY DEF KnownInv, OnceInv, TruthInv
  <2>2. c \in 1..Len(conns)
    BY <2>1, ConnTypes
  <2>3. p \in {conns[c][1], conns[c][2]}
    <3>1. <<c, p>>[1] = c /\ <<c, p>>[2] = p
      OBVIOUS
    <3> QED BY <2>1, <3>1 DEF Inv, Linked
  <2>4. PICK q \in Proc : Between(c, p, q)
    BY <2>1, <2>2, <2>3, EndsAre
  <2>5. ~Crossed(p, q)
    BY <2>1, <2>4, PeerIs, CrossedBoth, ConnTypes DEF Between
  <2>6. Known(c, p, q)
    BY <2>1, <2>2, <2>4, <2>5 DEF AllKnown
  <2> QED BY <2>6 DEF Known
<1> QED BY <1>1, AlwaysKnown, PTL
=============================================================================
