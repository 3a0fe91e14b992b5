------------------------------- MODULE Server -------------------------------
(****************************************************************************)
(* Inboxes that listen (make_with_server in occ/inbox.py, SocketServer in   *)
(* occ/sck.py): `send` connects to the address of the target and says hello,*)
(* a thread of the target accepts and reads the hello, and both keep the    *)
(* connection in their caches.  An inbox can be closed, in the middle of    *)
(* any of this.  Each inbox belongs to a process of its own, has            *)
(* disconnect_notify set and one user thread.  Values load, and nobody is   *)
(* stopped and continued in the middle of one: see module Wire.             *)
(****************************************************************************)
EXTENDS Integers, Sequences

CONSTANTS
    Proc,       \* the inboxes
    MaxSends,   \* bound: the sends they make altogether
    Talks,      \* bound: the pairs <<p, t>> for which p sends to t
    Closers,    \* bound: those that may be closed
    Mortal      \* bound: those whose process may die

ASSUME ServerAssumption ==
    MaxSends \in Nat /\ Talks \subseteq Proc \X Proc /\ Closers \cup Mortal \subseteq Proc

Conn == 1..MaxSends

Hello(p)      == [type |-> "hello", from |-> p, n |-> 0]
Message(p, n) == [type |-> "message", from |-> p, n |-> n]
Gone(p)       == [type |-> "client-disconnected", from |-> p, n |-> 0]
Value  == [type : {"hello", "message"}, from : Proc, n : 0..MaxSends]
Letter == [type : {"message", "client-disconnected"}, from : Proc, n : 0..MaxSends]

VARIABLES
    pc,         \* where the user's thread is: in send, in close, or behind it
    tgt, sock,  \* the target of the send, the connection it uses
    torn,       \* <<c, p>>: what comes on c for p ends inside a value
    closing,    \* the connections close has listed and not closed yet
    sends,      \* how many sends were made altogether
    wrote,      \* how many messages p has written, to each process
    cache,      \* connection_cache, 0 for no entry
    readers,    \* <<c, p>>: p runs a connection_handler for c
    box,        \* everything that was put into the queue
    conns,      \* the connections made: <<caller, target>>
    accepted,   \* how far the target is with each
    open,       \* <<c, p>>: p's end of c is open
    stream      \* what is written on c towards p and not read

sendVars == <<tgt, sock, sends, torn>>
vars == <<pc, sendVars, closing, wrote, cache, readers, box, conns, accepted, open, stream>>

TypeOK ==
    /\ pc \in [Proc -> {"idle", "cached", "absent", "hello", "attach", "write",
                        "closing", "closes", "closed", "dead"}]
    /\ tgt \in [Proc -> Proc] /\ sock \in [Proc -> Conn \cup {0}]
    /\ closing \in [Proc -> SUBSET Conn] /\ sends \in 0..MaxSends
    /\ wrote \in [Proc -> [Proc -> 0..MaxSends]]
    /\ cache \in [Proc -> [Proc -> Conn \cup {0}]]
    /\ readers \subseteq Conn \X Proc /\ open \subseteq Conn \X Proc
    /\ torn \subseteq Conn \X Proc
    /\ box \in [Proc -> Seq(Letter)]
    /\ conns \in Seq(Proc \X Proc) /\ Len(conns) <= MaxSends
    /\ accepted \in [Conn -> {"no", "handshake", "attached", "late"}]
    /\ stream \in [Conn -> [Proc -> Seq(Value)]]

Init ==
    /\ pc = [p \in Proc |-> "idle"]
    /\ tgt = [p \in Proc |-> p] /\ sock = [p \in Proc |-> 0]
    /\ closing = [p \in Proc |-> {}] /\ sends = 0
    /\ wrote = [p \in Proc |-> [r \in Proc |-> 0]]
    /\ cache = [p \in Proc |-> [r \in Proc |-> 0]]
    /\ readers = {} /\ open = {} /\ torn = {} /\ conns = <<>>
    /\ box = [p \in Proc |-> <<>>]
    /\ accepted = [c \in Conn |-> "no"]
    /\ stream = [c \in Conn |-> [p \in Proc |-> <<>>]]

Goto(p, at) == pc' = [pc EXCEPT ![p] = at]
Peer(c, p)  == IF conns[c][1] = p THEN conns[c][2] ELSE conns[c][1]
Listens(p)  == pc[p] \notin {"closing", "closes", "closed", "dead"}
Closed(p)   == pc[p] \in {"closes", "closed"}

----------------------------------------------------------------------------
(* The user's thread: send.                                                 *)

ConnectAlways(p, t) == FALSE
HasConnection(p, t) == cache[p][t] # 0

StartSend(p, t) ==
    /\ pc[p] = "idle" /\ <<p, t>> \in Talks /\ t # p /\ sends < MaxSends
    /\ sends' = sends + 1
    /\ tgt' = [tgt EXCEPT ![p] = t]
    /\ Goto(p, IF HasConnection(p, t) THEN "cached" ELSE "absent")
    /\ UNCHANGED <<sock, torn, closing, wrote, cache, readers, box, conns, accepted, open, stream>>

\* get_connection, which raises when the connection has gone since then.
GetCached(p) ==
    /\ pc[p] = "cached"
    /\ sock' = [sock EXCEPT ![p] = cache[p][tgt[p]]]
    /\ Goto(p, IF HasConnection(p, tgt[p]) THEN "write" ELSE "idle")
    /\ UNCHANGED <<tgt, sends, torn, closing, wrote, cache, readers, box, conns, accepted, open,
                   stream>>

\* connected_socket: refused unless the target listens; the kernel of the
\* target completes the connection before anyone accepts it.
Connect(p) ==
    LET t == tgt[p]
        c == Len(conns) + 1
    IN
    /\ pc[p] = "absent"
    /\ \/ /\ Listens(t)
          /\ conns' = Append(conns, <<p, t>>)
          /\ open' = open \cup {<<c, p>>, <<c, t>>}
          /\ sock' = [sock EXCEPT ![p] = c]
          /\ Goto(p, "hello")
       \/ /\ ~Listens(t)
          /\ Goto(p, "idle")
          /\ UNCHANGED <<conns, open, sock>>
    /\ UNCHANGED <<tgt, sends, torn, closing, wrote, cache, readers, box, accepted, stream>>

WholeSocket(p) == {<<sock[p], p>>, <<sock[p], tgt[p]>>} \subseteq open

\* send_value of v.  When the other end is closed the first write may still
\* succeed; one that fails closes this end.
SendValue(p, v, next) ==
    LET c == sock[p]
        whole == WholeSocket(p)
    IN
    \/ /\ whole
       /\ stream' = [stream EXCEPT ![c][tgt[p]] = Append(@, v)]
       /\ Goto(p, next)
       /\ UNCHANGED open
    \/ /\ ~whole /\ <<c, p>> \in open
       /\ Goto(p, next)
       /\ UNCHANGED <<stream, open>>
    \/ /\ ~whole
       /\ open' = open \ {<<c, p>>}
       /\ Goto(p, "idle")
       /\ UNCHANGED stream

SayHello(p) ==
    /\ pc[p] = "hello"
    /\ SendValue(p, Hello(p), "attach")
    /\ UNCHANGED <<sendVars, closing, wrote, cache, readers, box, conns, accepted>>

AttachUnread(p, q, c) ==
    /\ cache' = [cache EXCEPT ![p][q] = c]
    /\ readers' = IF conns[c][1] = p THEN readers \cup {<<c, p>>} ELSE readers
\* attach_socket: the new connection takes the place of an older one, whose
\* reader thread goes on.
Attach(p, q, c) ==
    /\ cache' = [cache EXCEPT ![p][q] = c]
    /\ readers' = readers \cup {<<c, p>>}

AttachConnected(p) ==
    /\ pc[p] = "attach"
    /\ Attach(p, tgt[p], sock[p])
    /\ Goto(p, "write")
    /\ UNCHANGED <<sendVars, closing, wrote, box, conns, accepted, open, stream>>

Write(p) ==
    LET n == wrote[p][tgt[p]] + 1 IN
    /\ pc[p] = "write"
    /\ SendValue(p, Message(p, n), "idle")
    /\ wrote' = [wrote EXCEPT ![p][tgt[p]] = n]
    /\ UNCHANGED <<sendVars, closing, cache, readers, box, conns, accepted>>

----------------------------------------------------------------------------
(* The user's thread: close, and death.                                     *)

\* SocketServer.close ends the accept thread; the kernel resets the connections
\* it had not accepted.  The threads it has started are left alone.
StartClose(p) ==
    /\ pc[p] = "idle" /\ p \in Closers
    /\ Goto(p, "closing")
    /\ open' = open \ {<<c, p>> : c \in {d \in DOMAIN conns : accepted[d] = "no" /\ conns[d][2] = p}}
    /\ UNCHANGED <<sendVars, closing, wrote, cache, readers, box, conns, accepted, stream>>

ListedOwn(p) == {c \in {cache[p][q] : q \in Proc} : c # 0 /\ conns[c][1] = p}
Listed(p)    == {cache[p][q] : q \in Proc} \ {0}
ListConnections(p) ==
    /\ pc[p] = "closing"
    /\ closing' = [closing EXCEPT ![p] = Listed(p)]
    /\ Goto(p, "closes")
    /\ UNCHANGED <<sendVars, wrote, cache, readers, box, conns, accepted, open, stream>>

CloseConnection(p) ==
    /\ pc[p] = "closes"
    /\ \/ \E c \in closing[p] :
            /\ open' = open \ {<<c, p>>}
            /\ closing' = [closing EXCEPT ![p] = @ \ {c}]
            /\ UNCHANGED pc
       \/ /\ closing[p] = {}
          /\ Goto(p, "closed")
          /\ UNCHANGED <<closing, open>>
    /\ UNCHANGED <<sendVars, wrote, cache, readers, box, conns, accepted, stream>>

\* In the middle of a send_value it leaves half of a value.
Torn(p) == IF pc[p] \in {"hello", "write"} /\ WholeSocket(p) THEN {<<sock[p], tgt[p]>>} ELSE {}
Die(p) ==
    /\ p \in Mortal /\ pc[p] # "dead"
    /\ torn' \in {torn, torn \cup Torn(p)}
    /\ Goto(p, "dead")
    /\ open' = {x \in open : x[2] # p}
    /\ readers' = {x \in readers : x[2] # p}
    /\ UNCHANGED <<tgt, sock, sends, closing, wrote, cache, box, conns, accepted, stream>>

UserStep(p) ==
    \/ GetCached(p) \/ Connect(p) \/ SayHello(p) \/ AttachConnected(p) \/ Write(p)
    \/ ListConnections(p) \/ CloseConnection(p)

----------------------------------------------------------------------------
(* The accept thread, the threads it starts, and connection_handler.        *)

Accept(p) ==
    /\ Listens(p)
    /\ \E c \in DOMAIN conns :
         /\ conns[c][2] = p /\ accepted[c] = "no"
         /\ \A d \in 1..(c - 1) : conns[d][2] = p => accepted[d] # "no"
         /\ accepted' = [accepted EXCEPT ![c] = "handshake"]
    /\ UNCHANGED <<pc, sendVars, closing, wrote, cache, readers, box, conns, open, stream>>

\* default_accept_handler: the hello tells whose connection it is; a stream
\* that ends without one is closed, and one that ends inside it is too, when
\* the thread has gone and nothing else holds the socket.
ReadHello(c, p) ==
    /\ conns[c][2] = p /\ accepted[c] = "handshake" /\ pc[p] # "dead"
    /\ \/ /\ stream[c][p] # <<>>
          /\ stream' = [stream EXCEPT ![c][p] = Tail(@)]
          /\ Attach(p, Head(stream[c][p]).from, c)
          /\ UNCHANGED open
       \/ /\ stream[c][p] = <<>> /\ <<c, Peer(c, p)>> \notin open
          /\ open' = open \ {<<c, p>>}
          /\ UNCHANGED <<stream, cache, readers>>
    /\ accepted' = [accepted EXCEPT ![c] = IF Closed(p) THEN "late" ELSE "attached"]
    /\ UNCHANGED <<pc, sendVars, closing, wrote, box, conns>>

ReadMessage(c, p) ==
    /\ <<c, p>> \in readers \cap open /\ stream[c][p] # <<>>
    /\ stream' = [stream EXCEPT ![c][p] = Tail(@)]
    /\ box' = [box EXCEPT ![p] = Append(@, Head(stream[c][p]))]
    /\ UNCHANGED <<pc, sendVars, closing, wrote, cache, readers, conns, accepted, open>>

EndedIdle(c, p) == stream[c][p] = <<>>
\* A recv returns nothing when the other end is closed, and when this end was
\* closed while it waited.
Ended(c, p) == stream[c][p] = <<>> /\ ~({c} \X {p, Peer(c, p)} \subseteq open)

NoticeNone(p, q) == UNCHANGED box
Notice(p, q) == box' = [box EXCEPT ![p] = Append(@, Gone(q))]

\* remove_connection removes whatever connection the cache has for the address,
\* and raises, before the notice, when there is none.  One step: what is left
\* between receive_value's close and the notice is this thread's alone, but for
\* the cache, and a user who looks at it in between sees it as before or after.
ReadEnd(c, p) ==
    LET q == Peer(c, p) IN
    /\ <<c, p>> \in readers /\ Ended(c, p) /\ <<c, p>> \notin torn
    /\ open' = open \ {<<c, p>>}
    /\ readers' = readers \ {<<c, p>>}
    /\ \/ /\ cache[p][q] # 0
          /\ cache' = [cache EXCEPT ![p][q] = 0]
          /\ Notice(p, q)
       \/ /\ cache[p][q] = 0
          /\ UNCHANGED <<cache, box>>
    /\ UNCHANGED <<pc, sendVars, closing, wrote, conns, accepted, stream>>

\* Inside a value a NetstringException ends the thread, and a reset of the
\* connection, which closes it first; it stays in the cache either way, and
\* nobody is told.
ReadTorn(c, p) ==
    /\ <<c, p>> \in readers \cap torn /\ Ended(c, p)
    /\ readers' = readers \ {<<c, p>>}
    /\ open' \in {open, open \ {<<c, p>>}}
    /\ UNCHANGED <<pc, sendVars, closing, wrote, cache, box, conns, accepted, stream>>

\* A thread that comes back to recv after this end was closed raises, and the
\* connection stays in the cache.
ReadClosed(c, p) ==
    /\ <<c, p>> \in readers \ open
    /\ readers' = readers \ {<<c, p>>}
    /\ UNCHANGED <<pc, sendVars, closing, wrote, cache, box, conns, accepted, open, stream>>

ReaderStep(p) ==
    \E c \in DOMAIN conns :
        ReadHello(c, p) \/ ReadMessage(c, p) \/ ReadEnd(c, p) \/ ReadTorn(c, p) \/ ReadClosed(c, p)

----------------------------------------------------------------------------
Next ==
    \E p \in Proc :
        \/ \E t \in Proc : StartSend(p, t)
        \/ UserStep(p) \/ StartClose(p) \/ Accept(p) \/ ReaderStep(p) \/ Die(p)

\* A call of send or close goes on, and so do the other threads; nobody has to
\* send, to close or to die.
Fairness ==
    \A p \in Proc : WF_vars(UserStep(p)) /\ WF_vars(Accept(p)) /\ WF_vars(ReaderStep(p))

Spec == Init /\ [][Next]_vars
FairSpec == Spec /\ Fairness

----------------------------------------------------------------------------
(* Properties.                                                              *)

\* p and q have connected to each other.
Crossed(p, q) == {<<p, q>>, <<q, p>>} \subseteq {conns[c] : c \in DOMAIN conns}

\* Messages between two processes come in order as long as they have not
\* connected to each other crosswise: there is no second connection then, also
\* if the first breaks.
OrderUncrossed ==
    \A p, r \in Proc : Crossed(p, r) \/
        \A i, j \in DOMAIN box[r] :
            i < j /\ box[r][i].from = p /\ box[r][j].from = p
            /\ box[r][i].type = "message" /\ box[r][j].type = "message"
            => box[r][i].n < box[r][j].n

\* A process is told that another has disconnected only when that one has died
\* or is being closed, or when it is being closed itself: a connection that was
\* replaced in a cache, a failed handshake or a failed write disconnects nobody.
GoneTruthful ==
    \A p \in Proc : \A i \in DOMAIN box[p] :
        box[p][i].type = "client-disconnected" => ~Listens(p) \/ ~Listens(box[p][i].from)

\* The notice is the last thing that comes from a process, and comes once,
\* unless the two have connected crosswise.
GoneLast ==
    \A p \in Proc : \A i, j \in DOMAIN box[p] :
        box[p][i].type = "client-disconnected" /\ i < j /\ box[p][i].from = box[p][j].from
        => Crossed(p, box[p][i].from)

\* A closed inbox has no open connection that a peer would write to in vain,
\* except those whose handshake came too late to be listed, and those that a
\* crosswise connection has replaced in the cache.
CloseCloses ==
    \A p \in Proc : pc[p] = "closed" =>
        \A c \in DOMAIN conns :
            <<c, p>> \in open =>
                \/ conns[c][2] = p /\ accepted[c] \in {"handshake", "late"}
                \/ Crossed(conns[c][1], conns[c][2])

\* What a send has written gets into the queue, on whatever connection, unless
\* the end it was written to is closed.
Arrives ==
    <>[](\A c \in DOMAIN conns, p \in Proc : <<c, p>> \in open => stream[c][p] = <<>>)

\* A process that has a connection c to one that dies is told so.  The exceptions
\* are that it is closed itself, that the other died in the middle of a write to
\* c, and that its own write to c has failed and the cache still has an entry: no
\* reader takes the entry away without the notice.
DeathNoticed ==
    \A c \in Conn, p, q \in Proc :
        cache[p][q] = c /\ pc[q] = "dead"
        ~> \/ ~Listens(p) \/ <<c, p>> \in torn
           \/ cache[p][q] # 0 /\ <<c, p>> \notin open
           \/ \E i \in DOMAIN box[p] : box[p][i] = Gone(q)
=============================================================================
