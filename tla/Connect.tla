------------------------------ MODULE Connect ------------------------------
(****************************************************************************)
(* How user processes connect (occ/inbox.py): `send` finds the connection   *)
(* in the cache or asks central for one with `connect_using_central`, while *)
(* the reader threads attach what other processes have asked for.           *)
(*                                                                          *)
(* A step is what one thread does between two points at which it can be     *)
(* overtaken by another thread of its process or by another process.        *)
(* Central is one step per connect-to, which is what module Central shows   *)
(* it to be for a caller that lives; what a dead caller does to it is there.*)
(* Targets are addresses: a registered name is attached and removed         *)
(* together with its address, and decides nothing else.  Values load, and   *)
(* nobody is stopped and continued in the middle of one: see module Wire.   *)
(****************************************************************************)
EXTENDS Integers, Sequences, SequencesExt

CONSTANTS
    Proc,       \* the user processes
    MaxSends,   \* bound: the sends they make altogether
    Talks,      \* bound: the pairs <<p, t>> for which p sends to t
    Mortal      \* bound: the processes that may die

None == "none"

ASSUME ConnectAssumption ==
    MaxSends \in Nat /\ Mortal \subseteq Proc /\ Talks \subseteq Proc \X Proc
    /\ None \notin Proc

Conn == 1..MaxSends

\* What ends up in the queue of an inbox: a user's message, or what central
\* has answered.
Letter == [type : {"message"}, from : Proc, n : 1..MaxSends]
Notice == [type : {"have-a-connection", "connection-error"},
           from : Proc, n : Conn \cup {0}]
Have(p, c) == [type |-> "have-a-connection", from |-> p, n |-> c]
Failed(p)  == [type |-> "connection-error", from |-> p, n |-> 0]
IsNotice(m) == m.type # "message"

VARIABLES
    alive,      \* the processes that have not died
    \* the user's thread of each process
    pc,         \* where it is in send
    tgt,        \* the target of the send
    sock,       \* the connection it has picked
    sends,      \* how many sends were made altogether
    wrote,      \* how many messages it has written, to each process
    took,       \* the number of the last message received, from each process
    asked,      \* the pairs <<p, t>> for which p has sent a connect-to t
    \* the inbox of each process, which its threads share
    flag,       \* connection_flag
    cache,      \* connection_cache
    box,        \* the queue, in the sense of module Mailbox
    \* its reader threads
    pending,    \* a notice attached, but not yet compared with the flag
    attached,   \* <<c, p>>: p runs a reader thread for connection c
    \* between the processes
    requests,   \* connect-to messages central has not handled, by caller
    notices,    \* what central has sent and the process has not read
    conns,      \* the socket pairs made by central: <<caller, target>>
    stream,     \* what is written on a connection towards a process
    shut        \* <<c, p>>: p has closed its end of c after a failed write

threadVars == <<sends, wrote, took, asked>>
netVars    == <<requests, notices, conns>>
vars == <<alive, pc, tgt, sock, threadVars, flag, cache, box, pending,
          attached, netVars, stream, shut>>

TypeOK ==
    /\ alive \subseteq Proc
    /\ pc \in [Proc -> {"idle", "cached", "absent", "await", "connected", "write"}]
    /\ tgt \in [Proc -> Proc \cup {None}]
    /\ sock \in [Proc -> Conn \cup {0}]
    /\ sends \in 0..MaxSends
    /\ wrote \in [Proc -> [Proc -> 0..MaxSends]]
    /\ took \in [Proc -> [Proc -> 0..MaxSends]]
    /\ asked \subseteq Proc \X Proc
    /\ flag \in [Proc -> Proc \cup {None}]
    /\ cache \in [Proc -> [Proc -> Conn \cup {0}]]
    /\ box \in [Proc -> Seq(Letter \cup Notice)]
    /\ pending \in [Proc -> SUBSET Notice]
    /\ attached \subseteq Conn \X Proc /\ shut \subseteq Conn \X Proc
    /\ requests \in [Proc -> Seq(Proc)]
    /\ notices \in [Proc -> Seq(Notice)]
    /\ conns \in Seq(Proc \X Proc) /\ Len(conns) <= MaxSends
    /\ stream \in [Conn -> [Proc -> Seq(Letter)]]

Init ==
    /\ alive = Proc
    /\ pc = [p \in Proc |-> "idle"]
    /\ tgt = [p \in Proc |-> None]
    /\ sock = [p \in Proc |-> 0]
    /\ sends = 0
    /\ wrote = [p \in Proc |-> [r \in Proc |-> 0]]
    /\ took = [p \in Proc |-> [r \in Proc |-> 0]]
    /\ asked = {}
    /\ flag = [p \in Proc |-> None]
    /\ cache = [p \in Proc |-> [r \in Proc |-> 0]]
    /\ box = [p \in Proc |-> <<>>]
    /\ pending = [p \in Proc |-> {}]
    /\ attached = {} /\ shut = {}
    /\ requests = [p \in Proc |-> <<>>]
    /\ notices = [p \in Proc |-> <<>>]
    /\ conns = <<>>
    /\ stream = [c \in Conn |-> [p \in Proc |-> <<>>]]

----------------------------------------------------------------------------
(* The user's thread.                                                       *)

At(p, at)   == p \in alive /\ pc[p] = at
Goto(p, at) == pc' = [pc EXCEPT ![p] = at]
Cached(p)   == cache[p][tgt[p]]
Queue(p, m) == box' = [box EXCEPT ![p] = Append(@, m)]

ConnectAlways(p, t) == FALSE
HasConnection(p, t) == cache[p][t] # 0

\* send(t, ...) looks whether there is a connection, and lets go of the lock.
StartSend(p, t) ==
    /\ At(p, "idle") /\ <<p, t>> \in Talks /\ t # p /\ sends < MaxSends
    /\ sends' = sends + 1
    /\ tgt' = [tgt EXCEPT ![p] = t]
    /\ Goto(p, IF HasConnection(p, t) THEN "cached" ELSE "absent")
    /\ UNCHANGED <<alive, sock, wrote, took, asked, flag, cache, box, pending,
                   attached, netVars, stream, shut>>

\* get_connection, which raises when the connection has gone since then.
GetCached(p) ==
    /\ At(p, "cached")
    /\ sock' = [sock EXCEPT ![p] = Cached(p)]
    /\ Goto(p, IF Cached(p) # 0 THEN "write" ELSE "idle")
    /\ UNCHANGED <<alive, tgt, threadVars, flag, cache, box, pending, attached,
                   netVars, stream, shut>>

\* The flag is set, and connect_using_central asks central.
RequestUnflagged(p) == flag' = flag
SetFlag(p) == flag' = [flag EXCEPT ![p] = tgt[p]]
RequestConnect(p) ==
    /\ At(p, "absent")
    /\ SetFlag(p)
    /\ requests' = [requests EXCEPT ![p] = Append(@, tgt[p])]
    /\ asked' = asked \cup {<<p, tgt[p]>>}
    /\ Goto(p, "await")
    /\ UNCHANGED <<alive, tgt, sock, sends, wrote, took, cache, box, pending,
                   attached, notices, conns, stream, shut>>

\* receive(match=m): messages are skipped, the first notice decides.  A notice
\* of another connection, or an error, raises: the messages skipped are lost
\* (see Mailbox!Abort) and the flag stays set.
AwaitConnect(p) ==
    /\ At(p, "await")
    /\ \E i \in DOMAIN box[p] :
         /\ IsNotice(box[p][i])
         /\ \A j \in 1..(i - 1) : ~IsNotice(box[p][j])
         /\ LET expected == box[p][i].type = "have-a-connection"
                            /\ box[p][i].from = tgt[p] IN
            /\ box' = [box EXCEPT ![p] = IF expected THEN RemoveAt(@, i)
                                         ELSE SubSeq(@, i + 1, Len(@))]
            /\ Goto(p, IF expected THEN "connected" ELSE "idle")
    /\ UNCHANGED <<alive, tgt, sock, threadVars, flag, cache, pending,
                   attached, netVars, stream, shut>>

\* get_connection again, and the flag is reset unless that raises.
GetConnected(p) ==
    /\ At(p, "connected")
    /\ sock' = [sock EXCEPT ![p] = Cached(p)]
    /\ flag' = IF Cached(p) # 0 THEN [flag EXCEPT ![p] = None] ELSE flag
    /\ Goto(p, IF Cached(p) # 0 THEN "write" ELSE "idle")
    /\ UNCHANGED <<alive, tgt, threadVars, cache, box, pending, attached,
                   netVars, stream, shut>>

\* send_value: a write to a dead process raises and closes this end.
Write(p) ==
    LET c == sock[p]
        t == tgt[p]
        ok == t \in alive /\ <<c, p>> \notin shut
        n  == wrote[p][t] + 1
    IN
    /\ At(p, "write")
    /\ \/ /\ ok
          /\ wrote' = [wrote EXCEPT ![p][t] = n]
          /\ stream' = [stream EXCEPT ![c][t] =
                          Append(@, [type |-> "message", from |-> p, n |-> n])]
          /\ UNCHANGED shut
       \/ /\ ~ok
          /\ shut' = shut \cup {<<c, p>>}
          /\ UNCHANGED <<wrote, stream>>
    /\ Goto(p, "idle")
    /\ UNCHANGED <<alive, tgt, sock, sends, took, asked, flag, cache, box,
                   pending, attached, netVars>>

\* receive(): whatever comes first, a notice too.
UserReceive(p) ==
    /\ At(p, "idle") /\ box[p] # <<>>
    /\ took' = IF IsNotice(Head(box[p])) THEN took
               ELSE [took EXCEPT ![p][Head(box[p]).from] = Head(box[p]).n]
    /\ box' = [box EXCEPT ![p] = Tail(@)]
    /\ UNCHANGED <<alive, pc, tgt, sock, sends, wrote, asked, flag, cache,
                   pending, attached, netVars, stream, shut>>

SendStep(p) ==
    \/ GetCached(p) \/ RequestConnect(p) \/ AwaitConnect(p)
    \/ GetConnected(p) \/ Write(p)

----------------------------------------------------------------------------
(* Central, and death.                                                      *)

\* One socket pair for both: the target is told first, then the caller.  A
\* target that is gone gives an error to the caller.
HandleConnect(p) ==
    LET t == Head(requests[p])
        c == Len(conns) + 1
    IN
    /\ p \in alive /\ requests[p] # <<>>
    /\ requests' = [requests EXCEPT ![p] = Tail(@)]
    /\ \/ /\ t \in alive
          /\ conns' = Append(conns, <<p, t>>)
          /\ notices' = [notices EXCEPT ![t] = Append(notices[t], Have(p, c)),
                                        ![p] = Append(notices[p], Have(t, c))]
       \/ /\ t \notin alive
          /\ notices' = [notices EXCEPT ![p] = Append(@, Failed(t))]
          /\ UNCHANGED conns
    /\ UNCHANGED <<alive, pc, tgt, sock, threadVars, flag, cache, box, pending,
                   attached, stream, shut>>

\* A process dies at any point; its ends of its connections are closed.  What
\* it has asked for and central has not looked at is module Central's matter.
Die(p) ==
    /\ p \in alive \cap Mortal
    /\ alive' = alive \ {p}
    /\ requests' = [requests EXCEPT ![p] = <<>>]
    /\ UNCHANGED <<pc, tgt, sock, threadVars, flag, cache, box, pending,
                   attached, notices, conns, stream, shut>>

----------------------------------------------------------------------------
(* The reader threads: connection_handler.                                  *)

\* attach_socket: the new connection takes the place of an older one, whose
\* reader thread goes on.
AttachOwn(p, m) ==
    [cache EXCEPT ![p][m.from] = IF @ = 0 \/ flag[p] = m.from THEN m.n ELSE @]
Attach(p, m) == [cache EXCEPT ![p][m.from] = m.n]
StartExpected(p, m) ==
    IF flag[p] = m.from THEN attached \cup {<<m.n, p>>} ELSE attached
StartReader(p, m) == attached \cup {<<m.n, p>>}

\* The thread of central's socket reads an answer.
ReadNotice(p) ==
    LET m == Head(notices[p]) IN
    /\ p \in alive /\ pending[p] = {} /\ notices[p] # <<>>
    /\ notices' = [notices EXCEPT ![p] = Tail(@)]
    /\ \/ /\ m.type = "have-a-connection"
          /\ cache' = Attach(p, m)
          /\ attached' = StartReader(p, m)
          /\ pending' = [pending EXCEPT ![p] = {m}]
          /\ UNCHANGED box
       \/ /\ m.type = "connection-error"
          /\ Queue(p, m)
          /\ UNCHANGED <<cache, attached, pending>>
    /\ UNCHANGED <<alive, pc, tgt, sock, threadVars, flag, requests, conns,
                   stream, shut>>

\* connection_flag is looked at once the connection is in the cache: only a
\* connection the user's thread waits for is queued.
ExpectsAny(p, m) == flag[p] # None
Expects(p, m) == flag[p] = m.from
CheckFlag(p) ==
    \E m \in pending[p] :
        /\ p \in alive
        /\ pending' = [pending EXCEPT ![p] = {}]
        /\ IF Expects(p, m) THEN Queue(p, m) ELSE UNCHANGED box
        /\ UNCHANGED <<alive, pc, tgt, sock, threadVars, flag, cache, attached,
                       netVars, stream, shut>>

Reads(c, p) == p \in alive /\ <<c, p>> \in attached
Peer(c, p)  == IF conns[c][1] = p THEN conns[c][2] ELSE conns[c][1]

ReadMessage(c, p) ==
    /\ Reads(c, p) /\ <<c, p>> \notin shut /\ stream[c][p] # <<>>
    /\ stream' = [stream EXCEPT ![c][p] = Tail(@)]
    /\ Queue(p, Head(stream[c][p]))
    /\ UNCHANGED <<alive, pc, tgt, sock, threadVars, flag, cache, pending,
                   attached, netVars, shut>>

\* The end of the stream: remove_connection removes whatever connection the
\* cache has for that address, and raises when there is none; either way the
\* thread is over.
ReadEnd(c, p) ==
    /\ Reads(c, p) /\ Peer(c, p) \notin alive
    /\ stream[c][p] = <<>>
    /\ attached' = attached \ {<<c, p>>}
    /\ cache' = [cache EXCEPT ![p][Peer(c, p)] = 0]
    /\ UNCHANGED <<alive, pc, tgt, sock, threadVars, flag, box, pending,
                   netVars, stream, shut>>

\* The peer has died in the middle of a write.
HalfWritten(c, p) ==
    LET q == Peer(c, p) IN
    q \notin alive /\ pc[q] = "write" /\ sock[q] = c /\ stream[c][p] = <<>>

\* A failed write has closed the socket, or the stream ends inside a value: the
\* thread ends on an exception, and the connection stays in the cache.
ReadShut(c, p) ==
    /\ Reads(c, p)
    /\ <<c, p>> \in shut \/ HalfWritten(c, p)
    /\ attached' = attached \ {<<c, p>>}
    /\ UNCHANGED <<alive, pc, tgt, sock, threadVars, flag, cache, box, pending,
                   netVars, stream, shut>>

ReaderStep(p) ==
    \/ ReadNotice(p) \/ CheckFlag(p)
    \/ \E c \in DOMAIN conns :
         ReadMessage(c, p) \/ ReadEnd(c, p) \/ ReadShut(c, p)

----------------------------------------------------------------------------
Next ==
    \E p \in Proc :
        \/ \E t \in Proc : StartSend(p, t)
        \/ SendStep(p) \/ UserReceive(p) \/ ReaderStep(p)
        \/ HandleConnect(p) \/ Die(p)

\* A thread inside send and the reader threads go on, and central answers;
\* nobody has to send, to receive or to die.
Fairness ==
    \A p \in Proc :
        WF_vars(SendStep(p)) /\ WF_vars(ReaderStep(p)) /\ WF_vars(HandleConnect(p))

Spec == Init /\ [][Next]_vars
FairSpec == Spec /\ Fairness

----------------------------------------------------------------------------
(* Properties.                                                              *)

\* p and another process have asked central for a connection to each other.
Crossed(p) == \E r \in Proc : <<p, r>> \in asked /\ <<r, p>> \in asked

\* The messages of p in the inbox of r come in the order of their numbers, and
\* after those that r has received.
InOrder(p, r) ==
    LET FromP(i) == ~IsNotice(box[r][i]) /\ box[r][i].from = p IN
    \A i \in 1..Len(box[r]) :
        FromP(i) =>
            /\ box[r][i].n > took[r][p]
            /\ \A j \in 1..(i - 1) : FromP(j) => box[r][j].n < box[r][i].n

\* README:86: "if one process sends several messages to another, the receiving
\* process will receive them in order unless there's a fault".
SenderOrder == \A p, r \in Proc : InOrder(p, r)

\* The order is kept whatever else happens, over connections of either side's
\* making, between two processes neither of which has asked for a connection
\* crosswise with any third.  (That they have not done so with each other does
\* not help: a left-over answer makes the next connect raise, and the one after
\* it may make a second connection, on which the sender's next message
\* overtakes, although the sender has asked for none.)
SenderOrderUncrossed ==
    \A p, r \in Proc : Crossed(p) \/ Crossed(r) \/ InOrder(p, r)

\* The answers to connect-to do not leak to the user's receive: one is in the
\* queue only for a thread that waits for it, although incoming connections
\* are announced on the same socket, and a connect may have failed before.
NoticesAwaited ==
    \A p \in Proc :
        \/ Crossed(p)
        \/ \A i \in DOMAIN box[p] : IsNotice(box[p][i]) => pc[p] = "await"

\* When what central has sent has been read, two living processes have the same
\* connection in their caches, or neither has one: also when they have asked
\* for each other at once.
CachesAgree ==
    \A p, r \in alive :
        notices[p] = <<>> /\ notices[r] = <<>> => cache[p][r] = cache[r][p]

\* A thread that sends comes out of send, with or without an exception: no
\* order of answers and incoming connections makes it wait for an answer that
\* has been dropped.
SendReturns == \A p \in Proc : pc[p] # "idle" ~> pc[p] = "idle" \/ p \notin alive

\* What was written between processes that live gets into the inbox, on
\* whatever connection it was written: after the last send all streams dry up.
Arrives ==
    <>[](\A c \in DOMAIN conns : \A p \in Proc :
            \/ stream[c][p] = <<>>
            \/ p \notin alive \/ Peer(c, p) \notin alive)
=============================================================================
