-------------------------------- MODULE Wire --------------------------------
(****************************************************************************)
(* One direction of a socket (occ/sck.py): threads of a process write       *)
(* netstrings, some with a socket behind them, into a stream the kernel     *)
(* cuts into pieces; one thread of another process reads and parses them.   *)
(****************************************************************************)
EXTENDS Integers, Sequences

CONSTANTS
    Writer,     \* the threads that write
    Message,    \* the values
    Size,       \* how long each is when pickled
    Passing,    \* those that are followed by a socket: have-a-connection
    Unloadable, \* those that pickle but do not unpickle in the reader
    Chunk,      \* what the kernel puts into the stream at once
    Capacity    \* and how much the stream holds

None == "none"

ASSUME WireAssumption ==
    /\ None \notin Message
    /\ Size \in [Message -> Nat] /\ Passing \subseteq Message
    /\ Unloadable \subseteq Message \ Passing
    /\ Chunk \in Nat /\ Chunk >= 2 /\ Capacity \in Nat /\ Capacity >= Chunk

VARIABLES
    begun,      \* the messages some thread has begun to write
    left,       \* what each thread has still to write of its message
    stream,     \* what is written and not read
    writeEnd,   \* of the socket: open, closed, or closed with a reset
    reading,    \* what the reader has of a netstring
    pass,       \* the message whose socket the reader waits for
    over,       \* why the reader has stopped
    written, received,  \* the messages, in order
    disturbed   \* two threads in each other's message, a message cut short,
                \* or the reader stopped and continued in the middle of one

vars == <<begun, left, stream, writeEnd, reading, pass, over, written, received,
          disturbed>>

\* What goes over the wire for m, numbered: the digits of its length as one, a
\* colon, the payload, a comma, and then its socket.
Total(m) == Size[m] + IF m \in Passing THEN 4 ELSE 3
Symbol   == {c \in [of : Message, at : Nat] : c.at \in 1..Total(c.of)}
Is(c) ==
    CASE c.at = 1 -> "digit"
      [] c.at = 2 -> "colon"
      [] c.at = Size[c.of] + 3 -> "comma"
      [] c.at = Size[c.of] + 4 -> "fd"
      [] OTHER -> "byte"

TypeOK ==
    /\ begun \subseteq Message
    /\ left \in [Writer -> Seq(Symbol)]
    /\ stream \in Seq(Symbol) /\ Len(stream) <= Capacity
    /\ writeEnd \in {"open", "closed", "reset"}
    /\ reading \in Seq(Symbol)
    /\ pass \in Message \cup {None}
    /\ over \in {"no", "short", "end", "error", "gone"}
    /\ written \in Seq(Message) /\ received \in Seq(Message)
    /\ disturbed \in BOOLEAN

Init ==
    /\ begun = {} /\ left = [w \in Writer |-> <<>>]
    /\ stream = <<>> /\ writeEnd = "open"
    /\ reading = <<>> /\ pass = None /\ over = "no"
    /\ written = <<>> /\ received = <<>>
    /\ disturbed = FALSE

----------------------------------------------------------------------------
(* Writing.                                                                 *)

Netstring(m) == [k \in 1..Total(m) |-> [of |-> m, at |-> k]]

SmallerOf(x, y) == IF x < y THEN x ELSE y

\* send_value, and send_sock after it for a message that passes a socket.  The
\* socket is not locked: nothing keeps another thread from writing too.
StartWrite(w, m) ==
    /\ left[w] = <<>> /\ m \notin begun /\ writeEnd = "open"
    /\ begun' = begun \cup {m}
    /\ left' = [left EXCEPT ![w] = Netstring(m)]
    /\ UNCHANGED <<stream, writeEnd, reading, pass, over, written, received, disturbed>>

\* The kernel takes a whole chunk of the netstring, or what is left of it, when
\* there is room; the socket goes by itself.
PieceHeader(s) == IF Is(s[1]) = "digit" THEN 2 ELSE SmallerOf(Len(s), Chunk)
Piece(s) ==
    LET text == IF Is(s[Len(s)]) = "fd" /\ Len(s) > 1 THEN Len(s) - 1 ELSE Len(s)
    IN  SmallerOf(text, Chunk)

InsideBy(v) == left[v] # <<>> /\ left[v] # Netstring(left[v][1].of)

WriteChunk(w) ==
    LET k == Piece(left[w])
        rest == SubSeq(left[w], k + 1, Len(left[w]))
    IN
    /\ left[w] # <<>> /\ writeEnd = "open" /\ over # "gone"
    /\ Len(stream) + k <= Capacity
    /\ stream' = stream \o SubSeq(left[w], 1, k)
    /\ left' = [left EXCEPT ![w] = rest]
    /\ written' = IF rest = <<>> THEN Append(written, left[w][1].of) ELSE written
    /\ disturbed' = (disturbed \/ \E v \in Writer \ {w} : InsideBy(v))
    /\ UNCHANGED <<begun, writeEnd, reading, pass, over, received>>

DropNone == left
DropAll == [w \in Writer |-> <<>>]
\* close, or the end of the process: a netstring may be cut short.  The reader
\* gets a reset if it has written something that was not read.
CloseEnd ==
    /\ writeEnd = "open"
    /\ writeEnd' \in {"closed", "reset"}
    /\ disturbed' = (disturbed \/ \E v \in Writer : InsideBy(v))
    /\ left' = DropAll
    /\ UNCHANGED <<begun, stream, reading, pass, over, written, received>>

\* sendall raises, and send_value closes the socket under the other threads.
WriteFails(w) == left[w] # <<>> /\ over = "gone" /\ CloseEnd

Write(w) == WriteChunk(w) \/ WriteFails(w)

----------------------------------------------------------------------------
(* Reading.                                                                 *)

Stop(why) == over' = why /\ UNCHANGED <<reading, pass, received>>
Fits(c) ==
    LET at == Len(reading)
        need == IF reading = <<>> THEN 0 ELSE Size[reading[1].of]
    IN  CASE at = 0 -> Is(c) = "digit"
          [] at = 1 -> Is(c) = "colon"
          [] at > 1 /\ at < need + 2 -> Is(c) # "fd"
          [] at = need + 2 -> Is(c) = "comma"

\* The value is what the payload unpickles to: a payload put together from
\* several messages does not, nor does a whole one that needs what the reader
\* does not have.
Whole(s) == \A j \in DOMAIN s : s[j].of = s[1].of
Loads(s) == Whole(s) /\ s[1].of \notin Unloadable
Complete(s) == Len(s) = Size[s[1].of] + 3

Deliver(m) == received' = Append(received, m)

\* An UnpicklingError leaves the socket open, any other exception of the loads
\* closes it.
ReadSymbol ==
    LET c == Head(stream)
        s == Append(reading, c)
        m == s[1].of
    IN
    /\ over = "no" /\ pass = None /\ stream # <<>>
    /\ stream' = Tail(stream)
    /\ \/ Fits(c) /\ ~Complete(s)
          /\ reading' = s /\ UNCHANGED <<pass, over, received>>
       \/ Fits(c) /\ Complete(s) /\ Loads(s)
          /\ reading' = <<>> /\ UNCHANGED over
          /\ IF m \in Passing THEN pass' = m /\ UNCHANGED received
             ELSE Deliver(m) /\ UNCHANGED pass
       \/ ~Fits(c) /\ Stop("error")
       \/ Fits(c) /\ Complete(s) /\ ~Loads(s) /\ (Stop("error") \/ Stop("gone"))
    /\ UNCHANGED <<begun, left, writeEnd, written, disturbed>>

\* receive_sock: one byte, which must have a socket with it.
ReadSocket ==
    /\ over = "no" /\ pass # None /\ stream # <<>>
    /\ stream' = Tail(stream)
    /\ \/ Is(Head(stream)) = "fd" /\ Deliver(pass) /\ pass' = None
          /\ UNCHANGED <<reading, over>>
       \/ Is(Head(stream)) # "fd" /\ Stop("error")
    /\ UNCHANGED <<begun, left, writeEnd, written, disturbed>>

\* The end of the stream is None at a boundary and an error elsewhere; a reset
\* likewise.
AtBoundaryAlways == TRUE
AtBoundary == reading = <<>> /\ pass = None
EndOf == IF AtBoundary THEN "end" ELSE "error"
ReadEnd ==
    /\ over = "no" /\ stream = <<>> /\ writeEnd # "open"
    /\ Stop(EndOf)
    /\ UNCHANGED <<begun, left, stream, writeEnd, written, disturbed>>

\* When the process is stopped and continued, or catches a signal, MSG_WAITALL
\* comes back with what it has: len(bs) != l.
Interrupt ==
    /\ over = "no" /\ Len(reading) > 2 /\ Len(reading) < Size[reading[1].of] + 2
    /\ Stop("short")
    /\ disturbed' = TRUE
    /\ UNCHANGED <<begun, left, stream, writeEnd, written>>
ReadShort ==
    /\ over = "short" /\ Stop("error")
    /\ UNCHANGED <<begun, left, stream, writeEnd, written, disturbed>>

\* The reading process closes its end or dies.
ReaderLeaves ==
    /\ over # "gone" /\ Stop("gone")
    /\ UNCHANGED <<begun, left, stream, writeEnd, written, disturbed>>

Read == ReadSymbol \/ ReadSocket \/ ReadEnd \/ ReadShort

Next ==
    \/ \E w \in Writer : Write(w) \/ \E m \in Message : StartWrite(w, m)
    \/ Read \/ CloseEnd \/ Interrupt \/ ReaderLeaves

\* Threads in send_value and the reader thread go on; nobody has to send.
Spec     == Init /\ [][Next]_vars
FairSpec == Spec /\ WF_vars(Read) /\ \A w \in Writer : WF_vars(Write(w))

----------------------------------------------------------------------------
(* Properties.                                                              *)

C == INSTANCE Channel WITH
        queue  <- SubSeq(written, Len(received) + 1, Len(written)),
        closed <- writeEnd # "open",
        over   <- IF over = "short" THEN "no" ELSE over

\* The stream of bytes implements the channel of values.  Whatever threads do
\* to each other's messages costs an error and never a wrong value, a value out
\* of order or an end of stream too early; undisturbed, the only value that costs
\* an error is one that does not unpickle, when its turn has come.
ImplementsChannel == C!Spec

\* A message that goes in one piece is never what another gets into: threads
\* that send short values without sockets need no lock.
ShortIsAtomic ==
    disturbed /\ writeEnd = "open" /\ over = "no" =>
        \E m \in begun : m \in Passing \/ Size[m] + 3 > Chunk

\* Every thread comes out of send_value and what was written is received, or
\* the reader stops; if it stops on an error its socket stays open, and writers
\* may wait for room for ever.
AllSettles ==
    <>[](\/ over = "error"
         \/ (\A w \in Writer : left[w] = <<>>) /\ (over = "no" => received = written))
=============================================================================
