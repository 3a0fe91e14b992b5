----------------------------- MODULE WireProofs -----------------------------
(****************************************************************************)
(* Theorems about one direction of a socket, for every set of writers,      *)
(* messages and sizes, whatever is closed or stopped: types, that short     *)
(* values need no lock, and that the stream of bytes implements the channel *)
(* of values.                                                               *)
(****************************************************************************)
EXTENDS Wire, SequenceTheorems, TLAPS

----------------------------------------------------------------------------
(* Types.                                                                   *)

Sym(m, k)  == [of |-> m, at |-> k]
LastOf(m)  == Sym(m, Total(m))
IsLast(c)  == c.at = Total(c.of)
After(c)   == Sym(c.of, c.at + 1)

\* What is left of a message is an end of it, and no two threads write the same.
Suffixes ==
    /\ \A w \in Writer : left[w] # <<>> =>
         LET m == left[w][1].of IN
         /\ m \in begun /\ Len(left[w]) <= Total(m)
         /\ \A i \in 1..Len(left[w]) : left[w][i] = Sym(m, Total(m) - Len(left[w]) + i)
    /\ \A v, w \in Writer :
         v # w /\ left[v] # <<>> /\ left[w] # <<>> => left[v][1].of # left[w][1].of
    /\ writeEnd # "open" => \A w \in Writer : left[w] = <<>>
Histories ==
    /\ \A i \in 1..Len(written) : written[i] \in begun
    /\ \A i, j \in 1..Len(written) : i # j => written[i] # written[j]
    /\ \A w \in Writer : left[w] # <<>> => \A i \in 1..Len(written) : written[i] # left[w][1].of
    /\ \A i \in 1..Len(reading) : reading[i].of \in begun
    /\ \A i \in 1..Len(stream) : stream[i].of \in begun
    /\ pass # None => pass \in begun /\ pass \in Passing

Inv == TypeOK /\ Suffixes /\ Histories

LEMMA TotalIs ==
    ASSUME NEW m \in Message
    PROVE  /\ Size[m] \in Nat /\ Total(m) \in Nat /\ Total(m) >= 3
           /\ m \in Passing => Total(m) = Size[m] + 4
           /\ m \notin Passing => Total(m) = Size[m] + 3
BY WireAssumption DEF Total

LEMMA NetstringIs ==
    ASSUME NEW m \in Message
    PROVE  /\ Netstring(m) \in Seq(Symbol) /\ Len(Netstring(m)) = Total(m) /\ Netstring(m) # <<>>
           /\ \A i \in 1..Total(m) : Netstring(m)[i] = Sym(m, i) /\ Sym(m, i) \in Symbol
<1>1. Total(m) \in Nat /\ Total(m) >= 3
  BY TotalIs
<1>2. \A i \in 1..Total(m) : Sym(m, i) \in Symbol
  BY <1>1 DEF Sym, Symbol
<1>3. Netstring(m) \in [1..Total(m) -> Symbol]
  BY <1>2 DEF Netstring, Sym
<1>4. Netstring(m) \in Seq(Symbol)
  BY <1>1, <1>3, SeqDef
<1> QED BY <1>1, <1>2, <1>3, <1>4 DEF Netstring, Sym

LEMMA PieceIs ==
    ASSUME NEW s \in Seq(Symbol), s # <<>>
    PROVE  Piece(s) \in 1..Len(s) /\ Len(s) \in Nat \ {0}
<1>1. Len(s) \in Nat \ {0}
  OBVIOUS
<1>2. Chunk \in Nat /\ Chunk >= 2
  BY WireAssumption
<1>3. PICK text \in {Len(s), Len(s) - 1} : text >= 1 /\ Piece(s) = SmallerOf(text, Chunk)
  BY <1>1 DEF Piece
<1> QED BY <1>1, <1>2, <1>3 DEF SmallerOf

\* What a thread gets into the stream is the first of what it has left.
LEMMA ChunkIs ==
    ASSUME TypeOK, NEW w \in Writer, WriteChunk(w)
    PROVE  \E k \in 1..Len(left[w]) :
             /\ left[w] # <<>> /\ Len(left[w]) \in Nat
             /\ left' = [left EXCEPT ![w] = SubSeq(left[w], k + 1, Len(left[w]))]
             /\ left'[w] \in Seq(Symbol) /\ Len(left'[w]) = Len(left[w]) - k
             /\ \A i \in 1..Len(left'[w]) : i + k \in 1..Len(left[w]) /\ left'[w][i] = left[w][i + k]
             /\ \A v \in Writer \ {w} : left'[v] = left[v]
             /\ stream' = stream \o SubSeq(left[w], 1, k) /\ stream' \in Seq(Symbol)
             /\ Len(stream') = Len(stream) + k /\ Len(stream') <= Capacity
             /\ \A i \in 1..Len(stream) : stream'[i] = stream[i]
             /\ \A i \in 1..k : stream'[Len(stream) + i] = left[w][i]
             /\ k = Len(left[w]) <=> left'[w] = <<>>
             /\ written' = IF left'[w] = <<>> THEN Append(written, left[w][1].of) ELSE written
             /\ writeEnd = "open"
             /\ disturbed' = (disturbed \/ \E v \in Writer \ {w} : InsideBy(v))
             /\ UNCHANGED <<begun, writeEnd, reading, pass, over, received>>
<1> DEFINE s == left[w]
           k == Piece(s)
           rest == SubSeq(s, k + 1, Len(s))
           piece == SubSeq(s, 1, k)
<1>1. s \in Seq(Symbol) /\ stream \in Seq(Symbol) /\ s # <<>> /\ left \in [Writer -> Seq(Symbol)]
  BY DEF TypeOK, WriteChunk
<1>2. k \in 1..Len(s) /\ Len(s) \in Nat \ {0}
  BY <1>1, PieceIs
<1>3. /\ left' = [left EXCEPT ![w] = rest] /\ stream' = stream \o piece
      /\ Len(stream) + k <= Capacity /\ writeEnd = "open"
      /\ written' = IF rest = <<>> THEN Append(written, s[1].of) ELSE written
      /\ disturbed' = (disturbed \/ \E v \in Writer \ {w} : InsideBy(v))
      /\ UNCHANGED <<begun, writeEnd, reading, pass, over, received>>
  BY DEF WriteChunk
<1> HIDE DEF k
<1>4. /\ rest \in Seq(Symbol) /\ Len(rest) = Len(s) - k
      /\ \A i \in 1..Len(rest) : i + k \in 1..Len(s) /\ rest[i] = s[i + k]
      /\ rest = <<>> <=> k = Len(s)
  <2>1. \A i \in k + 1..Len(s) : s[i] \in Symbol
    BY <1>1, <1>2
  <2>2. k \in Nat /\ Len(s) \in Nat /\ k <= Len(s)
    BY <1>2
  <2>3. /\ rest \in Seq(Symbol)
        /\ Len(rest) = IF k + 1 <= Len(s) THEN Len(s) - (k + 1) + 1 ELSE 0
        /\ \A i \in 1..Len(s) - (k + 1) + 1 : rest[i] = s[k + 1 + i - 1]
    BY <2>1, <2>2, SubSeqProperties
  <2> HIDE DEF rest, s
  <2>4. Len(rest) = Len(s) - k
    BY <2>2, <2>3
  <2>5. \A i \in 1..Len(rest) : i + k \in 1..Len(s) /\ rest[i] = s[i + k]
    <3> SUFFICES ASSUME NEW i \in 1..Len(rest)
                 PROVE  i + k \in 1..Len(s) /\ rest[i] = s[i + k]
      OBVIOUS
    <3>1. i \in 1..Len(s) - (k + 1) + 1 /\ k + 1 + i - 1 = i + k /\ i + k \in 1..Len(s)
      BY <2>2, <2>4
    <3> QED BY <2>3, <3>1
  <2> QED BY <2>2, <2>3, <2>4, <2>5
<1>5. piece \in Seq(Symbol) /\ Len(piece) = k /\ \A i \in 1..k : piece[i] = s[i]
  BY <1>1, <1>2
<1>6. /\ stream' \in Seq(Symbol) /\ Len(stream') = Len(stream) + k
      /\ \A i \in 1..Len(stream) : stream'[i] = stream[i]
      /\ \A i \in 1..k : stream'[Len(stream) + i] = piece[i]
  <2> HIDE DEF piece
  <2>1. Len(stream) \in Nat /\ k \in Nat
    BY <1>1, <1>2
  <2>2. /\ stream' \in Seq(Symbol) /\ Len(stream') = Len(stream) + k
        /\ \A i \in 1..(Len(stream) + k) :
             stream'[i] = IF i <= Len(stream) THEN stream[i] ELSE piece[i - Len(stream)]
    BY <1>1, <1>3, <1>5, ConcatProperties
  <2> QED BY <2>1, <2>2
<1>7. left'[w] = rest /\ \A v \in Writer \ {w} : left'[v] = left[v]
  BY <1>1, <1>3
<1> QED BY <1>1, <1>2, <1>3, <1>4, <1>5, <1>6, <1>7

LEMMA InitInv == Init => Inv
<1> SUFFICES ASSUME Init PROVE Inv
  OBVIOUS
<1>1. TypeOK
  <2>1. Len(stream) <= Capacity
    BY WireAssumption DEF Init
  <2>2. <<>> \in Seq(Symbol) /\ <<>> \in Seq(Message)
    BY EmptySeq
  <2>3. left \in [Writer -> Seq(Symbol)]
    BY <2>2 DEF Init
  <2> QED BY <2>1, <2>2, <2>3 DEF Init, TypeOK
<1>2. Suffixes /\ Histories
  BY DEF Init, Suffixes, Histories
<1> QED BY <1>1, <1>2 DEF Inv

LEMMA SymIs == ASSUME NEW m, NEW k PROVE Sym(m, k).of = m /\ Sym(m, k).at = k
BY DEF Sym

LEMMA Rest ==
    ASSUME NEW S, NEW s \in Seq(S), s # <<>>
    PROVE  /\ Len(s) \in Nat \ {0} /\ Head(s) = s[1] /\ Head(s) \in S /\ 1 \in 1..Len(s)
           /\ Tail(s) \in Seq(S) /\ Len(Tail(s)) = Len(s) - 1
           /\ \A i \in 1..Len(Tail(s)) : i + 1 \in 1..Len(s) /\ Tail(s)[i] = s[i + 1]
OBVIOUS

LEMMA Longer ==
    ASSUME NEW S, NEW s \in Seq(S), NEW v \in S
    PROVE  /\ Append(s, v) \in Seq(S) /\ Len(s) \in Nat /\ Len(Append(s, v)) = Len(s) + 1
           /\ \A i \in 1..Len(s) : Append(s, v)[i] = s[i]
           /\ Append(s, v)[Len(s) + 1] = v
           /\ \A i \in 1..Len(Append(s, v)) : i \in 1..Len(s) \/ i = Len(s) + 1
OBVIOUS

LEMMA StartWriteInv ==
    ASSUME Inv, NEW w \in Writer, NEW m \in Message, StartWrite(w, m) PROVE Inv'
<1>1. /\ TypeOK /\ left \in [Writer -> Seq(Symbol)] /\ m \notin begun /\ begun' = begun \cup {m}
      /\ left' = [left EXCEPT ![w] = Netstring(m)] /\ writeEnd = "open"
      /\ UNCHANGED <<stream, writeEnd, reading, pass, over, written, received, disturbed>>
  BY DEF Inv, TypeOK, StartWrite
<1>2. /\ Netstring(m) \in Seq(Symbol) /\ Len(Netstring(m)) = Total(m) /\ Netstring(m) # <<>>
      /\ Total(m) \in Nat /\ 1 \in 1..Total(m)
      /\ \A i \in 1..Total(m) : Netstring(m)[i] = Sym(m, i)
  BY NetstringIs, TotalIs
<1>3. left'[w] = Netstring(m) /\ \A v \in Writer \ {w} : left'[v] = left[v]
  BY <1>1
<1>4. TypeOK'
  BY <1>1, <1>2 DEF TypeOK
<1>5. left'[w][1].of = m /\ \A i \in 1..Len(left'[w]) : left'[w][i] = Sym(m, Total(m) - Len(left'[w]) + i)
  <2> HIDE DEF Netstring
  <2>1. left'[w][1] = Sym(m, 1)
    BY <1>2, <1>3
  <2>2. \A i \in 1..Total(m) : Total(m) - Total(m) + i = i
    BY <1>2
  <2> QED BY <1>2, <1>3, <2>1, <2>2 DEF Sym
<1>6. \A v \in Writer : left[v] # <<>> => left[v][1].of \in begun
  BY DEF Inv, Suffixes
<1>7. Suffixes'
  <2>1. ASSUME NEW v \in Writer, left'[v] # <<>>
        PROVE  /\ left'[v][1].of \in begun' /\ Len(left'[v]) <= Total(left'[v][1].of)
               /\ \A i \in 1..Len(left'[v]) :
                    left'[v][i] = Sym(left'[v][1].of, Total(left'[v][1].of) - Len(left'[v]) + i)
    <3>1. CASE v = w
      BY <1>1, <1>2, <1>3, <1>5, <3>1
    <3>2. CASE v # w
      BY <1>1, <1>3, <2>1, <3>2 DEF Inv, Suffixes
    <3> QED BY <3>1, <3>2
  <2>2. \A u, v \in Writer :
          u # v /\ left'[u] # <<>> /\ left'[v] # <<>> => left'[u][1].of # left'[v][1].of
    BY <1>1, <1>3, <1>5, <1>6 DEF Inv, Suffixes
  <2> QED BY <1>1, <2>1, <2>2 DEF Suffixes
<1>8. Histories'
  <2>1. ASSUME NEW v \in Writer, left'[v] # <<>>, NEW i \in 1..Len(written')
        PROVE  written'[i] # left'[v][1].of
    BY <1>1, <1>3, <1>5, <2>1 DEF Inv, Histories
  <2> QED BY <1>1, <2>1 DEF Inv, Histories
<1> QED BY <1>4, <1>7, <1>8 DEF Inv

LEMMA WriteChunkInv ==
    ASSUME Inv, NEW w \in Writer, WriteChunk(w) PROVE Inv'
<1> DEFINE m == left[w][1].of
<1>0. /\ TypeOK /\ left \in [Writer -> Seq(Symbol)] /\ written \in Seq(Message)
      /\ stream \in Seq(Symbol)
  BY DEF Inv, TypeOK
<1>1. PICK k \in 1..Len(left[w]) :
             /\ left[w] # <<>> /\ Len(left[w]) \in Nat
             /\ left' = [left EXCEPT ![w] = SubSeq(left[w], k + 1, Len(left[w]))]
             /\ left'[w] \in Seq(Symbol) /\ Len(left'[w]) = Len(left[w]) - k
             /\ \A i \in 1..Len(left'[w]) : i + k \in 1..Len(left[w]) /\ left'[w][i] = left[w][i + k]
             /\ \A v \in Writer \ {w} : left'[v] = left[v]
             /\ stream' \in Seq(Symbol)
             /\ Len(stream') = Len(stream) + k /\ Len(stream') <= Capacity
             /\ \A i \in 1..Len(stream) : stream'[i] = stream[i]
             /\ \A i \in 1..k : stream'[Len(stream) + i] = left[w][i]
             /\ k = Len(left[w]) <=> left'[w] = <<>>
             /\ written' = IF left'[w] = <<>> THEN Append(written, left[w][1].of) ELSE written
             /\ writeEnd = "open"
             /\ disturbed' = (disturbed \/ \E v \in Writer \ {w} : InsideBy(v))
             /\ UNCHANGED <<begun, writeEnd, reading, pass, over, received>>
  BY <1>0, ChunkIs
<1>2. /\ m \in begun /\ m \in Message /\ Len(left[w]) <= Total(m) /\ Total(m) \in Nat
      /\ \A i \in 1..Len(left[w]) : left[w][i] = Sym(m, Total(m) - Len(left[w]) + i)
  <2>1. m \in begun /\ begun \subseteq Message
    BY <1>1 DEF Inv, Suffixes, TypeOK
  <2> QED BY <1>1, <2>1, TotalIs DEF Inv, Suffixes
<1>3. left' \in [Writer -> Seq(Symbol)]
  <2>1. left'[w] = SubSeq(left[w], k + 1, Len(left[w]))
    BY <1>0, <1>1
  <2> QED BY <1>0, <1>1, <2>1
<1>4. TypeOK'
  <2>1. written' \in Seq(Message)
    BY <1>0, <1>1, <1>2
  <2>2. disturbed' \in BOOLEAN
    BY <1>1
  <2> HIDE DEF m
  <2> QED BY <1>0, <1>1, <1>3, <2>1, <2>2 DEF TypeOK
<1>5. left'[w] # <<>> => \A i \in 1..Len(left'[w]) :
        left'[w][i] = Sym(m, Total(m) - Len(left'[w]) + i)
  <2> SUFFICES ASSUME NEW i \in 1..Len(left'[w])
               PROVE  left'[w][i] = Sym(m, Total(m) - Len(left'[w]) + i)
    OBVIOUS
  <2>1. i + k \in 1..Len(left[w]) /\ left'[w][i] = left[w][i + k]
    BY <1>1
  <2>2. Total(m) - Len(left[w]) + (i + k) = Total(m) - Len(left'[w]) + i
    BY <1>1, <1>2
  <2>3. left[w][i + k] = Sym(m, Total(m) - Len(left[w]) + (i + k))
    BY <1>2, <2>1
  <2> QED BY <2>1, <2>2, <2>3
<1>6. left'[w] # <<>> => left'[w][1].of = m
  <2> SUFFICES ASSUME left'[w] # <<>> PROVE left'[w][1].of = m
    OBVIOUS
  <2>1. 1 \in 1..Len(left'[w])
    BY <1>1
  <2>2. left'[w][1] = Sym(m, Total(m) - Len(left'[w]) + 1)
    BY <1>5, <2>1
  <2> QED BY <2>2, SymIs
<1> HIDE DEF m
<1>7. Suffixes'
  <2>1. ASSUME NEW v \in Writer, left'[v] # <<>>
        PROVE  /\ left[v] # <<>> /\ left'[v][1].of = left[v][1].of
               /\ left'[v][1].of \in begun' /\ Len(left'[v]) <= Total(left'[v][1].of)
               /\ \A i \in 1..Len(left'[v]) :
                    left'[v][i] = Sym(left'[v][1].of, Total(left'[v][1].of) - Len(left'[v]) + i)
    <3>1. CASE v = w
      <4>1. left'[v][1].of = m /\ left[v][1].of = m /\ left[v] # <<>>
        BY <1>1, <1>6, <2>1, <3>1 DEF m
      <4>2. m \in begun' /\ Len(left'[v]) <= Total(m)
        BY <1>1, <1>2, <3>1
      <4>3. \A i \in 1..Len(left'[v]) : left'[v][i] = Sym(m, Total(m) - Len(left'[v]) + i)
        BY <1>5, <2>1, <3>1
      <4> QED BY <4>1, <4>2, <4>3
    <3>2. CASE v # w
      <4>1. left'[v] = left[v] /\ begun' = begun
        BY <1>1, <3>2
      <4>2. /\ left[v][1].of \in begun /\ Len(left[v]) <= Total(left[v][1].of)
            /\ \A i \in 1..Len(left[v]) :
                 left[v][i] = Sym(left[v][1].of, Total(left[v][1].of) - Len(left[v]) + i)
        BY <2>1, <4>1 DEF Inv, Suffixes
      <4> QED BY <2>1, <4>1, <4>2
    <3> QED BY <3>1, <3>2
  <2>2. \A u, v \in Writer :
          u # v /\ left'[u] # <<>> /\ left'[v] # <<>> => left'[u][1].of # left'[v][1].of
    BY <2>1 DEF Inv, Suffixes
  <2>3. writeEnd' = "open"
    BY <1>1
  <2> QED BY <2>1, <2>2, <2>3 DEF Suffixes
<1>8. \A v \in Writer : left'[v] # <<>> => left[v] # <<>> /\ left'[v][1].of = left[v][1].of
  BY <1>1, <1>6 DEF m
<1>9. Histories'
  <2>1. \A i \in 1..Len(stream') : stream'[i].of \in begun'
    <3> SUFFICES ASSUME NEW i \in 1..Len(stream') PROVE stream'[i].of \in begun
      BY <1>1
    <3>1. CASE i \in 1..Len(stream)
      BY <1>1, <3>1 DEF Inv, Histories
    <3>2. CASE i \notin 1..Len(stream)
      <4>1. Len(stream) \in Nat /\ i - Len(stream) \in 1..k /\ Len(stream) + (i - Len(stream)) = i
        BY <1>0, <1>1, <3>2
      <4>2. stream'[i] = left[w][i - Len(stream)]
        BY <1>1, <4>1
      <4>3. i - Len(stream) \in 1..Len(left[w])
        BY <1>1, <4>1
      <4>4. left[w][i - Len(stream)].of = m
        BY <1>2, <4>3, SymIs
      <4> QED BY <1>2, <4>2, <4>4
    <3> QED BY <3>1, <3>2
  <2>2. CASE left'[w] # <<>>
    <3>1. /\ written' = written /\ begun' = begun /\ reading' = reading /\ pass' = pass
      BY <1>1, <2>2
    <3>2. \A v \in Writer : left'[v] # <<>> => \A i \in 1..Len(written') : written'[i] # left'[v][1].of
      BY <1>8, <3>1 DEF Inv, Histories
    <3> QED BY <2>1, <3>1, <3>2 DEF Inv, Histories
  <2>3. CASE left'[w] = <<>>
    <3>1. /\ Len(written) \in Nat /\ Len(written') = Len(written) + 1
          /\ \A i \in 1..Len(written) : written'[i] = written[i]
          /\ written'[Len(written) + 1] = m
          /\ \A i \in 1..Len(written') : i \in 1..Len(written) \/ i = Len(written) + 1
      BY <1>0, <1>1, <1>2, <2>3, Longer DEF m
    <3>2. \A i \in 1..Len(written) : written[i] # m
      BY <1>1 DEF Inv, Histories, m
    <3>3. \A v \in Writer : left'[v] # <<>> => left'[v][1].of # m
      BY <1>1, <1>8, <2>3 DEF Inv, Suffixes, m
    <3>4. \A i \in 1..Len(written') : written'[i] \in begun'
      BY <1>1, <1>2, <3>1 DEF Inv, Histories
    <3>5. \A i, j \in 1..Len(written') : i # j => written'[i] # written'[j]
      BY <3>1, <3>2 DEF Inv, Histories
    <3>6. \A v \in Writer : left'[v] # <<>> => \A i \in 1..Len(written') : written'[i] # left'[v][1].of
      BY <1>8, <3>1, <3>3 DEF Inv, Histories
    <3> QED BY <1>1, <2>1, <3>4, <3>5, <3>6 DEF Inv, Histories
  <2> QED BY <2>2, <2>3
<1> QED BY <1>4, <1>7, <1>9 DEF Inv

LEMMA CloseEndInv == ASSUME Inv, CloseEnd PROVE Inv'
<1>1. /\ left' = [w \in Writer |-> <<>>] /\ writeEnd' \in {"closed", "reset"}
      /\ disturbed' = (disturbed \/ \E v \in Writer : InsideBy(v))
      /\ UNCHANGED <<begun, stream, reading, pass, over, written, received>>
  BY DEF CloseEnd, DropAll
<1>2. TypeOK'
  <2>1. left' \in [Writer -> Seq(Symbol)]
    BY <1>1, EmptySeq
  <2> QED BY <1>1, <2>1 DEF Inv, TypeOK
<1> QED BY <1>1, <1>2 DEF Inv, Suffixes, Histories

LEMMA ReadSymbolInv == ASSUME Inv, ReadSymbol PROVE Inv'
<1> DEFINE c == Head(stream)
           s == Append(reading, c)
           m == s[1].of
<1>0. /\ TypeOK /\ stream \in Seq(Symbol) /\ stream # <<>> /\ reading \in Seq(Symbol)
      /\ received \in Seq(Message)
  BY DEF Inv, TypeOK, ReadSymbol
<1>1. /\ Len(stream) \in Nat \ {0} /\ c = stream[1] /\ c \in Symbol
      /\ Tail(stream) \in Seq(Symbol) /\ Len(Tail(stream)) = Len(stream) - 1
      /\ \A i \in 1..Len(Tail(stream)) : i + 1 \in 1..Len(stream) /\ Tail(stream)[i] = stream[i + 1]
  BY <1>0, Rest
<1>2. /\ s \in Seq(Symbol) /\ Len(reading) \in Nat /\ Len(s) = Len(reading) + 1
      /\ \A i \in 1..Len(reading) : s[i] = reading[i]
      /\ s[Len(reading) + 1] = c
      /\ \A i \in 1..Len(s) : i \in 1..Len(reading) \/ i = Len(reading) + 1
  <2> HIDE DEF c
  <2> QED BY <1>0, <1>1, Longer
<1>3. /\ stream' = Tail(stream) /\ UNCHANGED <<begun, left, writeEnd, written, disturbed>>
      /\ reading' \in {s, reading, <<>>} /\ pass' \in {m, pass} /\ (pass' # pass => m \in Passing)
      /\ received' \in {Append(received, m), received} /\ over' \in {over, "error", "gone"}
  BY DEF ReadSymbol, Stop, Deliver
<1>4. \A i \in 1..Len(s) : s[i].of \in begun
  <2>1. c.of \in begun
    BY <1>1 DEF Inv, Histories
  <2> HIDE DEF c, s
  <2> QED BY <1>2, <2>1 DEF Inv, Histories
<1>5. m \in begun /\ m \in Message
  <2>1. 1 \in 1..Len(s)
    BY <1>2
  <2> HIDE DEF s
  <2> QED BY <1>0, <1>4, <2>1 DEF TypeOK
<1> HIDE DEF c, s, m
<1>6. TypeOK'
  <2>1. reading' \in Seq(Symbol)
    BY <1>0, <1>2, <1>3, EmptySeq
  <2>2. received' \in Seq(Message)
    <3>1. received' = Append(received, m) \/ received' = received
      BY <1>3
    <3> QED BY <1>0, <1>5, <3>1
  <2>3. Len(stream') <= Capacity /\ stream' \in Seq(Symbol)
    BY <1>0, <1>1, <1>3, WireAssumption DEF TypeOK
  <2> QED BY <1>0, <1>3, <1>5, <2>1, <2>2, <2>3 DEF TypeOK
<1>7. Suffixes'
  BY <1>3 DEF Inv, Suffixes
<1>8. Histories'
  <2>1. \A i \in 1..Len(reading') : reading'[i].of \in begun'
    BY <1>3, <1>4 DEF Inv, Histories
  <2>2. \A i \in 1..Len(stream') : stream'[i].of \in begun'
    BY <1>1, <1>3 DEF Inv, Histories
  <2> QED BY <1>3, <1>5, <2>1, <2>2 DEF Inv, Histories
<1> QED BY <1>6, <1>7, <1>8 DEF Inv

LEMMA ReadSocketInv == ASSUME Inv, ReadSocket PROVE Inv'
<1>0. /\ TypeOK /\ stream \in Seq(Symbol) /\ stream # <<>> /\ received \in Seq(Message)
      /\ pass \in Message
  BY DEF Inv, TypeOK, ReadSocket
<1>1. /\ Len(stream) \in Nat \ {0}
      /\ Tail(stream) \in Seq(Symbol) /\ Len(Tail(stream)) = Len(stream) - 1
      /\ \A i \in 1..Len(Tail(stream)) : i + 1 \in 1..Len(stream) /\ Tail(stream)[i] = stream[i + 1]
  BY <1>0, Rest
<1>2. /\ stream' = Tail(stream) /\ UNCHANGED <<begun, left, writeEnd, written, disturbed, reading>>
      /\ pass' \in {None, pass} /\ over' \in {over, "error"}
      /\ received' \in {Append(received, pass), received}
  BY DEF ReadSocket, Stop, Deliver
<1>3. TypeOK'
  <2>1. received' \in Seq(Message)
    BY <1>0, <1>2
  <2>2. Len(stream') <= Capacity /\ stream' \in Seq(Symbol)
    BY <1>0, <1>1, <1>2, WireAssumption DEF TypeOK
  <2> QED BY <1>0, <1>2, <2>1, <2>2 DEF TypeOK
<1>4. Suffixes'
  BY <1>2 DEF Inv, Suffixes
<1>5. Histories'
  <2>1. \A i \in 1..Len(stream') : stream'[i].of \in begun'
    BY <1>1, <1>2 DEF Inv, Histories
  <2> QED BY <1>2, <2>1 DEF Inv, Histories
<1> QED BY <1>3, <1>4, <1>5 DEF Inv

\* A step of the reader that takes nothing off the stream.
LEMMA QuietInv ==
    ASSUME Inv, UNCHANGED <<begun, left, stream, writeEnd, reading, pass, written, received>>,
           over' \in {"no", "short", "end", "error", "gone"}, disturbed' \in BOOLEAN
    PROVE  Inv'
BY DEF Inv, TypeOK, Suffixes, Histories

LEMMA NextIs ==
    ASSUME Next
    PROVE  \/ \E w \in Writer, m \in Message : StartWrite(w, m)
           \/ \E w \in Writer : WriteChunk(w)
           \/ CloseEnd \/ ReadSymbol \/ ReadSocket \/ ReadEnd \/ ReadShort \/ Interrupt \/ ReaderLeaves
BY DEF Next, Write, WriteFails, Read

LEMMA NextInv == Inv /\ [Next]_vars => Inv'
<1> SUFFICES ASSUME Inv, [Next]_vars PROVE Inv'
  OBVIOUS
<1>0. disturbed \in BOOLEAN /\ over \in {"no", "short", "end", "error", "gone"}
  BY DEF Inv, TypeOK
<1>1. CASE UNCHANGED vars
  BY <1>0, <1>1, QuietInv DEF vars
<1>2. CASE ReadEnd \/ ReadShort \/ Interrupt \/ ReaderLeaves
  BY <1>0, <1>2, QuietInv DEF ReadEnd, ReadShort, Interrupt, ReaderLeaves, Stop, EndOf
<1> QED BY <1>1, <1>2, NextIs, StartWriteInv, WriteChunkInv, CloseEndInv, ReadSymbolInv, ReadSocketInv

LEMMA AlwaysInv == Spec => []Inv
BY InitInv, NextInv, PTL DEF Spec

\* Every variable has its type: what is written and not read, and what a thread
\* has left of a message, are symbols of netstrings, and the stream holds no
\* more than the kernel takes.
THEOREM TypesCorrect == Spec => []TypeOK
<1>1. Inv => TypeOK
  BY DEF Inv
<1> QED BY AlwaysInv, <1>1, PTL

----------------------------------------------------------------------------
(* Short values.                                                            *)

AllShort == \A m \in begun : m \notin Passing /\ Size[m] + 3 <= Chunk
Atomic ==
    AllShort =>
        /\ \A w \in Writer : ~InsideBy(w)
        /\ disturbed /\ writeEnd = "open" => over # "no"
AtomicInv == Inv /\ Atomic

\* A short message goes in one piece.
LEMMA OnePiece ==
    ASSUME NEW m \in Message, m \notin Passing, Size[m] + 3 <= Chunk
    PROVE  SubSeq(Netstring(m), Piece(Netstring(m)) + 1, Len(Netstring(m))) = <<>>
<1>1. /\ Netstring(m) \in Seq(Symbol) /\ Len(Netstring(m)) = Total(m) /\ Total(m) = Size[m] + 3
      /\ Size[m] \in Nat /\ Netstring(m)[Total(m)] = Sym(m, Total(m))
  BY NetstringIs, TotalIs
<1>2. Is(Netstring(m)[Len(Netstring(m))]) # "fd"
  BY <1>1, SymIs DEF Is
<1>3. Piece(Netstring(m)) = Len(Netstring(m))
  <2> HIDE DEF Netstring
  <2> QED BY <1>1, <1>2, WireAssumption DEF Piece, SmallerOf
<1> QED BY <1>1, <1>3, SubSeqEmpty

LEMMA AtomicStep == AtomicInv /\ [Next]_vars => Atomic'
<1> SUFFICES ASSUME AtomicInv, [Next]_vars, AllShort'
             PROVE  /\ \A w \in Writer : ~InsideBy(w)'
                    /\ disturbed' /\ writeEnd' = "open" => over' # "no"
  BY DEF Atomic
<1>0. Inv /\ TypeOK /\ left \in [Writer -> Seq(Symbol)] /\ begun \subseteq Message
  BY DEF AtomicInv, Inv, TypeOK
<1>1. ASSUME begun \subseteq begun'
      PROVE  /\ AllShort /\ \A w \in Writer : ~InsideBy(w)
             /\ disturbed /\ writeEnd = "open" => over # "no"
  BY <1>1 DEF AtomicInv, Atomic, AllShort
<1>2. CASE UNCHANGED vars
  BY <1>1, <1>2 DEF vars, InsideBy
<1>3. ASSUME NEW w \in Writer, NEW m \in Message, StartWrite(w, m)
      PROVE  /\ \A v \in Writer : ~InsideBy(v)'
             /\ disturbed' /\ writeEnd' = "open" => over' # "no"
  <2>1. /\ begun \subseteq begun' /\ left' = [left EXCEPT ![w] = Netstring(m)]
        /\ UNCHANGED <<disturbed, writeEnd, over>>
    BY <1>3 DEF StartWrite
  <2>2. left'[w] = Netstring(m) /\ \A v \in Writer \ {w} : left'[v] = left[v]
    BY <1>0, <2>1
  <2>3. Netstring(m)[1].of = m
    <3>1. 1 \in 1..Total(m)
      BY TotalIs
    <3>2. Netstring(m)[1] = Sym(m, 1)
      BY <3>1, NetstringIs
    <3> QED BY <3>2, SymIs
  <2>4. ~InsideBy(w)'
    BY <2>2, <2>3 DEF InsideBy
  <2>5. \A v \in Writer \ {w} : ~InsideBy(v)'
    BY <1>1, <2>1, <2>2 DEF InsideBy
  <2> QED BY <1>1, <2>1, <2>4, <2>5
<1>4. ASSUME NEW w \in Writer, WriteChunk(w)
      PROVE  /\ \A v \in Writer : ~InsideBy(v)'
             /\ disturbed' /\ writeEnd' = "open" => over' # "no"
  <2> DEFINE m == left[w][1].of
  <2>1. /\ begun' = begun /\ left[w] # <<>>
        /\ left' = [left EXCEPT ![w] = SubSeq(left[w], Piece(left[w]) + 1, Len(left[w]))]
        /\ disturbed' = (disturbed \/ \E v \in Writer \ {w} : InsideBy(v))
        /\ UNCHANGED <<writeEnd, over>>
    BY <1>4 DEF WriteChunk
  <2>2. left[w] = Netstring(m) /\ m \in begun
    BY <1>0, <1>1, <2>1 DEF InsideBy, Inv, Suffixes
  <2>3. m \in Message /\ m \notin Passing /\ Size[m] + 3 <= Chunk
    BY <1>0, <1>1, <2>1, <2>2 DEF AllShort
  <2> HIDE DEF m
  <2>4. SubSeq(left[w], Piece(left[w]) + 1, Len(left[w])) = <<>>
    BY <2>2, <2>3, OnePiece
  <2>5. left'[w] = <<>> /\ \A v \in Writer \ {w} : left'[v] = left[v]
    BY <1>0, <2>1, <2>4
  <2>6. \A v \in Writer : ~InsideBy(v)'
    BY <1>1, <2>1, <2>5 DEF InsideBy
  <2> QED BY <1>1, <2>1, <2>6
<1>5. CASE CloseEnd
  <2>1. begun' = begun /\ left' = [w \in Writer |-> <<>>] /\ writeEnd' # "open"
    BY <1>5 DEF CloseEnd, DropAll
  <2> QED BY <2>1 DEF InsideBy
<1>6. CASE ReadSymbol \/ ReadSocket \/ ReadEnd \/ ReadShort \/ Interrupt \/ ReaderLeaves
  <2>1. /\ UNCHANGED <<begun, left, writeEnd>>
        /\ over' = "no" => over = "no"
        /\ over' = "no" => disturbed' = disturbed
    BY <1>6 DEF ReadSymbol, ReadSocket, ReadEnd, ReadShort, Interrupt, ReaderLeaves, Stop, EndOf
  <2> QED BY <1>1, <2>1 DEF InsideBy
<1> QED BY <1>2, <1>3, <1>4, <1>5, <1>6, NextIs

LEMMA AlwaysAtomic == Spec => []AtomicInv
<1>1. Init => Atomic
  BY DEF Init, Atomic, InsideBy
<1>2. AtomicInv /\ [Next]_vars => AtomicInv'
  BY NextInv, AtomicStep DEF AtomicInv
<1>3. Inv /\ Atomic <=> AtomicInv
  BY DEF AtomicInv
<1> QED BY <1>1, <1>2, <1>3, InitInv, PTL DEF Spec

\* A message that goes in one piece is never what another gets into: threads
\* that send short values without sockets need no lock, however many they are.
THEOREM ShortIsAtomicCorrect == Spec => []ShortIsAtomic
<1>1. AtomicInv => ShortIsAtomic
  <2> SUFFICES ASSUME AtomicInv, disturbed, writeEnd = "open", over = "no",
                      \A m \in begun : ~(m \in Passing \/ Size[m] + 3 > Chunk)
               PROVE  FALSE
    BY DEF ShortIsAtomic
  <2>1. \A m \in begun : Size[m] \in Nat
    BY TotalIs DEF AtomicInv, Inv, TypeOK
  <2>2. AllShort
    BY <2>1, WireAssumption DEF AllShort
  <2> QED BY <2>2 DEF AtomicInv, Atomic
<1> QED BY AlwaysAtomic, <1>1, PTL

----------------------------------------------------------------------------
(* The line: what was written and is not delivered.                         *)

Line == reading \o stream

\* The symbols of a message come in order, and each behind the one before it;
\* the socket of pass is behind what was taken off the line.
InOrder ==
    /\ \A i, j \in 1..Len(Line) : i < j /\ Line[i].of = Line[j].of => Line[i].at < Line[j].at
    /\ \A w \in Writer : left[w] # <<>> =>
         \A i \in 1..Len(Line) : Line[i].of = left[w][1].of => Line[i].at < left[w][1].at
    /\ \A i \in 1..Len(Line) : Line[i].of = pass => Line[i].at = Size[pass] + 4
    /\ \A w \in Writer : left[w] # <<>> /\ left[w][1].of = pass => left[w][1].at = Size[pass] + 4
PrecededIn(line, m, c, n) ==
    \/ c.at = 1
    \/ \E j \in 1..n : After(line[j]) = c
    \/ m = c.of /\ c.at = Size[c.of] + 4
Preceded(c, n) == PrecededIn(Line, pass, c, n)
Consecutive ==
    /\ \A i \in 1..Len(Line) : Preceded(Line[i], i - 1)
    /\ \A w \in Writer : left[w] # <<>> => Preceded(left[w][1], Len(Line))
HalfRead ==
    /\ pass # None => reading = <<>>
    /\ Whole(reading) => \A j \in 1..Len(reading) : reading[j].at = j
    /\ reading # <<>> => Len(reading) < Size[reading[1].of] + 3
\* The messages on the line are those written and not received, in order.
Pending == Len(received) + 1..Len(written)
Queued ==
    /\ \A i \in 1..Len(Line) : IsLast(Line[i]) => \E k \in Pending : written[k] = Line[i].of
    /\ \A k \in Pending : \E i \in 1..Len(Line) : Line[i] = LastOf(written[k])
    /\ \A k, l \in Pending : \A i, j \in 1..Len(Line) :
         k < l /\ Line[i] = LastOf(written[k]) /\ Line[j] = LastOf(written[l]) => i < j

\* The line ends between two messages; it goes on with d.
AtEdgeIn(line, p) == IF line = <<>> THEN p = None ELSE IsLast(line[Len(line)])
AwaitsIn(line, p, d) ==
    IF line = <<>> THEN p # None /\ d = LastOf(p)
    ELSE ~IsLast(line[Len(line)]) /\ d = After(line[Len(line)])
AtEdge    == AtEdgeIn(Line, pass)
Awaits(d) == AwaitsIn(Line, pass, d)
Succeeds(c, d) == IF IsLast(c) THEN d.at = 1 ELSE d = After(c)
\* Undisturbed, one message is behind the other.
Tidy ==
    /\ \A i \in 1..Len(Line) - 1 : Succeeds(Line[i], Line[i + 1])
    /\ Line # <<>> => IF pass = None THEN Line[1].at = 1 ELSE Line[1] = LastOf(pass)
    /\ \A w \in Writer : left[w] # <<>> => left[w][1].at = 1 \/ Awaits(left[w][1])
    /\ ~AtEdge => \E w \in Writer : left[w] # <<>> /\ Awaits(left[w][1])
    /\ Whole(reading)
\* Disturbed, a message is cut by another, or by the end.
Cut ==
    \/ \E i \in 1..Len(Line) - 1 : ~IsLast(Line[i]) /\ Line[i + 1].of # Line[i].of
    \/ pass # None /\ Line # <<>> /\ Line[1].of # pass
    \/ writeEnd # "open" /\ ~AtEdge

LEMMA ConcatIs ==
    ASSUME NEW a \in Seq(Symbol), NEW b \in Seq(Symbol), NEW u, u = a \o b
    PROVE  /\ u \in Seq(Symbol) /\ Len(u) = Len(a) + Len(b)
           /\ Len(u) \in Nat /\ Len(a) \in Nat /\ Len(b) \in Nat
           /\ \A i \in 1..Len(a) : i \in 1..Len(u) /\ u[i] = a[i]
           /\ \A i \in 1..Len(b) : Len(a) + i \in 1..Len(u) /\ u[Len(a) + i] = b[i]
           /\ \A i \in 1..Len(u) : i \in 1..Len(a) \/ (i - Len(a) \in 1..Len(b) /\ u[i] = b[i - Len(a)])
           /\ u = <<>> <=> Len(u) = 0
<1>1. Len(a) \in Nat /\ Len(b) \in Nat
  OBVIOUS
<1>2. /\ u \in Seq(Symbol) /\ Len(u) = Len(a) + Len(b)
      /\ \A i \in 1..Len(a) + Len(b) : u[i] = IF i <= Len(a) THEN a[i] ELSE b[i - Len(a)]
  BY <1>1, ConcatProperties
<1>3. \A i \in 1..Len(a) : i \in 1..Len(u) /\ u[i] = a[i]
  BY <1>1, <1>2
<1>4. ASSUME NEW i \in 1..Len(b) PROVE Len(a) + i \in 1..Len(u) /\ u[Len(a) + i] = b[i]
  <2>1. Len(a) + i \in 1..Len(a) + Len(b) /\ ~(Len(a) + i <= Len(a)) /\ Len(a) + i - Len(a) = i
    BY <1>1
  <2> QED BY <1>2, <2>1
<1>5. \A i \in 1..Len(u) : i \in 1..Len(a) \/ (i - Len(a) \in 1..Len(b) /\ u[i] = b[i - Len(a)])
  BY <1>1, <1>2
<1>6. u = <<>> <=> Len(u) = 0
  BY <1>2
<1> QED BY <1>1, <1>2, <1>3, <1>4, <1>5, <1>6

\* The line is what the reader has and what the stream has.
LEMMA LineIs ==
    ASSUME Inv
    PROVE  /\ Line \in Seq(Symbol) /\ Len(Line) = Len(reading) + Len(stream)
           /\ Len(Line) \in Nat /\ Len(reading) \in Nat /\ Len(stream) \in Nat
           /\ \A i \in 1..Len(reading) : i \in 1..Len(Line) /\ Line[i] = reading[i]
           /\ \A i \in 1..Len(stream) : Len(reading) + i \in 1..Len(Line) /\ Line[Len(reading) + i] = stream[i]
           /\ \A i \in 1..Len(Line) : i \in 1..Len(reading)
                \/ (i - Len(reading) \in 1..Len(stream) /\ Line[i] = stream[i - Len(reading)])
           /\ Line = <<>> <=> Len(Line) = 0
BY ConcatIs DEF Inv, TypeOK, Line

LEMMA SymbolIs ==
    ASSUME Inv, NEW i \in 1..Len(Line)
    PROVE  /\ Line[i] \in Symbol /\ Line[i].of \in begun /\ Line[i].of \in Message
           /\ Line[i] = Sym(Line[i].of, Line[i].at) /\ Line[i].at \in 1..Total(Line[i].of)
           /\ Line[i].at \in Nat
<1>1. begun \subseteq Message
  BY DEF Inv, TypeOK
<1>2. Line[i] \in Symbol
  BY LineIs
<1>3. Line[i].of \in begun
  BY LineIs DEF Inv, Histories
<1> QED BY <1>1, <1>2, <1>3 DEF Symbol, Sym

\* A piece of what w has left comes to the end of the line.
Grown(w, k) ==
    /\ left[w] # <<>> /\ k \in 1..Len(left[w]) /\ Len(left[w]) \in Nat
    /\ Len(Line') = Len(Line) + k
    /\ \A i \in 1..Len(Line) : Line'[i] = Line[i]
    /\ \A i \in 1..k : Line'[Len(Line) + i] = left[w][i]
    /\ \A i \in 1..Len(Line') : i \in 1..Len(Line) \/ i - Len(Line) \in 1..k
    /\ left'[w] # <<>> => k + 1 \in 1..Len(left[w]) /\ left'[w][1] = left[w][k + 1]
    /\ left'[w] = <<>> => k = Len(left[w])
    /\ \A v \in Writer \ {w} : left'[v] = left[v]
    /\ written' = IF left'[w] = <<>> THEN Append(written, left[w][1].of) ELSE written
    /\ writeEnd = "open"
    /\ disturbed' = (disturbed \/ \E v \in Writer \ {w} : InsideBy(v))
    /\ UNCHANGED <<begun, writeEnd, reading, pass, over, received>>

LEMMA GrownIs ==
    ASSUME Inv, NEW w \in Writer, WriteChunk(w) PROVE \E k \in Nat : Grown(w, k)
<1>1. PICK k \in 1..Len(left[w]) :
             /\ left[w] # <<>> /\ Len(left[w]) \in Nat
             /\ left'[w] \in Seq(Symbol) /\ Len(left'[w]) = Len(left[w]) - k
             /\ \A i \in 1..Len(left'[w]) : i + k \in 1..Len(left[w]) /\ left'[w][i] = left[w][i + k]
             /\ \A v \in Writer \ {w} : left'[v] = left[v]
             /\ stream' \in Seq(Symbol) /\ Len(stream') = Len(stream) + k
             /\ \A i \in 1..Len(stream) : stream'[i] = stream[i]
             /\ \A i \in 1..k : stream'[Len(stream) + i] = left[w][i]
             /\ k = Len(left[w]) <=> left'[w] = <<>>
             /\ written' = IF left'[w] = <<>> THEN Append(written, left[w][1].of) ELSE written
             /\ writeEnd = "open"
             /\ disturbed' = (disturbed \/ \E v \in Writer \ {w} : InsideBy(v))
             /\ UNCHANGED <<begun, writeEnd, reading, pass, over, received>>
  BY ChunkIs DEF Inv
<1>3. /\ Len(Line) = Len(reading) + Len(stream) /\ Len(reading) \in Nat /\ Len(stream) \in Nat
      /\ \A i \in 1..Len(reading) : Line[i] = reading[i]
      /\ \A i \in 1..Len(stream) : Line[Len(reading) + i] = stream[i]
      /\ \A i \in 1..Len(Line) : i \in 1..Len(reading)
           \/ (i - Len(reading) \in 1..Len(stream) /\ Line[i] = stream[i - Len(reading)])
  BY LineIs
<1>4. /\ Len(Line') = Len(reading) + Len(stream')
      /\ \A i \in 1..Len(reading) : Line'[i] = reading[i]
      /\ \A i \in 1..Len(stream') : Line'[Len(reading) + i] = stream'[i]
  <2>1. reading \in Seq(Symbol) /\ stream' \in Seq(Symbol) /\ Line' = reading \o stream'
    BY <1>1 DEF Inv, TypeOK, Line
  <2> QED BY <2>1, ConcatIs
<1>5. k \in Nat /\ Len(Line') = Len(Line) + k
  BY <1>1, <1>3, <1>4
<1>6. ASSUME NEW i \in 1..Len(Line) PROVE Line'[i] = Line[i]
  <2>1. CASE i \in 1..Len(reading)
    BY <1>3, <1>4, <2>1
  <2>2. CASE i - Len(reading) \in 1..Len(stream)
    <3> DEFINE j == i - Len(reading)
    <3>1. j \in 1..Len(stream) /\ j \in 1..Len(stream') /\ Len(reading) + j = i
      BY <1>1, <1>3, <2>2
    <3> HIDE DEF j
    <3> QED BY <1>1, <1>3, <1>4, <3>1
  <2> QED BY <1>3, <2>1, <2>2
<1>7. ASSUME NEW i \in 1..k PROVE Line'[Len(Line) + i] = left[w][i]
  <2>1. Len(stream) + i \in 1..Len(stream') /\ Len(Line) + i = Len(reading) + (Len(stream) + i)
    BY <1>1, <1>3
  <2> QED BY <1>1, <1>4, <2>1
<1>8. \A i \in 1..Len(Line') : i \in 1..Len(Line) \/ i - Len(Line) \in 1..k
  BY <1>3, <1>5
<1>9. left'[w] # <<>> => k + 1 \in 1..Len(left[w]) /\ left'[w][1] = left[w][k + 1]
  <2> SUFFICES ASSUME left'[w] # <<>> PROVE k + 1 \in 1..Len(left[w]) /\ left'[w][1] = left[w][k + 1]
    OBVIOUS
  <2>1. 1 \in 1..Len(left'[w]) /\ 1 + k = k + 1
    BY <1>1
  <2> QED BY <1>1, <2>1
<1> QED BY <1>1, <1>5, <1>6, <1>7, <1>8, <1>9 DEF Grown

\* The first n symbols of the line, all of m, are taken: the last of them
\* delivers m, or is the comma behind which its socket comes.
Dropped(n, m) ==
    /\ n \in 1..Len(Line) /\ m \in begun
    /\ Len(Line') = Len(Line) - n
    /\ \A i \in 1..Len(Line') : i + n \in 1..Len(Line) /\ Line'[i] = Line[i + n]
    /\ \A i \in 1..n : Line[i].of = m
    /\ \/ /\ Line[n] = LastOf(m) /\ pass' = None /\ received' = Append(received, m)
          /\ m \notin Unloadable /\ pass \in {None, m}
       \/ /\ m \in Passing /\ Line[n] = Sym(m, Size[m] + 3)
          /\ pass = None /\ pass' = m /\ received' = received
    /\ UNCHANGED <<begun, left, writeEnd, written, disturbed>>
Kept == Line' = Line /\ UNCHANGED <<begun, left, writeEnd, pass, written, received, disturbed>>

\* A symbol fits, at the end of a whole netstring, only if it is a comma.
LEMMA FitsIs ==
    ASSUME NEW c \in Symbol, reading \in Seq(Symbol), Fits(c), NEW s, s = Append(reading, c), Complete(s)
    PROVE  Is(c) = "comma" /\ reading # <<>>
<1>1. /\ Len(reading) \in Nat /\ Len(s) = Len(reading) + 1
      /\ reading # <<>> => s[1] = reading[1] /\ reading[1] \in Symbol
      /\ reading = <<>> => Len(s) = 1 /\ s[1] = c
  BY Longer
<1>2. \A d \in Symbol : Size[d.of] \in Nat
  BY TotalIs DEF Symbol
<1>3. Len(s) = Size[s[1].of] + 3
  BY DEF Complete
<1>4. reading # <<>>
  BY <1>1, <1>2, <1>3
<1>5. Len(reading) = Size[reading[1].of] + 2 /\ Size[reading[1].of] \in Nat
  BY <1>1, <1>2, <1>3, <1>4
<1> QED BY <1>4, <1>5 DEF Fits

LEMMA CommaIs ==
    ASSUME NEW c \in Symbol, Is(c) = "comma" PROVE c.at = Size[c.of] + 3
BY DEF Is

LEMMA SocketIs ==
    ASSUME NEW c \in Symbol, Is(c) = "fd" PROVE c.at = Size[c.of] + 4
BY DEF Is

LEMMA ReadSymbolIs ==
    ASSUME Inv, ReadSymbol, over' = "no"
    PROVE  /\ stream # <<>> /\ pass = None /\ Fits(Head(stream)) /\ over = "no"
           /\ \/ /\ Kept /\ reading' = Append(reading, Head(stream)) /\ ~Complete(reading')
              \/ /\ \E n \in Nat, m \in Message : Dropped(n, m)
                 /\ reading' = <<>>
<1> DEFINE c == Head(stream)
           s == Append(reading, c)
           m == s[1].of
           n == Len(s)
<1>0. /\ stream \in Seq(Symbol) /\ stream # <<>> /\ reading \in Seq(Symbol)
      /\ pass = None /\ over = "no"
  BY DEF Inv, TypeOK, ReadSymbol
<1>1. /\ Len(stream) \in Nat \ {0} /\ c = stream[1] /\ c \in Symbol
      /\ Tail(stream) \in Seq(Symbol) /\ Len(Tail(stream)) = Len(stream) - 1
      /\ \A i \in 1..Len(Tail(stream)) : i + 1 \in 1..Len(stream) /\ Tail(stream)[i] = stream[i + 1]
  BY <1>0, Rest
<1>2. /\ s \in Seq(Symbol) /\ Len(reading) \in Nat /\ n = Len(reading) + 1
      /\ \A i \in 1..Len(reading) : s[i] = reading[i]
      /\ s[Len(reading) + 1] = c
      /\ \A i \in 1..n : i \in 1..Len(reading) \/ i = Len(reading) + 1
  <2> HIDE DEF c
  <2> QED BY <1>0, <1>1, Longer
<1>3. /\ stream' = Tail(stream) /\ UNCHANGED <<begun, left, writeEnd, written, disturbed>>
      /\ Fits(c)
      /\ \/ /\ ~Complete(s) /\ reading' = s /\ UNCHANGED <<pass, received>>
         \/ /\ Complete(s) /\ Whole(s) /\ reading' = <<>> /\ m \notin Unloadable
            /\ IF m \in Passing THEN pass' = m /\ UNCHANGED received
               ELSE received' = Append(received, m) /\ UNCHANGED pass
  BY DEF ReadSymbol, Loads, Stop, Deliver
<1> HIDE DEF c, s, m, n
<1>4. /\ n \in 1..Len(Line) /\ n \in Nat /\ \A i \in 1..n : Line[i] = s[i]
      /\ Len(Line) = Len(reading) + Len(stream)
      /\ \A i \in 1..Len(stream) : Len(reading) + i \in 1..Len(Line) /\ Line[Len(reading) + i] = stream[i]
  <2>1. /\ Len(Line) = Len(reading) + Len(stream) /\ Len(stream) \in Nat
        /\ \A i \in 1..Len(reading) : Line[i] = reading[i]
        /\ \A i \in 1..Len(stream) : Len(reading) + i \in 1..Len(Line) /\ Line[Len(reading) + i] = stream[i]
    BY LineIs
  <2>2. Line[Len(reading) + 1] = c
    BY <1>1, <2>1
  <2> QED BY <1>1, <1>2, <2>1, <2>2
<1>5. CASE ~Complete(s) /\ reading' = s /\ UNCHANGED <<pass, received>>
  <2>1. Line' = s \o Tail(stream)
    BY <1>3, <1>5 DEF Line
  <2>2. /\ Line' \in Seq(Symbol) /\ Len(Line') = n + Len(Tail(stream))
        /\ \A i \in 1..n : Line'[i] = s[i]
        /\ \A i \in 1..Len(Line') : i \in 1..n
             \/ (i - n \in 1..Len(Tail(stream)) /\ Line'[i] = Tail(stream)[i - n])
    <3>1. s \in Seq(Symbol) /\ Tail(stream) \in Seq(Symbol)
      BY <1>1, <1>2
    <3> HIDE DEF Line
    <3> QED BY <2>1, <3>1, ConcatIs DEF n
  <2>3. Line \in Seq(Symbol) /\ Len(Line') = Len(Line)
    BY <1>1, <1>2, <1>4, <2>2, LineIs
  <2>4. ASSUME NEW i \in 1..Len(Line') PROVE Line'[i] = Line[i]
    <3>1. CASE i \in 1..n
      BY <1>4, <2>2, <3>1
    <3>2. CASE i - n \in 1..Len(Tail(stream)) /\ Line'[i] = Tail(stream)[i - n]
      <4>1. Tail(stream)[i - n] = stream[(i - n) + 1] /\ (i - n) + 1 \in 1..Len(stream)
        BY <1>1, <3>2
      <4>2. Len(reading) + ((i - n) + 1) = i
        BY <1>2, <1>4
      <4>3. Line[i] = stream[(i - n) + 1]
        BY <1>4, <4>1, <4>2
      <4> QED BY <3>2, <4>1, <4>3
    <3> QED BY <2>2, <3>1, <3>2
  <2>5. Line' = Line
    BY <2>2, <2>3, <2>4, SeqEqual
  <2> QED BY <1>0, <1>3, <1>5, <2>5 DEF Kept, c, s
<1>6. CASE /\ Complete(s) /\ Whole(s) /\ reading' = <<>> /\ m \notin Unloadable
           /\ IF m \in Passing THEN pass' = m /\ UNCHANGED received
              ELSE received' = Append(received, m) /\ UNCHANGED pass
  <2>1. Line' = <<>> \o Tail(stream)
    BY <1>3, <1>6 DEF Line
  <2>2. Line' = Tail(stream)
    BY <1>1, <2>1, ConcatEmptySeq
  <2>3. Len(Line') = Len(Line) - n
    BY <1>1, <1>2, <1>4, <2>2
  <2>4. ASSUME NEW i \in 1..Len(Line') PROVE i + n \in 1..Len(Line) /\ Line'[i] = Line[i + n]
    <3>1. Line'[i] = stream[i + 1] /\ i + 1 \in 1..Len(stream)
      BY <1>1, <2>2
    <3>2. Len(reading) + (i + 1) = i + n
      BY <1>2, <1>4, <2>2
    <3> QED BY <1>4, <3>1, <3>2
  <2>5. \A i \in 1..n : Line[i].of = m
    BY <1>2, <1>4, <1>6 DEF Whole, m, n
  <2>6. Line[n] = c /\ c.of = m /\ m \in Message /\ m \in begun
    <3>1. Line[n] = c /\ n \in 1..n
      BY <1>2, <1>4
    <3> QED BY <1>4, <2>5, <3>1, SymbolIs
  <2>7. Line[n] = Sym(m, Size[m] + 3)
    <3>1. Is(c) = "comma"
      BY <1>0, <1>1, <1>3, <1>6, FitsIs DEF s
    <3> QED BY <1>1, <1>4, <2>6, <3>1, CommaIs, SymbolIs
  <2>8. m \notin Passing => Line[n] = LastOf(m)
    BY <2>6, <2>7, TotalIs DEF LastOf
  <2>9. Dropped(n, m)
    BY <1>0, <1>3, <1>4, <1>6, <2>3, <2>4, <2>5, <2>6, <2>7, <2>8 DEF Dropped
  <2> QED BY <1>0, <1>3, <1>4, <1>6, <2>6, <2>9 DEF c
<1> QED BY <1>3, <1>5, <1>6

LEMMA ReadSocketIs ==
    ASSUME Inv, ReadSocket, over' = "no", HalfRead, Consecutive
    PROVE  /\ Dropped(1, pass) /\ UNCHANGED reading /\ over = "no"
<1>0. /\ stream \in Seq(Symbol) /\ stream # <<>> /\ reading = <<>> /\ pass # None /\ over = "no"
      /\ pass \in Message /\ pass \in begun /\ pass \in Passing
  BY DEF Inv, TypeOK, Histories, ReadSocket, HalfRead
<1>1. /\ Len(stream) \in Nat \ {0} /\ Head(stream) = stream[1] /\ Head(stream) \in Symbol
      /\ Tail(stream) \in Seq(Symbol) /\ Len(Tail(stream)) = Len(stream) - 1
      /\ \A i \in 1..Len(Tail(stream)) : i + 1 \in 1..Len(stream) /\ Tail(stream)[i] = stream[i + 1]
  BY <1>0, Rest
<1>2. /\ stream' = Tail(stream) /\ UNCHANGED <<begun, left, writeEnd, written, disturbed, reading>>
      /\ Is(Head(stream)) = "fd" /\ pass' = None /\ received' = Append(received, pass)
  BY DEF ReadSocket, Stop, Deliver
<1>3. Line = stream /\ Line' = Tail(stream)
  <2>1. Line = <<>> \o stream /\ Line' = <<>> \o Tail(stream)
    BY <1>0, <1>2 DEF Line
  <2> QED BY <1>0, <1>1, <2>1, ConcatEmptySeq
<1>4. 1 \in 1..Len(Line) /\ Line[1] = Head(stream)
  BY <1>1, <1>3
<1>5. Line[1].of = pass /\ Line[1].at = Size[pass] + 4
  <2>1. Line[1].at = Size[Line[1].of] + 4 /\ Size[Line[1].of] \in Nat
    BY <1>1, <1>2, <1>4, SocketIs, SymbolIs, TotalIs
  <2>2. Preceded(Line[1], 1 - 1)
    BY <1>4 DEF Consecutive
  <2> QED BY <2>1, <2>2 DEF Preceded, PrecededIn
<1>6. Line[1] = LastOf(pass)
  BY <1>0, <1>4, <1>5, SymbolIs, TotalIs DEF LastOf
<1>7. \A i \in 1..1 : Line[i].of = pass
  BY <1>5
<1>8. pass \notin Unloadable
  BY <1>0, WireAssumption
<1> QED BY <1>0, <1>1, <1>2, <1>3, <1>4, <1>6, <1>7, <1>8 DEF Dropped

\* What a step may do to the line while the reader goes on.
LEMMA LineStep ==
    ASSUME Inv, [Next]_vars, over' = "no", over = "no" => HalfRead /\ Consecutive
    PROVE  /\ over = "no"
           /\ \/ Kept
              \/ \E w \in Writer, m \in Message : StartWrite(w, m) /\ Line' = Line
              \/ \E w \in Writer, k \in Nat : Grown(w, k)
              \/ CloseEnd /\ Line' = Line
              \/ \E n \in Nat, m \in Message : Dropped(n, m)
<1>1. CASE UNCHANGED vars
  BY <1>1 DEF vars, Kept, Line
<1>2. CASE ReadEnd \/ ReadShort \/ Interrupt \/ ReaderLeaves
  BY <1>2 DEF ReadEnd, ReadShort, Interrupt, ReaderLeaves, Stop, EndOf
<1>3. ASSUME NEW w \in Writer, NEW m \in Message, StartWrite(w, m) PROVE over = "no" /\ Line' = Line
  BY <1>3 DEF StartWrite, Line
<1>4. ASSUME NEW w \in Writer, WriteChunk(w) PROVE over = "no" /\ \E k \in Nat : Grown(w, k)
  BY <1>4, GrownIs DEF Grown
<1>5. CASE CloseEnd
  BY <1>5 DEF CloseEnd, Line
<1>6. CASE ReadSymbol
  BY <1>6, ReadSymbolIs
<1>7. CASE ReadSocket
  <2>1. over = "no" /\ pass \in Message
    BY <1>7 DEF ReadSocket, Inv, TypeOK
  <2> QED BY <1>7, <2>1, ReadSocketIs
<1> QED BY <1>1, <1>2, <1>3, <1>4, <1>5, <1>6, <1>7, NextIs

----------------------------------------------------------------------------
(* The order of symbols on the line.                                        *)

Reads == InOrder /\ Consecutive /\ HalfRead

LEMMA LeftIs ==
    ASSUME Inv, NEW w \in Writer, left[w] # <<>>
    PROVE  \E m \in Message, a \in Nat :
             /\ left[w][1] = Sym(m, a) /\ left[w][1].of = m /\ left[w][1].at = a
             /\ m \in begun /\ a \in 1..Total(m) /\ Len(left[w]) \in Nat \ {0}
             /\ a + Len(left[w]) = Total(m) + 1 /\ Total(m) \in Nat
             /\ \A i \in 1..Len(left[w]) : left[w][i] = Sym(m, a + i - 1)
<1> DEFINE m == left[w][1].of
           a == Total(m) - Len(left[w]) + 1
<1>1. /\ left[w] \in Seq(Symbol) /\ m \in begun /\ begun \subseteq Message
      /\ Len(left[w]) <= Total(m)
      /\ \A i \in 1..Len(left[w]) : left[w][i] = Sym(m, Total(m) - Len(left[w]) + i)
  BY DEF Inv, TypeOK, Suffixes
<1>2. Len(left[w]) \in Nat \ {0} /\ Total(m) \in Nat
  BY <1>1, TotalIs
<1>3. a \in Nat /\ a \in 1..Total(m) /\ a + Len(left[w]) = Total(m) + 1
  BY <1>1, <1>2
<1> HIDE DEF m
<1>4. \A i \in 1..Len(left[w]) : left[w][i] = Sym(m, a + i - 1)
  <2> SUFFICES ASSUME NEW i \in 1..Len(left[w]) PROVE left[w][i] = Sym(m, a + i - 1)
    OBVIOUS
  <2>1. a + i - 1 = Total(m) - Len(left[w]) + i
    BY <1>2
  <2> QED BY <1>1, <2>1
<1> HIDE DEF a
<1>5. left[w][1] = Sym(m, a)
  <2>1. 1 \in 1..Len(left[w]) /\ a + 1 - 1 = a
    BY <1>2, <1>3
  <2>2. left[w][1] = Sym(m, a + 1 - 1)
    BY <1>4, <2>1
  <2> QED BY <2>1, <2>2
<1>6. left[w][1].of = m /\ left[w][1].at = a /\ m \in Message
  BY <1>1, <1>5, SymIs
<1> QED BY <1>1, <1>2, <1>3, <1>4, <1>5, <1>6

LEMMA StartedIs ==
    ASSUME Inv, NEW w \in Writer, NEW m \in Message, StartWrite(w, m)
    PROVE  /\ left'[w] # <<>> /\ left'[w][1] = Sym(m, 1) /\ left'[w][1].of = m /\ left'[w][1].at = 1
           /\ \A v \in Writer \ {w} : left'[v] = left[v]
           /\ m \notin begun /\ begun' = begun \cup {m} /\ left[w] = <<>>
           /\ UNCHANGED <<stream, writeEnd, reading, pass, over, written, received, disturbed>>
           /\ \A i \in 1..Len(Line) : Line[i].of # m
           /\ pass # m
<1>1. /\ left \in [Writer -> Seq(Symbol)] /\ left' = [left EXCEPT ![w] = Netstring(m)]
      /\ m \notin begun /\ begun' = begun \cup {m} /\ left[w] = <<>>
      /\ UNCHANGED <<stream, writeEnd, reading, pass, over, written, received, disturbed>>
  BY DEF Inv, TypeOK, StartWrite
<1>2. Netstring(m) # <<>> /\ Netstring(m)[1] = Sym(m, 1)
  <2>1. 1 \in 1..Total(m)
    BY TotalIs
  <2> QED BY <2>1, NetstringIs
<1>3. left'[w] = Netstring(m) /\ \A v \in Writer \ {w} : left'[v] = left[v]
  BY <1>1
<1>4. \A i \in 1..Len(Line) : Line[i].of # m
  BY <1>1, SymbolIs
<1>5. pass # m
  BY <1>1, WireAssumption DEF Inv, Histories
<1> QED BY <1>1, <1>2, <1>3, <1>4, <1>5, SymIs

\* The symbols of m that come on the line, from the a-th on.
Coming(w, k, m, a) ==
    /\ left[w][1].of = m /\ left[w][1].at = a /\ left[w][1] = Sym(m, a)
    /\ a \in 1..Total(m) /\ Total(m) \in Nat /\ m \in begun
    /\ a + Len(left[w]) = Total(m) + 1 /\ Len(left[w]) \in Nat \ {0} /\ k \in 1..Len(left[w])
    /\ \A i \in 1..k : Len(Line) + i \in 1..Len(Line') /\ Line'[Len(Line) + i] = Sym(m, a + i - 1)
    /\ \A j \in 1..Len(Line') :
         \/ j \in 1..Len(Line) /\ Line'[j] = Line[j]
         \/ /\ j - Len(Line) \in 1..k /\ j > Len(Line)
            /\ Line'[j] = Sym(m, a + (j - Len(Line)) - 1)
            /\ Line'[j].of = m /\ Line'[j].at = a + (j - Len(Line)) - 1
    /\ left'[w] # <<>> => /\ left'[w][1] = Sym(m, a + k) /\ left'[w][1].of = m
                          /\ left'[w][1].at = a + k /\ k < Len(left[w])
    /\ left'[w] = <<>> => k = Len(left[w])

LEMMA ComingIs ==
    ASSUME Inv, NEW w \in Writer, NEW k \in Nat, Grown(w, k)
    PROVE  \E m \in Message, a \in Nat : Coming(w, k, m, a)
<1>1. /\ k \in 1..Len(left[w]) /\ Len(left[w]) \in Nat /\ left[w] # <<>>
      /\ Len(Line') = Len(Line) + k /\ Len(Line) \in Nat
      /\ \A i \in 1..Len(Line) : Line'[i] = Line[i]
      /\ \A i \in 1..k : Line'[Len(Line) + i] = left[w][i]
      /\ \A i \in 1..Len(Line') : i \in 1..Len(Line) \/ i - Len(Line) \in 1..k
      /\ left'[w] # <<>> => k + 1 \in 1..Len(left[w]) /\ left'[w][1] = left[w][k + 1]
      /\ left'[w] = <<>> => k = Len(left[w])
  BY LineIs DEF Grown
<1>2. PICK m \in Message, a \in Nat :
             /\ left[w][1] = Sym(m, a) /\ left[w][1].of = m /\ left[w][1].at = a
             /\ m \in begun /\ a \in 1..Total(m) /\ Len(left[w]) \in Nat \ {0}
             /\ a + Len(left[w]) = Total(m) + 1 /\ Total(m) \in Nat
             /\ \A i \in 1..Len(left[w]) : left[w][i] = Sym(m, a + i - 1)
  BY <1>1, LeftIs
<1>3. \A i \in 1..k : Len(Line) + i \in 1..Len(Line') /\ Line'[Len(Line) + i] = Sym(m, a + i - 1)
  <2> SUFFICES ASSUME NEW i \in 1..k
               PROVE  Len(Line) + i \in 1..Len(Line') /\ Line'[Len(Line) + i] = Sym(m, a + i - 1)
    OBVIOUS
  <2>1. i \in 1..Len(left[w]) /\ Len(Line) + i \in 1..Len(Line')
    BY <1>1
  <2>2. Line'[Len(Line) + i] = left[w][i] /\ left[w][i] = Sym(m, a + i - 1)
    BY <1>1, <1>2, <2>1
  <2> QED BY <2>1, <2>2
<1>4. ASSUME NEW j \in 1..Len(Line'), j - Len(Line) \in 1..k
      PROVE  j > Len(Line) /\ Line'[j] = Sym(m, a + (j - Len(Line)) - 1)
  <2>1. Len(Line) + (j - Len(Line)) = j /\ j > Len(Line)
    BY <1>1, <1>4
  <2> QED BY <1>3, <1>4, <2>1
<1>5. left'[w] # <<>> => left'[w][1] = Sym(m, a + k) /\ k < Len(left[w])
  <2>1. a + (k + 1) - 1 = a + k
    OBVIOUS
  <2> QED BY <1>1, <1>2, <2>1
<1>6. \A j \in 1..Len(Line') :
        \/ j \in 1..Len(Line) /\ Line'[j] = Line[j]
        \/ /\ j - Len(Line) \in 1..k /\ j > Len(Line)
           /\ Line'[j] = Sym(m, a + (j - Len(Line)) - 1)
           /\ Line'[j].of = m /\ Line'[j].at = a + (j - Len(Line)) - 1
  <2> SUFFICES ASSUME NEW j \in 1..Len(Line'), j - Len(Line) \in 1..k
               PROVE  /\ j > Len(Line) /\ Line'[j] = Sym(m, a + (j - Len(Line)) - 1)
                      /\ Line'[j].of = m /\ Line'[j].at = a + (j - Len(Line)) - 1
    BY <1>1
  <2>1. j > Len(Line) /\ Line'[j] = Sym(m, a + (j - Len(Line)) - 1)
    BY <1>4
  <2> QED BY <2>1, SymIs
<1>7. left'[w] # <<>> => left'[w][1].of = m /\ left'[w][1].at = a + k
  BY <1>5, SymIs
<1>8. Coming(w, k, m, a)
  BY <1>1, <1>2, <1>3, <1>5, <1>6, <1>7 DEF Coming
<1> QED BY <1>8

LEMMA InOrderStep == Inv /\ over' = "no" /\ (over = "no" => Reads) /\ [Next]_vars => InOrder'
<1> SUFFICES ASSUME Inv, over' = "no", over = "no" => Reads, [Next]_vars PROVE InOrder'
  OBVIOUS
<1>0. over = "no" /\ Reads /\ InOrder /\ Consecutive
  BY LineStep DEF Reads
<1>1. CASE Kept \/ (CloseEnd /\ Line' = Line)
  <2>1. Line' = Line /\ pass' = pass /\ \A w \in Writer : left'[w] = left[w] \/ left'[w] = <<>>
    BY <1>1 DEF Kept, CloseEnd, DropAll
  <2> QED BY <1>0, <2>1 DEF InOrder
<1>2. ASSUME NEW w \in Writer, NEW m \in Message, StartWrite(w, m), Line' = Line PROVE InOrder'
  <2>1. /\ left'[w][1].of = m /\ \A v \in Writer \ {w} : left'[v] = left[v]
        /\ pass' = pass /\ pass # m /\ \A i \in 1..Len(Line) : Line[i].of # m
    BY <1>2, StartedIs
  <2>2. ASSUME NEW v \in Writer, left'[v] # <<>>
        PROVE  /\ \A i \in 1..Len(Line) : Line[i].of = left'[v][1].of => Line[i].at < left'[v][1].at
               /\ left'[v][1].of = pass => left'[v][1].at = Size[pass] + 4
    BY <1>0, <2>1, <2>2 DEF InOrder
  <2> QED BY <1>0, <1>2, <2>1, <2>2 DEF InOrder
<1>3. ASSUME NEW w \in Writer, NEW k \in Nat, Grown(w, k) PROVE InOrder'
  <2>0. /\ left[w] # <<>> /\ pass' = pass /\ \A v \in Writer \ {w} : left'[v] = left[v]
        /\ Len(Line) \in Nat
    BY <1>3, LineIs DEF Grown
  <2>1. PICK m \in Message, a \in Nat : Coming(w, k, m, a)
    BY <1>3, ComingIs
  <2>2. \A j \in 1..Len(Line') :
          \/ j \in 1..Len(Line) /\ Line'[j] = Line[j]
          \/ /\ j - Len(Line) \in 1..k /\ j > Len(Line)
             /\ Line'[j].of = m /\ Line'[j].at = a + (j - Len(Line)) - 1
    BY <2>1 DEF Coming
  <2>9. /\ left[w][1].of = m /\ left[w][1].at = a
        /\ a + Len(left[w]) = Total(m) + 1 /\ Len(left[w]) \in Nat /\ k \in 1..Len(left[w])
        /\ left'[w] # <<>> => /\ left'[w][1].of = m
                              /\ left'[w][1].at = a + k /\ k < Len(left[w])
    BY <2>1 DEF Coming
  <2>10. PICK l \in Nat : a + l = Total(m) + 1 /\ k \in 1..l /\ (left'[w] # <<>> => k < l)
    BY <2>9
  <2>3. \A i \in 1..Len(Line) : /\ Line[i].at \in Nat
                                /\ Line[i].of = m => Line[i].at < a
    BY <1>0, <2>0, <2>9, SymbolIs DEF InOrder
  <2>4. ASSUME NEW i \in 1..Len(Line'), NEW j \in 1..Len(Line'), i < j, Line'[i].of = Line'[j].of
        PROVE  Line'[i].at < Line'[j].at
    <3>1. CASE j \in 1..Len(Line) /\ Line'[j] = Line[j]
      <4>1. i \in 1..Len(Line) /\ Line'[i] = Line[i]
        BY <2>0, <2>2, <2>4, <3>1
      <4> QED BY <1>0, <2>4, <3>1, <4>1 DEF InOrder
    <3>2. CASE /\ j - Len(Line) \in 1..k /\ j > Len(Line)
               /\ Line'[j].of = m /\ Line'[j].at = a + (j - Len(Line)) - 1
      <4>1. CASE i \in 1..Len(Line) /\ Line'[i] = Line[i]
        BY <2>0, <2>3, <2>4, <3>2, <4>1
      <4>2. CASE /\ i - Len(Line) \in 1..k /\ Line'[i].at = a + (i - Len(Line)) - 1
        BY <2>0, <2>4, <3>2, <4>2
      <4> QED BY <2>2, <4>1, <4>2
    <3> QED BY <2>2, <3>1, <3>2
  <2>5. ASSUME NEW v \in Writer, left'[v] # <<>>, NEW i \in 1..Len(Line'), Line'[i].of = left'[v][1].of
        PROVE  Line'[i].at < left'[v][1].at
    <3>1. CASE v = w
      <4>1. left'[v][1].of = m /\ left'[v][1].at = a + k
        BY <2>5, <2>9, <3>1
      <4> QED BY <2>0, <2>2, <2>3, <2>5, <2>9, <4>1
    <3>2. CASE v # w
      <4>1. left'[v] = left[v] /\ left[v][1].of # m
        BY <2>0, <2>5, <2>9, <3>2 DEF Inv, Suffixes
      <4>2. i \in 1..Len(Line) /\ Line'[i] = Line[i]
        BY <2>2, <2>5, <4>1
      <4> QED BY <1>0, <2>5, <4>1, <4>2 DEF InOrder
    <3> QED BY <3>1, <3>2
  <2>6. pass = m => a = Size[m] + 4 /\ l = 1 /\ k = 1
    <3> SUFFICES ASSUME pass = m PROVE a = Size[m] + 4 /\ l = 1 /\ k = 1
      OBVIOUS
    <3>1. m \in Passing
      BY WireAssumption DEF Inv, Histories
    <3>2. a = Size[m] + 4
      BY <1>0, <2>0, <2>9 DEF InOrder
    <3>3. Total(m) = Size[m] + 4 /\ Total(m) \in Nat /\ Size[m] \in Nat
      BY <3>1, TotalIs
    <3> QED BY <2>10, <3>2, <3>3
  <2>7. ASSUME NEW i \in 1..Len(Line'), Line'[i].of = pass' PROVE Line'[i].at = Size[pass'] + 4
    <3>1. CASE i \in 1..Len(Line) /\ Line'[i] = Line[i]
      BY <1>0, <2>0, <2>7, <3>1 DEF InOrder
    <3>2. CASE /\ i - Len(Line) \in 1..k /\ Line'[i].of = m /\ Line'[i].at = a + (i - Len(Line)) - 1
      <4>1. pass = m /\ i - Len(Line) = 1
        <5>1. pass = m
          BY <2>0, <2>7, <3>2
        <5>2. k = 1
          BY <2>6, <5>1
        <5> QED BY <3>2, <5>1, <5>2
      <4>2. Line'[i].at = a /\ a = Size[m] + 4
        BY <2>0, <2>6, <3>2, <4>1
      <4> QED BY <2>0, <4>1, <4>2
    <3> QED BY <2>2, <3>1, <3>2
  <2>8. ASSUME NEW v \in Writer, left'[v] # <<>>, left'[v][1].of = pass'
        PROVE  left'[v][1].at = Size[pass'] + 4
    <3>1. CASE v = w
      <4>1. pass = m
        BY <2>0, <2>8, <2>9, <3>1
      <4>2. k = 1 /\ l = 1
        BY <2>6, <2>10, <4>1
      <4>3. k < l
        BY <2>8, <2>10, <3>1
      <4> QED BY <4>2, <4>3
    <3>2. CASE v # w
      BY <1>0, <2>0, <2>8, <3>2 DEF InOrder
    <3> QED BY <3>1, <3>2
  <2> QED BY <2>4, <2>5, <2>7, <2>8 DEF InOrder
<1>4. ASSUME NEW n \in Nat, NEW m \in Message, Dropped(n, m) PROVE InOrder'
  <2>1. /\ n \in 1..Len(Line) /\ Len(Line') = Len(Line) - n /\ Len(Line) \in Nat
        /\ \A i \in 1..Len(Line') : i + n \in 1..Len(Line) /\ Line'[i] = Line[i + n]
        /\ Line[n].of = m /\ left' = left /\ pass' \in {m, None}
        /\ \/ Line[n].at = Total(m)
           \/ Line[n].at = Size[m] + 3 /\ m \in Passing
        /\ pass' = m => Line[n].at = Size[m] + 3 /\ m \in Passing
        /\ Total(m) \in Nat /\ m # None
    BY <1>4, LineIs, SymIs, TotalIs, WireAssumption DEF Dropped, LastOf
  <2>2. ASSUME NEW c, c.of = m, c.at \in Nat, c.at > Line[n].at, c.at <= Total(m), pass' = m
        PROVE  c.at = Size[pass'] + 4
    BY <2>1, <2>2, TotalIs
  <2>3. ASSUME NEW i \in 1..Len(Line'), Line'[i].of = pass' PROVE Line'[i].at = Size[pass'] + 4
    <3>1. i + n \in 1..Len(Line) /\ Line'[i] = Line[i + n] /\ n < i + n
      BY <2>1
    <3>2. Line[i + n].of # None /\ Line[i + n].at \in Nat /\ Line[i + n].at <= Total(Line[i + n].of)
      BY <3>1, SymbolIs, WireAssumption, TotalIs
    <3>3. pass' = m /\ Line[i + n].of = m
      BY <2>1, <2>3, <3>1, <3>2
    <3>4. Line[n].at < Line[i + n].at
      BY <1>0, <2>1, <3>1, <3>3 DEF InOrder
    <3>5. Line[n].at \in Nat
      BY <2>1, SymbolIs
    <3> QED BY <2>2, <3>1, <3>2, <3>3, <3>4, <3>5
  <2>4. ASSUME NEW v \in Writer, left'[v] # <<>>, left'[v][1].of = pass'
        PROVE  left'[v][1].at = Size[pass'] + 4
    <3>1. PICK l \in Message, a \in Nat :
            left[v][1].of = l /\ left[v][1].at = a /\ a \in 1..Total(l) /\ Total(l) \in Nat
      BY <2>1, <2>4, LeftIs
    <3>2. pass' = m /\ l = m
      BY <2>1, <2>4, <3>1, WireAssumption
    <3>3. Line[n].at \in Nat
      BY <2>1, SymbolIs
    <3>4. left[v] # <<>> /\ Line[n].of = left[v][1].of
      BY <2>1, <2>4, <3>1, <3>2
    <3>5. Line[n].at < a
      BY <1>0, <2>1, <3>1, <3>4 DEF InOrder
    <3>6. left[v][1].of = m /\ left[v][1].at \in Nat /\ left[v][1].at <= Total(m)
          /\ left[v][1].at > Line[n].at
      BY <3>1, <3>2, <3>3, <3>5
    <3> QED BY <2>1, <2>2, <3>2, <3>6
  <2>5. ASSUME NEW i \in 1..Len(Line'), NEW j \in 1..Len(Line'), i < j, Line'[i].of = Line'[j].of
        PROVE  Line'[i].at < Line'[j].at
    <3>1. i + n < j + n /\ i + n \in 1..Len(Line) /\ j + n \in 1..Len(Line)
      BY <2>1, <2>5
    <3> QED BY <1>0, <2>1, <2>5, <3>1 DEF InOrder
  <2>6. ASSUME NEW v \in Writer, left'[v] # <<>>, NEW i \in 1..Len(Line'), Line'[i].of = left'[v][1].of
        PROVE  Line'[i].at < left'[v][1].at
    BY <1>0, <2>1, <2>6 DEF InOrder
  <2> QED BY <2>3, <2>4, <2>5, <2>6 DEF InOrder
<1> QED BY <1>0, <1>1, <1>2, <1>3, <1>4, LineStep DEF Reads

LEMMA StillPreceded ==
    ASSUME NEW c, NEW n \in Nat, NEW k \in Nat, NEW line, NEW next, NEW p,
           PrecededIn(line, p, c, n), n <= k, \A i \in 1..n : next[i] = line[i]
    PROVE  PrecededIn(next, p, c, k)
BY DEF PrecededIn

\* What is left of the line is preceded by what is left of it.
LEMMA PrecededDrop ==
    ASSUME Inv, NEW n \in Nat, NEW m \in Message, Dropped(n, m), NEW c, NEW k \in Nat,
           k <= Len(Line'), c.of \in Message, c.at \in Nat, c.at <= Total(c.of),
           c.of = m => c.at > Line[n].at, Preceded(c, k + n)
    PROVE  PrecededIn(Line', pass', c, k)
<1>1. /\ n \in 1..Len(Line) /\ Len(Line') = Len(Line) - n /\ Len(Line) \in Nat
      /\ \A i \in 1..Len(Line') : i + n \in 1..Len(Line) /\ Line'[i] = Line[i + n]
      /\ \A i \in 1..n : Line[i].of = m
      /\ \/ Line[n].at = Total(m) /\ pass \in {None, m}
         \/ Line[n].at = Size[m] + 3 /\ m \in Passing /\ pass = None /\ pass' = m
      /\ m # None
  BY LineIs, SymIs, WireAssumption DEF Dropped, LastOf
<1>2. CASE c.of = m
  <2>1. Size[m] \in Nat /\ Total(m) \in Nat /\ (m \in Passing => Total(m) = Size[m] + 4)
    BY TotalIs
  <2>2. c.at > Line[n].at /\ c.at <= Total(m)
    BY <1>2
  <2>3. Line[n].at = Size[m] + 3 /\ m \in Passing /\ pass' = m
    BY <1>1, <2>1, <2>2
  <2>4. c.at = Size[c.of] + 4
    BY <1>2, <2>1, <2>2, <2>3
  <2> QED BY <1>2, <2>3, <2>4 DEF PrecededIn
<1>3. CASE c.of # m
  <2>1. pass # c.of
    BY <1>1, <1>3, WireAssumption
  <2>2. c.at = 1 \/ \E j \in 1..k + n : After(Line[j]) = c
    BY <2>1 DEF Preceded, PrecededIn
  <2>3. ASSUME NEW j \in 1..k + n, After(Line[j]) = c
        PROVE  \E i \in 1..k : After(Line'[i]) = c
    <3>1. Line[j].of = c.of
      BY <2>3, SymIs DEF After
    <3>2. j - n \in 1..k
      BY <1>1, <1>3, <3>1
    <3>3. (j - n) + n = j /\ j - n \in 1..Len(Line')
      BY <1>1, <3>2
    <3>4. Line'[j - n] = Line[j]
      BY <1>1, <3>3
    <3> QED BY <2>3, <3>2, <3>4
  <2> QED BY <2>2, <2>3 DEF PrecededIn
<1> QED BY <1>2, <1>3

LEMMA ConsecutiveStep ==
    Inv /\ over' = "no" /\ (over = "no" => Reads) /\ [Next]_vars => Consecutive'
<1> SUFFICES ASSUME Inv, over' = "no", over = "no" => Reads, [Next]_vars PROVE Consecutive'
  OBVIOUS
<1>0. over = "no" /\ InOrder /\ Consecutive /\ Len(Line) \in Nat
  BY LineStep, LineIs DEF Reads
<1>1. CASE Kept \/ (CloseEnd /\ Line' = Line)
  <2>1. Line' = Line /\ pass' = pass /\ \A w \in Writer : left'[w] = left[w] \/ left'[w] = <<>>
    BY <1>1 DEF Kept, CloseEnd, DropAll
  <2> QED BY <1>0, <2>1 DEF Consecutive, Preceded
<1>2. ASSUME NEW w \in Writer, NEW m \in Message, StartWrite(w, m), Line' = Line PROVE Consecutive'
  <2>1. /\ left'[w][1].at = 1 /\ \A v \in Writer \ {w} : left'[v] = left[v]
        /\ pass' = pass
    BY <1>2, StartedIs
  <2>2. ASSUME NEW v \in Writer, left'[v] # <<>>
        PROVE  PrecededIn(Line, pass, left'[v][1], Len(Line))
    <3>1. CASE v = w
      BY <2>1, <3>1 DEF PrecededIn
    <3>2. CASE v # w
      BY <1>0, <2>1, <2>2, <3>2 DEF Consecutive, Preceded
    <3> QED BY <3>1, <3>2
  <2> QED BY <1>0, <1>2, <2>1, <2>2 DEF Consecutive, Preceded
<1>3. ASSUME NEW w \in Writer, NEW k \in Nat, Grown(w, k) PROVE Consecutive'
  <2>0. /\ left[w] # <<>> /\ pass' = pass /\ \A v \in Writer \ {w} : left'[v] = left[v]
        /\ Len(Line') = Len(Line) + k
        /\ \A i \in 1..Len(Line) : Line'[i] = Line[i]
    BY <1>3 DEF Grown
  <2>1. PICK m \in Message, a \in Nat : Coming(w, k, m, a)
    BY <1>3, ComingIs
  <2>2. /\ \A i \in 1..k : Line'[Len(Line) + i] = Sym(m, a + i - 1)
        /\ \A j \in 1..Len(Line') :
             \/ j \in 1..Len(Line) /\ Line'[j] = Line[j]
             \/ j - Len(Line) \in 1..k /\ Line'[j] = Sym(m, a + (j - Len(Line)) - 1)
        /\ left[w][1] = Sym(m, a) /\ (left'[w] # <<>> => left'[w][1] = Sym(m, a + k))
        /\ k >= 1
    BY <2>1 DEF Coming
  <2>3. \A i \in 1..k : After(Line'[Len(Line) + i]) = Sym(m, a + i)
    <3> SUFFICES ASSUME NEW i \in 1..k PROVE After(Line'[Len(Line) + i]) = Sym(m, a + i)
      OBVIOUS
    <3>1. Line'[Len(Line) + i] = Sym(m, a + i - 1)
      BY <2>2
    <3>2. (a + i - 1) + 1 = a + i
      OBVIOUS
    <3> QED BY <3>1, <3>2, SymIs DEF After
  <2>4. ASSUME NEW i \in 1..Len(Line') PROVE PrecededIn(Line', pass, Line'[i], i - 1)
    <3>1. CASE i \in 1..Len(Line) /\ Line'[i] = Line[i]
      <4>1. PrecededIn(Line, pass, Line[i], i - 1)
        BY <1>0, <3>1 DEF Consecutive, Preceded
      <4>2. i - 1 \in Nat /\ i - 1 <= i - 1 /\ \A j \in 1..i - 1 : Line'[j] = Line[j]
        BY <1>0, <2>0, <3>1
      <4> QED BY <3>1, <4>1, <4>2, StillPreceded
    <3>2. CASE /\ i - Len(Line) \in 1..k /\ Line'[i] = Sym(m, a + (i - Len(Line)) - 1)
      <4>1. CASE i - Len(Line) = 1
        <5>1. Line'[i] = left[w][1] /\ i - 1 = Len(Line)
          <6>1. a + 1 - 1 = a /\ i - 1 = Len(Line)
            BY <1>0, <4>1
          <6> QED BY <2>2, <3>2, <4>1, <6>1
        <5>2. PrecededIn(Line, pass, left[w][1], Len(Line))
          BY <1>0, <2>0 DEF Consecutive, Preceded
        <5>3. i - 1 \in Nat /\ Len(Line) <= i - 1
          BY <1>0, <5>1
        <5>4. PrecededIn(Line', pass, left[w][1], i - 1)
          BY <1>0, <2>0, <5>2, <5>3, StillPreceded
        <5> QED BY <5>1, <5>4
      <4>2. CASE i - Len(Line) # 1
        <5> DEFINE j == i - Len(Line) - 1
        <5>1. /\ j \in 1..k /\ Len(Line) + j = i - 1 /\ Len(Line) + j \in 1..i - 1
              /\ a + j = a + (i - Len(Line)) - 1
          BY <1>0, <3>2, <4>2
        <5>2. After(Line'[Len(Line) + j]) = Sym(m, a + j)
          BY <2>3, <5>1
        <5> HIDE DEF j
        <5>3. After(Line'[Len(Line) + j]) = Line'[i]
          BY <3>2, <5>1, <5>2
        <5> QED BY <5>1, <5>3 DEF PrecededIn
      <4> QED BY <4>1, <4>2
    <3> QED BY <2>2, <3>1, <3>2
  <2>5. ASSUME NEW v \in Writer, left'[v] # <<>>
        PROVE  PrecededIn(Line', pass, left'[v][1], Len(Line'))
    <3>1. CASE v = w
      <4>1. Len(Line) + k \in 1..Len(Line')
        BY <1>0, <2>0, <2>2
      <4>2. After(Line'[Len(Line) + k]) = left'[w][1]
        BY <2>2, <2>3, <2>5, <3>1
      <4> QED BY <3>1, <4>1, <4>2 DEF PrecededIn
    <3>2. CASE v # w
      <4>1. PrecededIn(Line, pass, left[v][1], Len(Line)) /\ left'[v] = left[v]
        BY <1>0, <2>0, <2>5, <3>2 DEF Consecutive, Preceded
      <4>2. Len(Line') \in Nat /\ Len(Line) <= Len(Line')
        BY <1>0, <2>0
      <4>3. PrecededIn(Line', pass, left[v][1], Len(Line'))
        BY <1>0, <2>0, <4>1, <4>2, StillPreceded
      <4> QED BY <4>1, <4>3
    <3> QED BY <3>1, <3>2
  <2> QED BY <2>0, <2>4, <2>5 DEF Consecutive, Preceded
<1>4. ASSUME NEW n \in Nat, NEW m \in Message, Dropped(n, m) PROVE Consecutive'
  <2>1. /\ n \in 1..Len(Line) /\ Len(Line') = Len(Line) - n
        /\ \A i \in 1..Len(Line') : i + n \in 1..Len(Line) /\ Line'[i] = Line[i + n]
        /\ Line[n].of = m /\ left' = left
    BY <1>0, <1>4 DEF Dropped
  <2>2. ASSUME NEW i \in 1..Len(Line') PROVE PrecededIn(Line', pass', Line'[i], i - 1)
    <3>1. /\ i + n \in 1..Len(Line) /\ Line'[i] = Line[i + n] /\ n < i + n
          /\ i - 1 \in Nat /\ i - 1 <= Len(Line') /\ (i + n) - 1 = (i - 1) + n
      BY <1>0, <2>1
    <3>2. /\ Line[i + n].of \in Message /\ Line[i + n].at \in Nat
          /\ Line[i + n].at <= Total(Line[i + n].of) /\ Line[n].at \in Nat
      BY <2>1, <3>1, SymbolIs, TotalIs
    <3>3. Line[i + n].of = m => Line[n].at < Line[i + n].at
      BY <1>0, <2>1, <3>1 DEF InOrder
    <3>4. Preceded(Line[i + n], (i - 1) + n)
      BY <1>0, <3>1 DEF Consecutive
    <3>5. Line[i + n].of = m => Line[i + n].at > Line[n].at
      BY <3>2, <3>3
    <3>6. PrecededIn(Line', pass', Line[i + n], i - 1)
      BY <1>4, <3>1, <3>2, <3>4, <3>5, PrecededDrop
    <3> QED BY <3>1, <3>6
  <2>3. ASSUME NEW v \in Writer, left'[v] # <<>>
        PROVE  PrecededIn(Line', pass', left'[v][1], Len(Line'))
    <3>1. PICK l \in Message, a \in Nat :
            left[v][1].of = l /\ left[v][1].at = a /\ a \in 1..Total(l) /\ Total(l) \in Nat
      BY <2>1, <2>3, LeftIs
    <3>2. Line[n].of = left[v][1].of => Line[n].at < left[v][1].at
      BY <1>0, <2>1, <2>3 DEF InOrder
    <3>3. Line[n].at \in Nat
      BY <2>1, SymbolIs
    <3>4. Preceded(left[v][1], Len(Line') + n) /\ Len(Line') \in Nat /\ Len(Line') <= Len(Line')
      <4>1. Preceded(left[v][1], Len(Line))
        BY <1>0, <2>1, <2>3 DEF Consecutive
      <4>2. Len(Line') + n = Len(Line) /\ Len(Line') \in Nat /\ Len(Line') <= Len(Line')
        BY <1>0, <2>1
      <4> QED BY <4>1, <4>2
    <3>5. left[v][1].of = m => left[v][1].at > Line[n].at
      BY <2>1, <3>1, <3>2, <3>3
    <3>6. left[v][1].of \in Message /\ left[v][1].at \in Nat /\ left[v][1].at <= Total(left[v][1].of)
      BY <3>1
    <3>7. PrecededIn(Line', pass', left[v][1], Len(Line'))
      BY <1>4, <3>4, <3>5, <3>6, PrecededDrop
    <3> QED BY <2>1, <3>7
  <2> QED BY <2>2, <2>3 DEF Consecutive, Preceded
<1> QED BY <1>1, <1>2, <1>3, <1>4, LineStep DEF Reads

\* The reader has the first symbols of a message, if it has of one only.
LEMMA HalfReadStep ==
    Inv /\ over' = "no" /\ (over = "no" => Reads) /\ [Next]_vars => HalfRead'
<1> SUFFICES ASSUME Inv, over' = "no", over = "no" => Reads, [Next]_vars PROVE HalfRead'
  OBVIOUS
<1>0. over = "no" /\ InOrder /\ Consecutive /\ HalfRead
  BY LineStep DEF Reads
<1>1. ASSUME UNCHANGED reading, pass' \in {pass, None} PROVE HalfRead'
  BY <1>0, <1>1 DEF HalfRead
<1>2. CASE ReadSymbol
  <2>1. CASE reading' = <<>>
    BY <2>1 DEF HalfRead
  <2> DEFINE c == Head(stream)
             n == Len(reading)
             s == Append(reading, c)
  <2>2. CASE Kept /\ reading' = s /\ ~Complete(s) /\ Fits(c) /\ stream # <<>> /\ pass = None
    <3>1. reading \in Seq(Symbol) /\ stream \in Seq(Symbol) /\ c = stream[1] /\ c \in Symbol
          /\ 1 \in 1..Len(stream)
      BY <2>2, Rest DEF Inv, TypeOK
    <3>2. n + 1 \in 1..Len(Line) /\ Line[n + 1] = c /\ n \in Nat
      BY <3>1, LineIs
    <3> HIDE DEF c
    <3>3. /\ s \in Seq(Symbol) /\ Len(s) = n + 1 /\ n \in Nat
          /\ \A i \in 1..n : s[i] = reading[i]
          /\ s[n + 1] = c /\ \A i \in 1..Len(s) : i \in 1..n \/ i = n + 1
          /\ reading # <<>> => 1 \in 1..n /\ n \in 1..n /\ n >= 1
          /\ reading = <<>> => n = 0
      BY <3>1, Longer
    <3> HIDE DEF s, n
    <3>4. pass' = None
      BY <2>2 DEF Kept
    <3>5. s # <<>> => Len(s) < Size[s[1].of] + 3
      <4>1. s[1] \in Symbol /\ Len(s) # Size[s[1].of] + 3
        BY <2>2, <3>3 DEF Complete
      <4>2. Size[s[1].of] \in Nat
        BY <4>1, TotalIs DEF Symbol
      <4>3. CASE reading = <<>>
        BY <3>3, <4>2, <4>3
      <4>4. CASE reading # <<>>
        <5>1. s[1] = reading[1] /\ n < Size[reading[1].of] + 3
          BY <1>0, <3>3, <4>4 DEF HalfRead, n
        <5> QED BY <3>3, <4>1, <4>2, <5>1
      <4> QED BY <4>3, <4>4
    <3>6. ASSUME Whole(s), NEW j \in 1..Len(s) PROVE s[j].at = j
      <4>1. DOMAIN s = 1..Len(s) /\ 1 \in 1..Len(s) /\ DOMAIN reading = 1..n
        BY <3>1, <3>3 DEF n
      <4>2. CASE reading = <<>>
        <5>1. Is(c) = "digit"
          BY <2>2, <3>3, <4>2 DEF Fits, n
        <5>2. c.at = 1
          BY <5>1 DEF Is
        <5> QED BY <3>3, <4>2, <5>2
      <4>3. CASE reading # <<>>
        <5>1. Whole(reading)
          BY <3>3, <3>6, <4>1, <4>3 DEF Whole
        <5>2. \A i \in 1..n : reading[i].at = i
          BY <1>0, <5>1 DEF HalfRead, n
        <5>3. Line[n] = reading[n] /\ n \in 1..Len(Line) /\ Line[n].at = n /\ \A i \in 1..n : Line[i] = reading[i]
          BY <3>3, <4>3, <5>2, LineIs DEF n
        <5>4. c.of = Line[n].of
          BY <3>3, <3>6, <4>1, <4>3, <5>3 DEF Whole
        <5>5. n < c.at
          <6>1. n < n + 1
            BY <3>3
          <6> QED BY <1>0, <3>2, <5>3, <5>4, <6>1 DEF InOrder
        <5>6. Preceded(c, n)
          <6>1. Preceded(Line[n + 1], n + 1 - 1) /\ n + 1 - 1 = n
            BY <1>0, <3>2 DEF Consecutive
          <6> QED BY <3>2, <6>1
        <5>7. c.at \in Nat /\ c.of \in Message
          BY <3>1 DEF Symbol
        <5>8. PICK i \in 1..n : After(Line[i]) = c
          BY <2>2, <3>3, <4>3, <5>5, <5>6, <5>7, WireAssumption DEF Preceded, PrecededIn
        <5>9. c.at = Line[i].at + 1 /\ Line[i].at = i
          BY <5>2, <5>3, <5>8, SymIs DEF After
        <5>10. c.at = n + 1
          BY <3>3, <5>5, <5>9
        <5> QED BY <3>3, <5>2, <5>10
      <4> QED BY <4>2, <4>3
    <3> QED BY <2>2, <3>4, <3>5, <3>6 DEF HalfRead, s
  <2> QED BY <1>2, <2>1, <2>2, ReadSymbolIs
<1>3. CASE ReadSocket
  <2>1. UNCHANGED reading /\ pass' = None
    BY <1>3 DEF ReadSocket, Stop
  <2> QED BY <1>1, <2>1
<1>4. ASSUME NEW w \in Writer, NEW m \in Message, StartWrite(w, m) PROVE HalfRead'
  BY <1>1, <1>4 DEF StartWrite
<1>5. CASE CloseEnd
  BY <1>1, <1>5 DEF CloseEnd
<1>6. CASE ReadEnd \/ ReadShort \/ Interrupt \/ ReaderLeaves
  BY <1>6 DEF ReadEnd, ReadShort, Interrupt, ReaderLeaves, Stop, EndOf
<1>7. CASE UNCHANGED vars
  BY <1>1, <1>7 DEF vars
<1>8. ASSUME NEW w \in Writer, WriteChunk(w) PROVE HalfRead'
  BY <1>1, <1>8 DEF WriteChunk
<1> QED BY <1>2, <1>3, <1>4, <1>5, <1>6, <1>7, <1>8, NextIs

LEMMA ReadsStep ==
    Inv /\ (over = "no" => Reads) /\ [Next]_vars => (over' = "no" => Reads')
BY InOrderStep, ConsecutiveStep, HalfReadStep DEF Reads

----------------------------------------------------------------------------
(* The messages on the line.                                                *)

QueuedInv == Len(received) <= Len(written) /\ (over = "no" => Reads /\ Queued)

\* A message is delivered when it is the first that was written and not received.
LEMMA FirstIs ==
    ASSUME Inv, Reads, Queued, NEW n \in Nat, NEW m \in Message, n \in 1..Len(Line),
           \A i \in 1..n : Line[i].of = m,
           Line[n] = LastOf(m), Len(received) <= Len(written)
    PROVE  /\ Len(received) + 1 \in Pending /\ written[Len(received) + 1] = m
           /\ Len(received) \in Nat /\ Len(written) \in Nat
<1> DEFINE r == Len(received) + 1
<1>0. /\ Len(received) \in Nat /\ Len(written) \in Nat /\ Pending = r..Len(written)
      /\ n \in 1..Len(Line) /\ Len(Line) \in Nat /\ \A i \in 1..n : Line[i].of = m
  BY LineIs DEF Inv, TypeOK, Pending
<1>1. PICK k \in Pending : written[k] = m
  BY <1>0, SymIs DEF Queued, LastOf, IsLast
<1>2. r \in Pending /\ r <= k
  BY <1>0
<1>3. SUFFICES ASSUME r # k PROVE FALSE
  BY <1>0, <1>1, <1>2
<1>4. PICK i \in 1..Len(Line) : Line[i] = LastOf(written[r])
  BY <1>2 DEF Queued
<1>5. i < n
  <2>1. r < k
    BY <1>0, <1>2, <1>3
  <2> QED BY <1>0, <1>1, <1>2, <1>4, <2>1 DEF Queued
<1>6. written[r] = m
  <2>1. i \in 1..n
    BY <1>0, <1>5
  <2> QED BY <1>0, <1>4, <2>1, SymIs DEF LastOf
<1> QED BY <1>0, <1>1, <1>2, <1>3, <1>6 DEF Inv, Histories

LEMMA QueuedGrown ==
    ASSUME Inv, Reads, Queued, Len(received) <= Len(written),
           NEW w \in Writer, NEW e \in Nat, Grown(w, e)
    PROVE  Queued'
<1>0. /\ Len(Line) \in Nat /\ pass' = pass /\ received' = received /\ left[w] # <<>>
      /\ Len(Line') = Len(Line) + e
      /\ \A i \in 1..Len(Line) : Line'[i] = Line[i]
      /\ written' = IF left'[w] = <<>> THEN Append(written, left[w][1].of) ELSE written
      /\ written \in Seq(Message) /\ received \in Seq(Message)
  BY LineIs DEF Grown, Inv, TypeOK
<1>1. PICK m \in Message, a \in Nat : Coming(w, e, m, a)
  BY ComingIs
<1>2. PICK l \in Nat, t \in Nat :
        /\ a + l = t + 1 /\ e \in 1..l /\ t = Total(m) /\ a \in 1..t
        /\ left'[w] # <<>> <=> e < l
        /\ left'[w] = <<>> <=> e = l
  BY <1>1 DEF Coming
<1>3. /\ left[w][1].of = m /\ left[w][1].at = a
      /\ \A i \in 1..e : Len(Line) + i \in 1..Len(Line') /\ Line'[Len(Line) + i] = Sym(m, a + i - 1)
      /\ \A j \in 1..Len(Line') :
           \/ j \in 1..Len(Line) /\ Line'[j] = Line[j]
           \/ /\ j - Len(Line) \in 1..e /\ j > Len(Line)
              /\ Line'[j].of = m /\ Line'[j].at = a + (j - Len(Line)) - 1
  BY <1>1 DEF Coming
<1>4. \A j \in 1..Len(Line) : Line[j] # LastOf(m)
  <2>1. \A j \in 1..Len(Line) : Line[j].of = m => Line[j].at < a
    BY <1>0, <1>3 DEF Reads, InOrder
  <2> QED BY <1>2, <2>1, SymIs DEF LastOf
<1>5. \A k \in 1..Len(written) : written[k] # m
  BY <1>0, <1>3 DEF Inv, Histories
<1>6. /\ Len(written) \in Nat /\ Len(received) \in Nat
      /\ \A k \in 1..Len(written) : written'[k] = written[k]
      /\ \/ left'[w] # <<>> /\ written' = written
         \/ left'[w] = <<>> /\ Len(written') = Len(written) + 1 /\ written'[Len(written) + 1] = m
  BY <1>0, <1>3, Longer
<1>7. /\ \A k \in Pending : k \in Pending' /\ k \in 1..Len(written) /\ written'[k] = written[k]
      /\ \A k \in Pending' : k \in Pending
           \/ (k = Len(written) + 1 /\ written'[k] = m /\ left'[w] = <<>>)
  BY <1>0, <1>6 DEF Pending
<1>8. ASSUME NEW i \in 1..Len(Line'), IsLast(Line'[i])
      PROVE  \E k \in Pending' : written'[k] = Line'[i].of
  <2>1. CASE i \in 1..Len(Line) /\ Line'[i] = Line[i]
    BY <1>7, <1>8, <2>1 DEF Queued
  <2>2. CASE i - Len(Line) \in 1..e /\ Line'[i].of = m /\ Line'[i].at = a + (i - Len(Line)) - 1
    <3>1. a + (i - Len(Line)) - 1 = t
      BY <1>2, <1>8, <2>2 DEF IsLast
    <3>2. e = l
      BY <1>0, <1>2, <2>2, <3>1
    <3>3. left'[w] = <<>>
      BY <1>2, <3>2
    <3>4. Len(written) + 1 \in Pending' /\ written'[Len(written) + 1] = m
      BY <1>0, <1>6, <3>3 DEF Pending
    <3> QED BY <2>2, <3>4
  <2> QED BY <1>3, <2>1, <2>2
<1>9. ASSUME NEW k \in Pending' PROVE \E i \in 1..Len(Line') : Line'[i] = LastOf(written'[k])
  <2>1. CASE k \in Pending
    <3>1. PICK i \in 1..Len(Line) : Line[i] = LastOf(written[k])
      BY <2>1 DEF Queued
    <3>2. i \in 1..Len(Line') /\ Line'[i] = Line[i]
      BY <1>0
    <3> QED BY <1>7, <2>1, <3>1, <3>2
  <2>2. CASE written'[k] = m /\ left'[w] = <<>>
    <3>1. e \in 1..e /\ a + e - 1 = t
      BY <1>2, <2>2
    <3>2. Len(Line) + e \in 1..Len(Line') /\ Line'[Len(Line) + e] = Sym(m, t)
      BY <1>3, <3>1
    <3> QED BY <1>2, <2>2, <3>2 DEF LastOf
  <2> QED BY <1>7, <2>1, <2>2
<1>10. ASSUME NEW j \in 1..Len(Line'), NEW k \in Pending, Line'[j] = LastOf(written'[k])
       PROVE  j \in 1..Len(Line) /\ Line[j] = LastOf(written[k])
  <2>1. written'[k] = written[k] /\ written[k] # m
    BY <1>5, <1>7
  <2>2. Line'[j].of # m
    BY <1>10, <2>1, SymIs DEF LastOf
  <2> QED BY <1>3, <1>10, <2>1, <2>2
<1>11. ASSUME NEW k \in Pending', NEW ll \in Pending', NEW i \in 1..Len(Line'), NEW j \in 1..Len(Line'),
              k < ll, Line'[i] = LastOf(written'[k]), Line'[j] = LastOf(written'[ll])
       PROVE  i < j
  <2>0. k \in Pending /\ k \in Int /\ ll \in Int
    <3>1. k \in Int /\ ll \in Int /\ ll <= Len(written')
      BY <1>0, <1>6 DEF Pending
    <3> QED BY <1>6, <1>7, <1>11, <3>1
  <2>1. i \in 1..Len(Line) /\ Line[i] = LastOf(written[k])
    BY <1>10, <1>11, <2>0
  <2>2. CASE ll \in Pending
    <3>1. j \in 1..Len(Line) /\ Line[j] = LastOf(written[ll])
      BY <1>10, <1>11, <2>2
    <3> QED BY <1>11, <2>0, <2>1, <2>2, <3>1 DEF Queued
  <2>3. CASE written'[ll] = m
    <3>1. ~(j \in 1..Len(Line) /\ Line'[j] = Line[j])
      BY <1>4, <1>11, <2>3
    <3>2. j > Len(Line)
      BY <1>3, <3>1
    <3> QED BY <1>0, <2>1, <3>2
  <2> QED BY <1>7, <2>2, <2>3
<1>12. \A i \in 1..Len(Line') : IsLast(Line'[i]) => \E k \in Pending' : written'[k] = Line'[i].of
  BY <1>8
<1>13. \A k \in Pending' : \E i \in 1..Len(Line') : Line'[i] = LastOf(written'[k])
  BY <1>9
<1>14. \A k, n \in Pending' : \A i, j \in 1..Len(Line') :
         k < n /\ Line'[i] = LastOf(written'[k]) /\ Line'[j] = LastOf(written'[n]) => i < j
  BY <1>11
<1> QED BY <1>12, <1>13, <1>14 DEF Queued

\* When the line loses its first n symbols, and the messages that end there.
LEMMA ShiftQueued ==
    ASSUME Queued, NEW n \in Nat, Len(Line) \in Nat, n \in 1..Len(Line),
           Len(Line') = Len(Line) - n, written' = written, Pending' \subseteq Pending,
           \A i \in 1..Len(Line') : i + n \in 1..Len(Line) /\ Line'[i] = Line[i + n],
           \A k \in Pending', i \in 1..Len(Line) : Line[i] = LastOf(written[k]) => i > n,
           \A i \in 1..Len(Line), k \in Pending :
             i > n /\ IsLast(Line[i]) /\ written[k] = Line[i].of => k \in Pending'
    PROVE  Queued'
<1>1. ASSUME NEW i \in 1..Len(Line'), IsLast(Line'[i])
      PROVE  \E k \in Pending' : written'[k] = Line'[i].of
  <2>1. i + n \in 1..Len(Line) /\ i + n > n /\ IsLast(Line[i + n]) /\ Line'[i] = Line[i + n]
    BY <1>1
  <2>2. PICK k \in Pending : written[k] = Line[i + n].of
    BY <2>1 DEF Queued
  <2> QED BY <2>1, <2>2
<1>2. ASSUME NEW k \in Pending' PROVE \E i \in 1..Len(Line') : Line'[i] = LastOf(written'[k])
  <2>1. PICK i \in 1..Len(Line) : Line[i] = LastOf(written[k])
    BY DEF Queued
  <2>2. i - n \in 1..Len(Line') /\ (i - n) + n = i
    BY <2>1
  <2>3. Line'[i - n] = Line[i]
    BY <2>2
  <2> QED BY <2>1, <2>2, <2>3
<1>3. ASSUME NEW k \in Pending', NEW l \in Pending', NEW i \in 1..Len(Line'), NEW j \in 1..Len(Line'),
             k < l, Line'[i] = LastOf(written'[k]), Line'[j] = LastOf(written'[l])
      PROVE  i < j
  <2>1. /\ i + n \in 1..Len(Line) /\ j + n \in 1..Len(Line)
        /\ Line[i + n] = LastOf(written[k]) /\ Line[j + n] = LastOf(written[l])
    BY <1>3
  <2>2. i + n < j + n
    BY <1>3, <2>1 DEF Queued
  <2> QED BY <2>2
<1>4. \A i \in 1..Len(Line') : IsLast(Line'[i]) => \E k \in Pending' : written'[k] = Line'[i].of
  BY <1>1
<1>5. \A k \in Pending' : \E i \in 1..Len(Line') : Line'[i] = LastOf(written'[k])
  BY <1>2
<1>6. \A k, l \in Pending' : \A i, j \in 1..Len(Line') :
        k < l /\ Line'[i] = LastOf(written'[k]) /\ Line'[j] = LastOf(written'[l]) => i < j
  BY <1>3
<1> QED BY <1>4, <1>5, <1>6 DEF Queued

LEMMA QueuedDropped ==
    ASSUME Inv, Reads, Queued, Len(received) <= Len(written),
           NEW n \in Nat, NEW m \in Message, Dropped(n, m)
    PROVE  Queued' /\ Len(received') <= Len(written')
<1>0. /\ Len(Line) \in Nat /\ n \in 1..Len(Line) /\ Len(Line') = Len(Line) - n
      /\ \A i \in 1..Len(Line') : i + n \in 1..Len(Line) /\ Line'[i] = Line[i + n]
      /\ \A i \in 1..n : Line[i].of = m
      /\ written' = written /\ Len(received) \in Nat /\ Len(written) \in Nat
      /\ received \in Seq(Message)
  BY LineIs DEF Dropped, Inv, TypeOK
<1>1. Pending \subseteq Int
  BY <1>0 DEF Pending
<1>2. CASE Line[n] = LastOf(m) /\ received' = Append(received, m)
  <2>1. /\ Len(received) + 1 \in Pending /\ written[Len(received) + 1] = m
    BY <1>2, FirstIs DEF Dropped
  <2>2. /\ Len(received') <= Len(written')
        /\ \A k \in Pending' : k \in Pending /\ k > Len(received) + 1
        /\ \A k \in Pending : k # Len(received) + 1 => k \in Pending'
    <3>1. Len(received') = Len(received) + 1
      BY <1>0, <1>2
    <3> QED BY <1>0, <2>1, <3>1 DEF Pending
  <2>3. \A k \in Pending', i \in 1..Len(Line) : Line[i] = LastOf(written[k]) => i > n
    <3> SUFFICES ASSUME NEW k \in Pending', NEW i \in 1..Len(Line), Line[i] = LastOf(written[k])
                 PROVE  i > n
      OBVIOUS
    <3>1. n < i
      BY <1>0, <1>1, <1>2, <2>1, <2>2 DEF Queued
    <3> QED BY <1>0, <3>1
  <2>4. \A i \in 1..Len(Line), k \in Pending :
          i > n /\ IsLast(Line[i]) /\ written[k] = Line[i].of => k \in Pending'
    <3> SUFFICES ASSUME NEW i \in 1..Len(Line), NEW k \in Pending, i > n, IsLast(Line[i]),
                        written[k] = Line[i].of, k = Len(received) + 1
                 PROVE  FALSE
      BY <2>2
    <3>1. Line[i].of = m /\ Line[n].of = m /\ Line[i].at = Total(m) /\ Line[n].at = Total(m)
      BY <1>2, <2>1, SymIs DEF IsLast, LastOf
    <3>2. Line[n].at < Line[i].at
      BY <1>0, <3>1 DEF Reads, InOrder
    <3> QED BY <3>1, <3>2, TotalIs
  <2> QED BY <2>2, <2>3, <2>4, <1>0, ShiftQueued
<1>3. CASE /\ m \in Passing /\ Line[n] = Sym(m, Size[m] + 3) /\ received' = received
  <2>2. Len(received') <= Len(written') /\ Pending' = Pending
    BY <1>0, <1>3 DEF Pending
  <2>3. \A k \in Pending', i \in 1..Len(Line) : Line[i] = LastOf(written[k]) => i > n
    <3> SUFFICES ASSUME NEW i \in 1..Len(Line), NEW k \in Pending, Line[i] = LastOf(written[k]), i <= n
                 PROVE  FALSE
      BY <1>0, <2>2
    <3>1. Line[i].of = m /\ Line[n].of = m /\ i \in 1..n
      BY <1>0
    <3>2. /\ Line[i].at = Size[m] + 4 /\ Line[n].at = Size[m] + 3 /\ Size[m] \in Nat
      BY <1>3, <3>1, SymIs, TotalIs DEF LastOf
    <3>3. i < n
      BY <3>1, <3>2
    <3>4. Line[i].at < Line[n].at
      BY <1>0, <3>1, <3>3 DEF Reads, InOrder
    <3> QED BY <3>2, <3>4
  <2>4. \A i \in 1..Len(Line), k \in Pending :
          i > n /\ IsLast(Line[i]) /\ written[k] = Line[i].of => k \in Pending'
    BY <2>2
  <2> QED BY <2>2, <2>3, <2>4, <1>0, ShiftQueued
<1> QED BY <1>2, <1>3 DEF Dropped

LEMMA QueuedStep == QueuedInv /\ Inv /\ [Next]_vars => QueuedInv'
<1> SUFFICES ASSUME QueuedInv, Inv, [Next]_vars PROVE QueuedInv'
  OBVIOUS
<1>0. over' = "no" => Reads'
  BY ReadsStep DEF QueuedInv
<1>1. CASE over' = "no"
  <2>1. over = "no" /\ Reads /\ Queued /\ Len(received) <= Len(written)
    BY <1>1, LineStep DEF QueuedInv, Reads
  <2>2. ASSUME Line' = Line, written' = written, received' = received
        PROVE  Queued' /\ Len(received') <= Len(written')
    <3>1. Pending' = Pending
      BY <2>2 DEF Pending
    <3>2. Queued'
      BY <2>1, <2>2, <3>1 DEF Queued
    <3> QED BY <2>1, <2>2, <3>2
  <2>3. ASSUME NEW w \in Writer, NEW k \in Nat, Grown(w, k)
        PROVE  Queued' /\ Len(received') <= Len(written')
    <3>1. Queued'
      BY <2>1, <2>3, QueuedGrown
    <3>2. received' = received /\ written' \in {written, Append(written, left[w][1].of)}
      BY <2>3 DEF Grown
    <3>3. Len(received) \in Nat /\ Len(written) \in Nat /\ Len(written') \in {Len(written), Len(written) + 1}
      BY <3>2 DEF Inv, TypeOK
    <3> QED BY <2>1, <3>1, <3>2, <3>3
  <2>4. ASSUME NEW n \in Nat, NEW m \in Message, Dropped(n, m)
        PROVE  Queued' /\ Len(received') <= Len(written')
    BY <2>1, <2>4, QueuedDropped
  <2>5. ASSUME NEW w \in Writer, NEW m \in Message, StartWrite(w, m), Line' = Line
        PROVE  Queued' /\ Len(received') <= Len(written')
    <3>1. written' = written /\ received' = received
      BY <2>5 DEF StartWrite
    <3> QED BY <2>2, <2>5, <3>1
  <2>6. ASSUME Kept PROVE Queued' /\ Len(received') <= Len(written')
    <3>1. Line' = Line /\ written' = written /\ received' = received
      BY <2>6 DEF Kept
    <3> QED BY <2>2, <3>1
  <2>7. ASSUME CloseEnd, Line' = Line PROVE Queued' /\ Len(received') <= Len(written')
    <3>1. written' = written /\ received' = received
      BY <2>7 DEF CloseEnd
    <3> QED BY <2>2, <2>7, <3>1
  <2> QED BY <1>0, <1>1, <2>1, <2>3, <2>4, <2>5, <2>6, <2>7, LineStep DEF QueuedInv, Reads
<1>2. CASE over' # "no"
  <2>1. received' = received
    <3>1. ASSUME NEW w \in Writer, WriteChunk(w) PROVE received' = received
      BY <3>1 DEF WriteChunk
    <3>2. ASSUME NEW w \in Writer, NEW m \in Message, StartWrite(w, m) PROVE received' = received
      BY <3>2 DEF StartWrite
    <3>3. CASE CloseEnd \/ ReadEnd \/ ReadShort \/ Interrupt \/ ReaderLeaves
      BY <3>3 DEF CloseEnd, ReadEnd, ReadShort, Interrupt, ReaderLeaves, Stop
    <3>4. CASE ReadSymbol
      BY <1>2, <3>4 DEF ReadSymbol, Stop
    <3>5. CASE ReadSocket
      BY <1>2, <3>5 DEF ReadSocket, Stop
    <3> QED BY <3>1, <3>2, <3>3, <3>4, <3>5, NextIs DEF vars
  <2>2. written' = written \/ \E m : written' = Append(written, m)
    <3>1. ASSUME NEW w \in Writer, WriteChunk(w)
          PROVE  written' = written \/ \E m : written' = Append(written, m)
      BY <3>1 DEF WriteChunk
    <3>2. ASSUME NEW w \in Writer, NEW m \in Message, StartWrite(w, m) PROVE written' = written
      BY <3>2 DEF StartWrite
    <3>3. CASE CloseEnd \/ ReadEnd \/ ReadShort \/ Interrupt \/ ReaderLeaves \/ ReadSymbol \/ ReadSocket
      BY <3>3 DEF CloseEnd, ReadEnd, ReadShort, Interrupt, ReaderLeaves, ReadSymbol, ReadSocket
    <3> QED BY <3>1, <3>2, <3>3, NextIs DEF vars
  <2>3. Len(written) \in Nat /\ Len(received) \in Nat /\ Len(written') \in {Len(written), Len(written) + 1}
    BY <2>2 DEF Inv, TypeOK
  <2> QED BY <1>2, <2>1, <2>3 DEF QueuedInv
<1> QED BY <1>1, <1>2

----------------------------------------------------------------------------
(* Undisturbed and disturbed lines.                                         *)

TidyInv == over = "no" => IF disturbed THEN Cut ELSE Tidy

\* A thread is inside its message when it has begun to write it.
LEMMA InsideIs ==
    ASSUME Inv, NEW v \in Writer, left[v] # <<>>
    PROVE  InsideBy(v) <=> left[v][1].at # 1
<1>1. PICK m \in Message, a \in Nat :
        /\ left[v][1].of = m /\ left[v][1].at = a
        /\ a + Len(left[v]) = Total(m) + 1 /\ Total(m) \in Nat /\ Len(left[v]) \in Nat
        /\ \A i \in 1..Len(left[v]) : left[v][i] = Sym(m, a + i - 1)
  BY LeftIs
<1>2. Netstring(m) \in Seq(Symbol) /\ Len(Netstring(m)) = Total(m) /\ 1 \in 1..Total(m)
      /\ \A i \in 1..Total(m) : Netstring(m)[i] = Sym(m, i)
  BY NetstringIs, TotalIs
<1>3. CASE left[v][1].at # 1
  <2>1. Netstring(m)[1].at = 1
    BY <1>2, SymIs
  <2> QED BY <1>1, <1>3, <2>1 DEF InsideBy
<1>4. CASE left[v][1].at = 1
  <2>1. left[v] \in Seq(Symbol)
    BY DEF Inv, TypeOK
  <2>2. Len(left[v]) = Total(m) /\ a = 1
    BY <1>1, <1>4
  <2>3. \A i \in 1..Total(m) : left[v][i] = Netstring(m)[i]
    <3> SUFFICES ASSUME NEW i \in 1..Total(m) PROVE left[v][i] = Netstring(m)[i]
      OBVIOUS
    <3>1. left[v][i] = Sym(m, a + i - 1) /\ a + i - 1 = i
      BY <1>1, <2>2
    <3> QED BY <1>2, <3>1
  <2>4. left[v] = Netstring(m)
    <3> HIDE DEF Netstring
    <3> QED BY <1>2, <2>1, <2>2, <2>3, SeqEqual
  <2> QED BY <1>1, <1>4, <2>4 DEF InsideBy
<1> QED BY <1>3, <1>4

\* What the line awaits is the next symbol of a message that is begun.
LEMMA AwaitsIs ==
    ASSUME Inv, NEW d, Awaits(d)
    PROVE  /\ ~AtEdge /\ d.at # 1
           /\ Line = <<>> => pass # None /\ d.of = pass
           /\ Line # <<>> => ~IsLast(Line[Len(Line)]) /\ d.of = Line[Len(Line)].of
<1>1. CASE Line = <<>>
  <2>1. pass \in Message /\ d = Sym(pass, Total(pass)) /\ pass # None
    BY <1>1 DEF Awaits, AwaitsIn, Inv, TypeOK, LastOf
  <2>2. d.at = Total(pass) /\ d.of = pass /\ Total(pass) \in Nat /\ Total(pass) >= 3
    BY <2>1, SymIs, TotalIs
  <2> QED BY <1>1, <2>1, <2>2 DEF AtEdge, AtEdgeIn
<1>2. CASE Line # <<>>
  <2>1. Len(Line) \in 1..Len(Line)
    BY <1>2, LineIs
  <2>2. Line[Len(Line)].at \in Nat /\ Line[Len(Line)].at >= 1
    BY <2>1, SymbolIs, TotalIs
  <2>3. ~IsLast(Line[Len(Line)]) /\ d = Sym(Line[Len(Line)].of, Line[Len(Line)].at + 1)
    BY <1>2 DEF Awaits, AwaitsIn, After
  <2>4. d.at = Line[Len(Line)].at + 1 /\ d.of = Line[Len(Line)].of
    BY <2>3, SymIs
  <2> QED BY <1>2, <2>2, <2>3, <2>4 DEF AtEdge, AtEdgeIn
<1> QED BY <1>1, <1>2

\* The reader of an undisturbed line has of one message only.
LEMMA WholeStep ==
    ASSUME Inv, [Next]_vars, over' = "no", Reads, Tidy PROVE Whole(reading')
<1>0. Whole(reading) /\ HalfRead
  BY DEF Tidy, Reads
<1>1. CASE ReadSymbol
  <2>1. CASE reading' = <<>>
    BY <2>1 DEF Whole
  <2> DEFINE c == Head(stream)
             n == Len(reading)
  <2>2. CASE reading' = Append(reading, c) /\ stream # <<>> /\ pass = None
    <3>1. /\ reading \in Seq(Symbol) /\ stream \in Seq(Symbol) /\ c = stream[1] /\ c \in Symbol
          /\ 1 \in 1..Len(stream)
      BY <2>2, Rest DEF Inv, TypeOK
    <3>2. n + 1 \in 1..Len(Line) /\ Line[n + 1] = c /\ n \in Nat /\ Len(Line) \in Nat
      BY <3>1, LineIs
    <3> HIDE DEF c
    <3>3. /\ Len(reading') = n + 1 /\ reading' \in Seq(Symbol)
          /\ \A i \in 1..n : reading'[i] = reading[i]
          /\ reading'[n + 1] = c /\ \A i \in 1..Len(reading') : i \in 1..n \/ i = n + 1
          /\ reading # <<>> => 1 \in 1..n /\ n \in 1..n /\ n >= 1
          /\ reading = <<>> => n = 0
      BY <2>2, <3>1, Longer
    <3>4. CASE reading = <<>>
      <4>1. \A j \in DOMAIN reading' : j = 1
        BY <3>3, <3>4
      <4> QED BY <4>1 DEF Whole
    <3>5. CASE reading # <<>>
      <4>1. \A j \in 1..n : reading[j].of = reading[1].of
        BY <1>0, <3>1 DEF Whole
      <4>2. reading[n].at = n /\ n < Size[reading[1].of] + 3 /\ reading[n].of = reading[1].of
        BY <1>0, <3>3, <3>5, <4>1 DEF HalfRead
      <4>3. Line[n] = reading[n] /\ n \in 1..Len(Line) /\ n \in 1..Len(Line) - 1
        BY <3>2, <3>3, <3>5, LineIs
      <4>4. reading[1].of \in Message
        BY <3>3, <3>5, <4>2, <4>3, SymbolIs
      <4>5. ~IsLast(Line[n])
        <5>1. /\ Total(reading[1].of) \in {Size[reading[1].of] + 4, Size[reading[1].of] + 3}
              /\ Size[reading[1].of] \in Nat
          BY <4>4, TotalIs
        <5>2. Line[n].at = n /\ Line[n].of = reading[1].of
          BY <4>2, <4>3
        <5> QED BY <3>2, <4>2, <5>1, <5>2 DEF IsLast
      <4>6. c = After(Line[n])
        <5>1. Succeeds(Line[n], Line[n + 1])
          BY <4>3 DEF Tidy
        <5> QED BY <3>2, <4>5, <5>1 DEF Succeeds
      <4>7. c.of = reading[1].of
        BY <4>2, <4>3, <4>6, SymIs DEF After
      <4>8. reading'[1] = reading[1] /\ DOMAIN reading' = 1..Len(reading')
        BY <3>3, <3>5
      <4> QED BY <3>3, <4>1, <4>7, <4>8 DEF Whole
    <3> QED BY <3>4, <3>5
  <2> QED BY <1>1, <2>1, <2>2, ReadSymbolIs
<1>2. CASE ReadSocket
  BY <1>0, <1>2 DEF ReadSocket, Stop
<1>3. ASSUME NEW w \in Writer, NEW m \in Message, StartWrite(w, m) PROVE Whole(reading')
  BY <1>0, <1>3 DEF StartWrite
<1>4. ASSUME NEW w \in Writer, WriteChunk(w) PROVE Whole(reading')
  BY <1>0, <1>4 DEF WriteChunk
<1>5. CASE CloseEnd \/ ReadEnd \/ ReadShort \/ Interrupt \/ ReaderLeaves
  BY <1>0, <1>5 DEF CloseEnd, ReadEnd, ReadShort, Interrupt, ReaderLeaves, Stop
<1>6. CASE UNCHANGED vars
  BY <1>0, <1>6 DEF vars
<1> QED BY <1>1, <1>2, <1>3, <1>4, <1>5, <1>6, NextIs

\* A piece of w's message at the end of an undisturbed line goes on with it.
LEMMA JunctionIs ==
    ASSUME Inv, Tidy, NEW w \in Writer, left[w] # <<>>, \A v \in Writer \ {w} : ~InsideBy(v)
    PROVE  (AtEdge /\ left[w][1].at = 1) \/ Awaits(left[w][1])
<1>1. CASE AtEdge
  <2>1. ~Awaits(left[w][1])
    BY <1>1, AwaitsIs
  <2> QED BY <1>1, <2>1 DEF Tidy
<1>2. CASE ~AtEdge
  <2>1. PICK v \in Writer : left[v] # <<>> /\ Awaits(left[v][1])
    BY <1>2 DEF Tidy
  <2>2. InsideBy(v)
    BY <2>1, AwaitsIs, InsideIs
  <2> QED BY <2>1, <2>2
<1> QED BY <1>1, <1>2

LEMMA TidyGrown ==
    ASSUME Inv, Tidy, NEW w \in Writer, NEW k \in Nat, Grown(w, k), ~disturbed'
    PROVE  Tidy'
<1>0. /\ Len(Line) \in Nat /\ pass' = pass /\ reading' = reading /\ left[w] # <<>>
      /\ Len(Line') = Len(Line) + k
      /\ \A i \in 1..Len(Line) : Line'[i] = Line[i]
      /\ \A v \in Writer \ {w} : left'[v] = left[v]
      /\ \A v \in Writer \ {w} : ~InsideBy(v)
      /\ Line = <<>> <=> Len(Line) = 0
  BY LineIs DEF Grown
<1>1. PICK m \in Message, a \in Nat : Coming(w, k, m, a)
  BY ComingIs
<1>2. PICK l \in Nat, t \in Nat :
        /\ a + l = t + 1 /\ k \in 1..l /\ t = Total(m) /\ a \in 1..t
        /\ left'[w] # <<>> => k < l /\ left'[w][1] = Sym(m, a + k)
        /\ left'[w] = <<>> => k = l
  BY <1>1 DEF Coming
<1>3. /\ left[w][1] = Sym(m, a) /\ left[w][1].of = m /\ left[w][1].at = a
      /\ \A i \in 1..k : Len(Line) + i \in 1..Len(Line') /\ Line'[Len(Line) + i] = Sym(m, a + i - 1)
  BY <1>1 DEF Coming
<1>4. (AtEdge /\ a = 1) \/ Awaits(Sym(m, a))
  BY <1>0, <1>3, JunctionIs
<1>5. Len(Line) + 1 \in 1..Len(Line') /\ Line'[Len(Line) + 1] = Sym(m, a)
  <2>1. 1 \in 1..k /\ a + 1 - 1 = a
    BY <1>2
  <2> QED BY <1>3, <2>1
<1>6. Len(Line') # 0 /\ Line' # <<>> /\ Line'[Len(Line')] = Sym(m, a + k - 1) /\ Len(Line') \in Nat
  <2>1. k \in 1..k /\ Len(Line') = Len(Line) + k
    BY <1>0, <1>2
  <2>2. Line'[Len(Line) + k] = Sym(m, a + k - 1)
    BY <1>3, <2>1
  <2>3. Len(Line') # 0 /\ Len(Line') \in Nat
    BY <1>0, <2>1
  <2>4. Line' # <<>>
    BY <2>3
  <2> QED BY <1>0, <2>1, <2>2, <2>3, <2>4
<1>7. ASSUME NEW i \in 1..Len(Line') - 1 PROVE Succeeds(Line'[i], Line'[i + 1])
  <2>1. CASE i < Len(Line)
    <3>1. i \in 1..Len(Line) /\ i + 1 \in 1..Len(Line) /\ i \in 1..Len(Line) - 1
      BY <1>0, <2>1
    <3>2. Succeeds(Line[i], Line[i + 1])
      BY <3>1 DEF Tidy
    <3> QED BY <1>0, <3>1, <3>2
  <2>2. CASE i = Len(Line)
    <3>1. i \in 1..Len(Line) /\ Line # <<>> /\ Line'[i] = Line[i] /\ Line'[i + 1] = Sym(m, a)
      BY <1>0, <1>5, <2>2
    <3>2. CASE AtEdge /\ a = 1
      <4>1. IsLast(Line[i])
        BY <2>2, <3>1, <3>2 DEF AtEdge, AtEdgeIn
      <4> QED BY <3>1, <3>2, <4>1, SymIs DEF Succeeds
    <3>3. CASE Awaits(Sym(m, a))
      BY <2>2, <3>1, <3>3 DEF Awaits, AwaitsIn, Succeeds
    <3> QED BY <1>4, <3>2, <3>3
  <2>3. CASE i > Len(Line)
    <3> DEFINE j == i - Len(Line)
    <3>1. /\ j \in 1..k /\ j + 1 \in 1..k /\ Len(Line) + j = i /\ Len(Line) + (j + 1) = i + 1
          /\ a + (j + 1) - 1 = (a + j - 1) + 1 /\ j < k
      BY <1>0, <2>3
    <3> HIDE DEF j
    <3>2. Line'[i] = Sym(m, a + j - 1) /\ Line'[i + 1] = Sym(m, (a + j - 1) + 1)
      BY <1>3, <3>1
    <3>3. a + j - 1 # t
      BY <1>2, <3>1
    <3>4. ~IsLast(Line'[i]) /\ Line'[i + 1] = After(Line'[i])
      BY <1>2, <3>2, <3>3, SymIs DEF IsLast, After
    <3> QED BY <3>4 DEF Succeeds
  <2> QED BY <1>0, <2>1, <2>2, <2>3
<1>8. IF pass' = None THEN Line'[1].at = 1 ELSE Line'[1] = LastOf(pass')
  <2>1. CASE Line = <<>>
    <3>1. Line'[1] = Sym(m, a)
      BY <1>0, <1>5, <2>1
    <3>2. CASE AtEdge /\ a = 1
      BY <1>0, <2>1, <3>1, <3>2, SymIs DEF AtEdge, AtEdgeIn
    <3>3. CASE Awaits(Sym(m, a))
      BY <1>0, <2>1, <3>1, <3>3 DEF Awaits, AwaitsIn
    <3> QED BY <1>4, <3>2, <3>3
  <2>2. CASE Line # <<>>
    <3>1. Line'[1] = Line[1]
      BY <1>0, <2>2
    <3> QED BY <1>0, <2>2, <3>1 DEF Tidy
  <2> QED BY <2>1, <2>2
<1>9. left'[w] # <<>> => AwaitsIn(Line', pass', left'[w][1])
  <2> SUFFICES ASSUME left'[w] # <<>> PROVE AwaitsIn(Line', pass', left'[w][1])
    OBVIOUS
  <2>1. left'[w][1] = Sym(m, (a + k - 1) + 1)
    <3>1. (a + k - 1) + 1 = a + k
      BY <1>2
    <3> QED BY <1>2, <3>1
  <2>2. a + k - 1 # t
    BY <1>2
  <2> QED BY <1>2, <1>6, <2>1, <2>2, SymIs DEF AwaitsIn, IsLast, After
<1>10. ASSUME NEW v \in Writer, left'[v] # <<>>
       PROVE  left'[v][1].at = 1 \/ AwaitsIn(Line', pass', left'[v][1])
  <2>1. CASE v = w
    BY <1>9, <1>10, <2>1
  <2>2. CASE v # w
    BY <1>0, <1>10, <2>2, InsideIs
  <2> QED BY <2>1, <2>2
<1>11. ~AtEdgeIn(Line', pass') => \E v \in Writer : left'[v] # <<>> /\ AwaitsIn(Line', pass', left'[v][1])
  <2> SUFFICES ASSUME ~AtEdgeIn(Line', pass') PROVE left'[w] # <<>>
    BY <1>9
  <2>1. a + k - 1 # t
    BY <1>2, <1>6, SymIs DEF AtEdgeIn, IsLast
  <2> QED BY <1>2, <2>1
<1>12. Whole(reading')
  BY <1>0 DEF Tidy
<1> QED BY <1>7, <1>8, <1>10, <1>11, <1>12 DEF Tidy, AtEdge, Awaits

LEMMA CutGrown ==
    ASSUME Inv, IF disturbed THEN Cut ELSE Tidy,
           NEW w \in Writer, NEW k \in Nat, Grown(w, k), disturbed'
    PROVE  Cut'
<1>0. /\ Len(Line) \in Nat /\ pass' = pass /\ left[w] # <<>> /\ k \in Nat /\ k >= 1
      /\ Len(Line') = Len(Line) + k
      /\ \A i \in 1..Len(Line) : Line'[i] = Line[i]
      /\ disturbed' = (disturbed \/ \E v \in Writer \ {w} : InsideBy(v))
      /\ writeEnd = "open"
      /\ Line = <<>> <=> Len(Line) = 0
      /\ Line' = <<>> => Len(Line') = 0
  BY LineIs DEF Grown
<1>1. Line' # <<>>
  BY <1>0
<1>2. CASE Cut
  <2>1. CASE \E i \in 1..Len(Line) - 1 : ~IsLast(Line[i]) /\ Line[i + 1].of # Line[i].of
    <3>1. PICK i \in 1..Len(Line) - 1 : ~IsLast(Line[i]) /\ Line[i + 1].of # Line[i].of
      BY <2>1
    <3>2. i \in 1..Len(Line) /\ i + 1 \in 1..Len(Line) /\ i \in 1..Len(Line') - 1
      BY <1>0
    <3>3. Line'[i] = Line[i] /\ Line'[i + 1] = Line[i + 1]
      BY <1>0, <3>2
    <3> QED BY <3>1, <3>2, <3>3 DEF Cut
  <2>2. CASE pass # None /\ Line # <<>> /\ Line[1].of # pass
    <3>1. Line'[1] = Line[1]
      BY <1>0, <2>2
    <3> QED BY <1>0, <1>1, <2>2, <3>1 DEF Cut
  <2> QED BY <1>0, <1>2, <2>1, <2>2 DEF Cut
<1>3. CASE Tidy /\ ~disturbed
  <2>1. PICK v \in Writer : v # w /\ InsideBy(v)
    BY <1>0, <1>3
  <2>2. Awaits(left[v][1]) /\ left[v][1].of # left[w][1].of
    <3>1. left[v] # <<>>
      BY <2>1 DEF InsideBy
    <3>2. left[v][1].at # 1
      BY <2>1, <3>1, InsideIs
    <3> QED BY <1>0, <1>3, <2>1, <3>1, <3>2 DEF Tidy, Inv, Suffixes
  <2>3. Len(Line) + 1 \in 1..Len(Line') /\ Line'[Len(Line) + 1] = left[w][1]
    BY <1>0 DEF Grown
  <2>4. CASE Line = <<>>
    <3>1. pass # None /\ left[v][1].of = pass
      BY <2>2, <2>4, AwaitsIs
    <3>2. Line'[1] = left[w][1]
      BY <1>0, <2>3, <2>4
    <3> QED BY <1>0, <1>1, <2>2, <3>1, <3>2 DEF Cut
  <2>5. CASE Line # <<>>
    <3>1. ~IsLast(Line[Len(Line)]) /\ left[v][1].of = Line[Len(Line)].of
      BY <2>2, <2>5, AwaitsIs
    <3>2. Len(Line) \in 1..Len(Line) /\ Len(Line) \in 1..Len(Line') - 1
      BY <1>0, <2>5
    <3>3. Line'[Len(Line)] = Line[Len(Line)]
      BY <1>0, <3>2
    <3>4. ~IsLast(Line'[Len(Line)]) /\ Line'[Len(Line) + 1].of # Line'[Len(Line)].of
      BY <2>2, <2>3, <3>1, <3>3
    <3>5. \E i \in 1..Len(Line') - 1 : ~IsLast(Line'[i]) /\ Line'[i + 1].of # Line'[i].of
      BY <3>2, <3>4
    <3> QED BY <3>5 DEF Cut
  <2> QED BY <2>4, <2>5
<1> QED BY <1>2, <1>3

LEMMA NextLine == ASSUME Inv' PROVE Len(Line') = 0 <=> Line' = <<>>
<1>1. reading' \in Seq(Symbol) /\ stream' \in Seq(Symbol)
  BY DEF Inv, TypeOK
<1> QED BY <1>1, ConcatIs DEF Line

\* The line loses its first symbols: what it awaits is the same.
LEMMA EdgeDropped ==
    ASSUME Inv, Inv', NEW n \in Nat, NEW m \in Message, Dropped(n, m)
    PROVE  /\ AtEdgeIn(Line', pass') <=> AtEdge
           /\ \A d : AwaitsIn(Line', pass', d) <=> Awaits(d)
<1>0. /\ Len(Line) \in Nat /\ n \in 1..Len(Line) /\ Len(Line') = Len(Line) - n
      /\ \A i \in 1..Len(Line') : i + n \in 1..Len(Line) /\ Line'[i] = Line[i + n]
      /\ Line # <<>> /\ (Line' = <<>> => Len(Line') = 0)
  BY LineIs DEF Dropped
<1>1. CASE Len(Line') # 0
  <2>1. Len(Line') \in 1..Len(Line') /\ Len(Line') + n = Len(Line)
    BY <1>0, <1>1
  <2>2. Line'[Len(Line')] = Line[Len(Line)] /\ Line' # <<>>
    BY <1>0, <1>1, <2>1
  <2> QED BY <1>0, <2>2 DEF AtEdge, AtEdgeIn, Awaits, AwaitsIn
<1>2. CASE Len(Line') = 0
  <2>1. Line' = <<>> /\ n = Len(Line)
    <3>1. n = Len(Line)
      BY <1>0, <1>2
    <3>2. Line' = <<>>
      BY <1>2, NextLine
    <3> QED BY <3>1, <3>2
  <2>2. CASE Line[n] = LastOf(m) /\ pass' = None
    <3>1. IsLast(Line[Len(Line)])
      BY <2>1, <2>2, SymIs DEF IsLast, LastOf
    <3> QED BY <1>0, <2>1, <2>2, <3>1 DEF AtEdge, AtEdgeIn, Awaits, AwaitsIn
  <2>3. CASE m \in Passing /\ Line[n] = Sym(m, Size[m] + 3) /\ pass' = m
    <3>1. Total(m) = Size[m] + 4 /\ Size[m] \in Nat /\ m # None
      BY <2>3, TotalIs, WireAssumption
    <3>2. (Size[m] + 3) + 1 = Size[m] + 4 /\ Size[m] + 3 # Size[m] + 4
      BY <3>1
    <3>3. ~IsLast(Line[Len(Line)]) /\ After(Line[Len(Line)]) = LastOf(m)
      BY <2>1, <2>3, <3>1, <3>2, SymIs DEF IsLast, LastOf, After
    <3> QED BY <1>0, <2>1, <2>3, <3>1, <3>3 DEF AtEdge, AtEdgeIn, Awaits, AwaitsIn
  <2> QED BY <2>2, <2>3 DEF Dropped
<1> QED BY <1>1, <1>2

LEMMA TidyDropped ==
    ASSUME Inv, Inv', Tidy, NEW n \in Nat, NEW m \in Message, Dropped(n, m), Whole(reading')
    PROVE  Tidy'
<1>0. /\ Len(Line) \in Nat /\ n \in 1..Len(Line) /\ Len(Line') = Len(Line) - n
      /\ \A i \in 1..Len(Line') : i + n \in 1..Len(Line) /\ Line'[i] = Line[i + n]
      /\ left' = left
  BY LineIs DEF Dropped
<1>1. ASSUME NEW i \in 1..Len(Line') - 1 PROVE Succeeds(Line'[i], Line'[i + 1])
  <2>1. /\ i \in 1..Len(Line') /\ i + 1 \in 1..Len(Line') /\ i + n \in 1..Len(Line) - 1
        /\ (i + 1) + n = (i + n) + 1
    BY <1>0
  <2>2. Line'[i] = Line[i + n] /\ Line'[i + 1] = Line[(i + n) + 1]
    BY <1>0, <2>1
  <2> QED BY <2>1, <2>2 DEF Tidy
<1>2. Line' # <<>> => IF pass' = None THEN Line'[1].at = 1 ELSE Line'[1] = LastOf(pass')
  <2> SUFFICES ASSUME Line' # <<>>
               PROVE  IF pass' = None THEN Line'[1].at = 1 ELSE Line'[1] = LastOf(pass')
    OBVIOUS
  <2>1. 1 \in 1..Len(Line') /\ n \in 1..Len(Line) - 1 /\ Line'[1] = Line[n + 1]
    <3>1. Len(Line') # 0
      BY NextLine
    <3>2. 1 \in 1..Len(Line') /\ n \in 1..Len(Line) - 1 /\ 1 + n = n + 1
      BY <1>0, <3>1
    <3> QED BY <1>0, <3>2
  <2>2. Succeeds(Line[n], Line'[1])
    BY <2>1 DEF Tidy
  <2>3. CASE Line[n] = LastOf(m) /\ pass' = None
    <3>1. IsLast(Line[n])
      BY <2>3, SymIs DEF IsLast, LastOf
    <3> QED BY <2>2, <2>3, <3>1 DEF Succeeds
  <2>4. CASE m \in Passing /\ Line[n] = Sym(m, Size[m] + 3) /\ pass' = m
    <3>1. Total(m) = Size[m] + 4 /\ Size[m] \in Nat /\ m # None
      BY <2>4, TotalIs, WireAssumption
    <3>2. (Size[m] + 3) + 1 = Size[m] + 4 /\ Size[m] + 3 # Size[m] + 4
      BY <3>1
    <3>3. ~IsLast(Line[n]) /\ After(Line[n]) = LastOf(m)
      BY <2>4, <3>1, <3>2, SymIs DEF IsLast, LastOf, After
    <3> QED BY <2>2, <2>4, <3>1, <3>3 DEF Succeeds
  <2> QED BY <2>3, <2>4 DEF Dropped
<1>3. ASSUME NEW v \in Writer, left'[v] # <<>>
      PROVE  left'[v][1].at = 1 \/ AwaitsIn(Line', pass', left'[v][1])
  BY <1>0, <1>3, EdgeDropped DEF Tidy
<1>4. ~AtEdgeIn(Line', pass') => \E v \in Writer : left'[v] # <<>> /\ AwaitsIn(Line', pass', left'[v][1])
  BY <1>0, EdgeDropped DEF Tidy
<1> QED BY <1>1, <1>2, <1>3, <1>4 DEF Tidy, AtEdge, Awaits

LEMMA CutDropped ==
    ASSUME Inv, Inv', Cut, NEW n \in Nat, NEW m \in Message, Dropped(n, m) PROVE Cut'
<1>0. /\ Len(Line) \in Nat /\ n \in 1..Len(Line) /\ Len(Line') = Len(Line) - n
      /\ \A i \in 1..Len(Line') : i + n \in 1..Len(Line) /\ Line'[i] = Line[i + n]
      /\ \A i \in 1..n : Line[i].of = m
      /\ writeEnd' = writeEnd /\ m # None
  BY LineIs, WireAssumption DEF Dropped
<1>1. ASSUME NEW i \in 1..Len(Line) - 1, ~IsLast(Line[i]), Line[i + 1].of # Line[i].of PROVE Cut'
  <2>1. i + 1 \notin 1..n /\ i \in 1..Len(Line)
    <3>1. i \in 1..n \/ i > n
      BY <1>0
    <3>2. ~(i \in 1..n /\ i + 1 \in 1..n)
      BY <1>0, <1>1
    <3> QED BY <1>0, <3>1, <3>2
  <2>2. CASE i > n
    <3>1. /\ i - n \in 1..Len(Line') - 1 /\ i - n \in 1..Len(Line') /\ i - n + 1 \in 1..Len(Line')
          /\ (i - n) + n = i /\ (i - n + 1) + n = i + 1
      BY <1>0, <2>2
    <3>2. Line'[i - n] = Line[i] /\ Line'[i - n + 1] = Line[i + 1]
      BY <1>0, <3>1
    <3>3. ~IsLast(Line'[i - n]) /\ Line'[i - n + 1].of # Line'[i - n].of
      BY <1>1, <3>2
    <3> QED BY <3>1, <3>3 DEF Cut
  <2>3. CASE i = n
    <3>1. pass' = m
      BY <1>1, <2>3, SymIs DEF Dropped, IsLast, LastOf
    <3>2. 1 \in 1..Len(Line') /\ Len(Line') # 0 /\ 1 + n = i + 1
      BY <1>0, <2>3
    <3>3. Line'[1] = Line[i + 1] /\ Line' # <<>>
      BY <1>0, <3>2
    <3>4. Line'[1].of # m
      BY <1>0, <1>1, <2>3, <3>3
    <3> QED BY <1>0, <3>1, <3>3, <3>4 DEF Cut
  <2> QED BY <1>0, <2>1, <2>2, <2>3
<1>2. CASE pass # None /\ Line # <<>> /\ Line[1].of # pass
  <2>1. pass = m
    BY <1>2 DEF Dropped
  <2>2. Line[1].of = m
    BY <1>0
  <2> QED BY <1>2, <2>1, <2>2
<1>3. CASE writeEnd # "open" /\ ~AtEdge
  <2>1. ~AtEdgeIn(Line', pass')
    BY <1>3, EdgeDropped
  <2> QED BY <1>0, <1>3, <2>1 DEF Cut, AtEdge
<1> QED BY <1>1, <1>2, <1>3 DEF Cut

LEMMA TidyStep ==
    Inv /\ TidyInv /\ (over = "no" => Reads) /\ [Next]_vars => TidyInv'
<1> SUFFICES ASSUME Inv, TidyInv, over = "no" => Reads, [Next]_vars, over' = "no"
             PROVE  IF disturbed' THEN Cut' ELSE Tidy'
  BY DEF TidyInv
<1>0. over = "no" /\ Reads /\ IF disturbed THEN Cut ELSE Tidy
  BY LineStep DEF TidyInv, Reads
<1>a. Inv'
  BY NextInv
<1>1. Tidy => Whole(reading')
  BY <1>0, WholeStep
<1>2. ASSUME Kept PROVE IF disturbed' THEN Cut' ELSE Tidy'
  <2>1. Line' = Line /\ left' = left /\ pass' = pass /\ writeEnd' = writeEnd /\ disturbed' = disturbed
    BY <1>2 DEF Kept
  <2>2. Cut => Cut'
    BY <2>1 DEF Cut, AtEdge
  <2>3. Tidy => Tidy'
    BY <1>1, <2>1 DEF Tidy, AtEdge, Awaits
  <2> QED BY <1>0, <2>1, <2>2, <2>3
<1>3. ASSUME NEW w \in Writer, NEW m \in Message, StartWrite(w, m), Line' = Line
      PROVE  IF disturbed' THEN Cut' ELSE Tidy'
  <2>1. /\ pass' = pass /\ writeEnd' = writeEnd /\ disturbed' = disturbed
        /\ left'[w] # <<>> /\ left'[w][1].at = 1 /\ left[w] = <<>>
        /\ \A v \in Writer \ {w} : left'[v] = left[v]
    BY <1>3, StartedIs
  <2>2. Cut => Cut'
    BY <1>3, <2>1 DEF Cut, AtEdge
  <2>3. ASSUME Tidy PROVE Tidy'
    <3>1. \A v \in Writer : left'[v] # <<>> =>
            left'[v][1].at = 1 \/ AwaitsIn(Line, pass, left'[v][1])
      BY <2>1, <2>3 DEF Tidy, Awaits
    <3>2. ~AtEdgeIn(Line, pass) => \E v \in Writer : left'[v] # <<>> /\ AwaitsIn(Line, pass, left'[v][1])
      BY <2>1, <2>3 DEF Tidy, Awaits, AtEdge
    <3> QED BY <1>1, <1>3, <2>1, <2>3, <3>1, <3>2 DEF Tidy, AtEdge, Awaits
  <2> QED BY <1>0, <2>1, <2>2, <2>3
<1>4. ASSUME NEW w \in Writer, NEW k \in Nat, Grown(w, k) PROVE IF disturbed' THEN Cut' ELSE Tidy'
  <2>1. CASE disturbed'
    BY <1>0, <1>4, <2>1, CutGrown
  <2>2. CASE ~disturbed'
    <3>1. ~disturbed
      BY <1>4, <2>2 DEF Grown
    <3> QED BY <1>0, <1>4, <2>2, <3>1, TidyGrown
  <2> QED BY <2>1, <2>2
<1>5. ASSUME CloseEnd, Line' = Line PROVE IF disturbed' THEN Cut' ELSE Tidy'
  <2>1. /\ pass' = pass /\ writeEnd = "open" /\ writeEnd' # "open"
        /\ disturbed' = (disturbed \/ \E v \in Writer : InsideBy(v))
        /\ \A v \in Writer : left'[v] = <<>>
    BY <1>5 DEF CloseEnd, DropAll
  <2>2. Cut => Cut'
    BY <1>5, <2>1 DEF Cut, AtEdge
  <2>3. ASSUME Tidy, NEW v \in Writer, InsideBy(v) PROVE Cut'
    <3>1. left[v] # <<>>
      BY <2>3 DEF InsideBy
    <3>2. ~AtEdge
      BY <2>3, <3>1, InsideIs, AwaitsIs DEF Tidy
    <3> QED BY <1>5, <2>1, <3>2 DEF Cut, AtEdge
  <2>4. ASSUME Tidy, \A v \in Writer : ~InsideBy(v) PROVE Tidy'
    <3>1. AtEdge
      BY <2>4, InsideIs, AwaitsIs DEF Tidy
    <3> QED BY <1>1, <1>5, <2>1, <2>4, <3>1 DEF Tidy, AtEdge
  <2> QED BY <1>0, <2>1, <2>2, <2>3, <2>4
<1>6. ASSUME NEW n \in Nat, NEW m \in Message, Dropped(n, m) PROVE IF disturbed' THEN Cut' ELSE Tidy'
  <2>1. disturbed' = disturbed
    BY <1>6 DEF Dropped
  <2> QED BY <1>0, <1>a, <1>1, <1>6, <2>1, TidyDropped, CutDropped
<1> QED BY <1>0, <1>2, <1>3, <1>4, <1>5, <1>6, LineStep DEF Reads

----------------------------------------------------------------------------
(* The channel.                                                             *)

LineInv == Inv /\ QueuedInv /\ TidyInv /\ (over = "short" => disturbed)

LEMMA InitLine == Init => LineInv
<1> SUFFICES ASSUME Init PROVE LineInv
  OBVIOUS
<1>1. Line = <<>> /\ Len(Line) = 0
  BY DEF Init, Line
<1>2. /\ pass = None /\ reading = <<>> /\ over = "no" /\ ~disturbed /\ written = <<>> /\ received = <<>>
      /\ \A w \in Writer : left[w] = <<>>
  BY DEF Init
<1>3. Reads
  BY <1>1, <1>2 DEF Reads, InOrder, Consecutive, HalfRead
<1>4. Pending = {} /\ Len(received) <= Len(written)
  BY <1>2 DEF Pending
<1>5. Queued
  BY <1>1, <1>4 DEF Queued
<1>6. Tidy
  BY <1>1, <1>2 DEF Tidy, AtEdge, AtEdgeIn, Whole
<1> QED BY <1>2, <1>3, <1>4, <1>5, <1>6, InitInv DEF LineInv, QueuedInv, TidyInv

LEMMA NextLineInv == LineInv /\ [Next]_vars => LineInv'
<1> SUFFICES ASSUME LineInv, [Next]_vars PROVE LineInv'
  OBVIOUS
<1>1. Inv' /\ QueuedInv' /\ TidyInv'
  BY NextInv, QueuedStep, TidyStep DEF LineInv, QueuedInv
<1>2. over' = "short" => disturbed'
  <2>1. ASSUME NEW w \in Writer, WriteChunk(w) PROVE over' = "short" => disturbed'
    BY <2>1 DEF WriteChunk, LineInv
  <2>2. ASSUME NEW w \in Writer, NEW m \in Message, StartWrite(w, m) PROVE over' = "short" => disturbed'
    BY <2>2 DEF StartWrite, LineInv
  <2>3. CASE CloseEnd \/ Interrupt \/ UNCHANGED vars
    BY <2>3 DEF CloseEnd, Interrupt, vars, LineInv
  <2>4. CASE ReadEnd \/ ReadShort \/ ReaderLeaves \/ ReadSymbol \/ ReadSocket
    BY <2>4 DEF ReadEnd, ReadShort, ReaderLeaves, ReadSymbol, ReadSocket, Stop, EndOf, LineInv
  <2> QED BY <2>1, <2>2, <2>3, <2>4, NextIs
<1> QED BY <1>1, <1>2 DEF LineInv

LEMMA AlwaysLine == Spec => []LineInv
BY InitLine, NextLineInv, PTL DEF Spec

\* What the reader finds next on an undisturbed line is what it looks for.
LEMMA NextFits ==
    ASSUME Inv, Reads, Tidy, pass = None, stream # <<>>
    PROVE  Fits(Head(stream)) /\ Whole(Append(reading, Head(stream)))
<1> DEFINE c == Head(stream)
           n == Len(reading)
           s == Append(reading, c)
<1>1. /\ reading \in Seq(Symbol) /\ stream \in Seq(Symbol) /\ c = stream[1] /\ c \in Symbol
      /\ 1 \in 1..Len(stream)
  BY Rest DEF Inv, TypeOK
<1>2. n + 1 \in 1..Len(Line) /\ Line[n + 1] = c /\ n \in Nat /\ Len(Line) \in Nat
  BY <1>1, LineIs
<1> HIDE DEF c
<1>3. /\ Len(s) = n + 1 /\ s \in Seq(Symbol)
      /\ \A i \in 1..n : s[i] = reading[i]
      /\ s[n + 1] = c /\ \A i \in 1..Len(s) : i \in 1..n \/ i = n + 1
      /\ reading # <<>> => 1 \in 1..n /\ n \in 1..n /\ n >= 1
      /\ reading = <<>> => n = 0
  BY <1>1, Longer
<1>4. c.of \in Message /\ Size[c.of] \in Nat
  BY <1>1, TotalIs DEF Symbol
<1>5. CASE reading = <<>>
  <2>1. \A j \in DOMAIN s : j = 1
    BY <1>3, <1>5
  <2>2. Line # <<>> /\ Line[1] = c
    BY <1>2, <1>3, <1>5
  <2>3. c.at = 1
    <3>1. IF pass = None THEN Line[1].at = 1 ELSE Line[1] = LastOf(pass)
      BY <2>2 DEF Tidy
    <3> QED BY <2>2, <3>1
  <2>4. Is(c) = "digit"
    <3>1. PICK z \in Nat : z = Size[c.of]
      BY <1>4
    <3>2. 1 # z + 3 /\ 1 # z + 4
      OBVIOUS
    <3> QED BY <2>3, <3>1, <3>2 DEF Is
  <2>5. Fits(c)
    <3>1. Len(reading) = 0
      BY <1>3, <1>5
    <3> QED BY <1>5, <2>4, <3>1 DEF Fits
  <2>6. Whole(s)
    BY <2>1, Zenon DEF Whole
  <2> QED BY <2>5, <2>6 DEF c
<1>6. CASE reading # <<>>
  <2>1. \A j \in 1..n : reading[j].of = reading[1].of
    BY <1>1 DEF Tidy, Whole
  <2>2. reading[n].at = n /\ n < Size[reading[1].of] + 3 /\ reading[n].of = reading[1].of
    BY <1>3, <1>6, <2>1 DEF Reads, Tidy, HalfRead
  <2>3. Line[n] = reading[n] /\ n \in 1..Len(Line) /\ n \in 1..Len(Line) - 1
    BY <1>2, <1>3, <1>6, LineIs
  <2>4. reading[1].of \in Message
    BY <1>3, <1>6, <2>2, <2>3, SymbolIs
  <2>5. ~IsLast(Line[n])
    <3>1. /\ Total(reading[1].of) \in {Size[reading[1].of] + 4, Size[reading[1].of] + 3}
          /\ Size[reading[1].of] \in Nat
      BY <2>4, TotalIs
    <3>2. Line[n].at = n /\ Line[n].of = reading[1].of
      BY <2>2, <2>3
    <3> QED BY <1>2, <2>2, <3>1, <3>2 DEF IsLast
  <2>6. c = After(Line[n])
    <3>1. Succeeds(Line[n], Line[n + 1])
      BY <2>3 DEF Tidy
    <3> QED BY <1>2, <2>5, <3>1 DEF Succeeds
  <2>7. c.of = reading[1].of /\ c.at = n + 1
    BY <2>2, <2>3, <2>6, SymIs DEF After
  <2>8. s[1] = reading[1] /\ DOMAIN s = 1..Len(s)
    BY <1>3, <1>6
  <2>9. Whole(s)
    BY <1>3, <2>1, <2>7, <2>8 DEF Whole
  <2>10. PICK z \in Nat, l \in Nat :
           /\ z = Size[c.of] /\ z = Size[reading[1].of] /\ l = Len(reading)
           /\ l >= 1 /\ l < z + 3 /\ c.at = l + 1
    BY <1>2, <1>3, <1>4, <1>6, <2>2, <2>7
  <2>11. l = 1 => Is(c) = "colon"
    <3>1. l = 1 => l + 1 = 2 /\ l + 1 # 1 /\ l + 1 # z + 3 /\ l + 1 # z + 4
      OBVIOUS
    <3> QED BY <2>10, <3>1 DEF Is
  <2>12. l > 1 /\ l < z + 2 => Is(c) = "byte"
    <3>1. l > 1 /\ l < z + 2 => l + 1 # 1 /\ l + 1 # 2 /\ l + 1 # z + 3 /\ l + 1 # z + 4
      OBVIOUS
    <3> QED BY <2>10, <3>1 DEF Is
  <2>13. l = z + 2 => Is(c) = "comma"
    <3>1. l = z + 2 => l + 1 # 1 /\ l + 1 # 2 /\ l + 1 = z + 3 /\ l + 1 # z + 4
      OBVIOUS
    <3> QED BY <2>10, <3>1 DEF Is
  <2>14. Fits(c)
    <3>1. /\ l # 0 /\ (l = 1 \/ (l > 1 /\ l < z + 2) \/ l = z + 2)
          /\ l = 1 => ~(l > 1 /\ l < z + 2)
          /\ l = z + 2 => ~(l > 1 /\ l < z + 2)
          /\ "byte" # "fd"
      BY <2>10
    <3>2. Fits(c) = CASE l = 0 -> Is(c) = "digit"
                     [] l = 1 -> Is(c) = "colon"
                     [] l > 1 /\ l < z + 2 -> Is(c) # "fd"
                     [] l = z + 2 -> Is(c) = "comma"
      BY <1>6, <2>10, Zenon DEF Fits
    <3> QED BY <2>11, <2>12, <2>13, <3>1, <3>2
  <2> QED BY <2>9, <2>14 DEF c
<1> QED BY <1>5, <1>6

\* The symbol that completes a netstring of one message is its last, or the
\* comma behind which its socket comes.
LEMMA CompleteIs ==
    ASSUME Inv, stream # <<>>, Fits(Head(stream)), NEW s, s = Append(reading, Head(stream)),
           Complete(s), Whole(s), NEW m, m = s[1].of, m \notin Passing
    PROVE  /\ Len(s) \in 1..Len(Line) /\ m \in Message
           /\ \A i \in 1..Len(s) : Line[i].of = m
           /\ Line[Len(s)] = LastOf(m)
<1> DEFINE c == Head(stream)
           n == Len(s)
<1>1. /\ stream \in Seq(Symbol) /\ reading \in Seq(Symbol) /\ c = stream[1] /\ c \in Symbol
      /\ Len(stream) \in Nat /\ 1 \in 1..Len(stream)
  BY Rest DEF Inv, TypeOK
<1>2. /\ s \in Seq(Symbol) /\ Len(reading) \in Nat /\ n = Len(reading) + 1
      /\ \A i \in 1..Len(reading) : s[i] = reading[i]
      /\ s[Len(reading) + 1] = c
      /\ \A i \in 1..n : i \in 1..Len(reading) \/ i = Len(reading) + 1
  <2> HIDE DEF c
  <2> QED BY <1>1, Longer
<1>3. Is(c) = "comma"
  BY <1>1, FitsIs
<1> HIDE DEF c, n
<1>4. /\ n \in 1..Len(Line) /\ n \in Nat /\ \A i \in 1..n : Line[i] = s[i]
  <2>1. /\ Len(Line) = Len(reading) + Len(stream)
        /\ \A i \in 1..Len(reading) : Line[i] = reading[i]
        /\ \A i \in 1..Len(stream) : Len(reading) + i \in 1..Len(Line) /\ Line[Len(reading) + i] = stream[i]
    BY LineIs
  <2>2. Line[Len(reading) + 1] = c /\ Len(reading) + 1 \in 1..Len(Line)
    BY <1>1, <2>1
  <2> QED BY <1>1, <1>2, <2>1, <2>2
<1>5. \A i \in 1..n : Line[i].of = m
  <2>1. DOMAIN s = 1..n
    BY <1>2 DEF n
  <2> QED BY <1>4, <2>1 DEF Whole
<1>6. Line[n] = c /\ c.of = m /\ m \in Message
  <2>1. Line[n] = c /\ n \in 1..n
    BY <1>2, <1>4
  <2> QED BY <1>4, <1>5, <2>1, SymbolIs
<1>7. Line[n] = Sym(m, Size[m] + 3)
  BY <1>1, <1>3, <1>4, <1>6, CommaIs, SymbolIs
<1>8. Line[n] = LastOf(m)
  BY <1>6, <1>7, TotalIs DEF LastOf
<1> QED BY <1>4, <1>5, <1>6, <1>8 DEF n

LEMMA TakeIs ==
    ASSUME NEW s \in Seq(Message), NEW n \in Nat, n + 1 <= Len(s)
    PROVE  /\ SubSeq(s, n + 1, Len(s)) # <<>>
           /\ Head(SubSeq(s, n + 1, Len(s))) = s[n + 1]
           /\ Tail(SubSeq(s, n + 1, Len(s))) = SubSeq(s, n + 2, Len(s))
<1>1. Len(s) \in Nat /\ n + 1 \in 1..Len(s) /\ Len(s) \in n + 1..Len(s) /\ (n + 1) + 1 = n + 2
  OBVIOUS
<1>2. /\ Head(SubSeq(s, n + 1, Len(s))) = s[n + 1]
      /\ Tail(SubSeq(s, n + 1, Len(s))) = SubSeq(s, (n + 1) + 1, Len(s))
  BY <1>1, HeadTailOfSubSeq
<1>3. SubSeq(s, n + 1, Len(s)) # <<>>
  <2>1. \A i \in n + 1..Len(s) : s[i] \in Message
    BY <1>1
  <2>2. Len(SubSeq(s, n + 1, Len(s))) = IF n + 1 <= Len(s) THEN Len(s) - (n + 1) + 1 ELSE 0
    BY <1>1, <2>1, SubSeqProperties
  <2>3. Len(SubSeq(s, n + 1, Len(s))) # 0
    BY <1>1, <2>2
  <2>4. \A q : Len(q) # 0 => q # <<>>
    OBVIOUS
  <2> QED BY <2>3, <2>4, Zenon
<1> QED BY <1>1, <1>2, <1>3

Queue == SubSeq(written, Len(received) + 1, Len(written))
Over  == IF over = "short" THEN "no" ELSE over

\* The next value does not load, which is an error on an undisturbed line too.
OddNext == Queue # <<>> /\ Head(Queue) \in Unloadable

\* The reader stops on an error only where something disturbed the line, or on a
\* value that does not load and is the first in the queue.
LEMMA ErrorIs ==
    ASSUME LineInv, ReadSymbol \/ ReadSocket \/ ReadEnd, over' \notin {"no", "end"}
    PROVE  disturbed \/ OddNext
<1> SUFFICES ASSUME ~disturbed, ~OddNext PROVE FALSE
  OBVIOUS
<1>0. over = "no"
  BY DEF ReadSymbol, ReadSocket, ReadEnd
<1>1. Inv /\ Reads /\ Tidy /\ HalfRead
  BY <1>0 DEF LineInv, QueuedInv, TidyInv, Reads
<1>2. CASE ReadSymbol
  <2>1. pass = None /\ stream # <<>>
    BY <1>2 DEF ReadSymbol
  <2>2. Fits(Head(stream)) /\ Whole(Append(reading, Head(stream)))
    BY <1>1, <2>1, NextFits
  <2> DEFINE s == Append(reading, Head(stream))
             m == s[1].of
  <2>3. Complete(s) /\ m \in Unloadable
    BY <1>0, <1>2, <2>2 DEF ReadSymbol, Loads
  <2> HIDE DEF s, m
  <2>4. m \notin Passing
    BY <2>3, WireAssumption
  <2>5. /\ Len(s) \in 1..Len(Line) /\ m \in Message /\ Len(Line) \in Nat
        /\ \A i \in 1..Len(s) : Line[i].of = m
        /\ Line[Len(s)] = LastOf(m)
    BY <1>1, <2>1, <2>2, <2>3, <2>4, CompleteIs, LineIs DEF s, m
  <2>6. Queued /\ Len(received) <= Len(written)
    BY <1>0 DEF LineInv, QueuedInv
  <2>7. /\ Len(received) + 1 \in Pending /\ written[Len(received) + 1] = m
        /\ Len(received) \in Nat /\ Len(written) \in Nat
    <3>1. Len(s) \in Nat
      BY <2>5
    <3> QED BY <1>1, <2>5, <2>6, <3>1, FirstIs
  <2>8. Len(received) + 1 <= Len(written) /\ written \in Seq(Message)
    BY <2>7, <1>1 DEF Pending, Inv, TypeOK
  <2>9. Queue # <<>> /\ Head(Queue) = m
    BY <2>7, <2>8, TakeIs DEF Queue
  <2> QED BY <2>3, <2>9 DEF OddNext
<1>3. CASE ReadSocket
  <2>1. pass # None /\ stream # <<>> /\ Is(Head(stream)) # "fd" /\ reading = <<>>
    BY <1>0, <1>1, <1>3 DEF ReadSocket, HalfRead
  <2>2. pass \in Message /\ pass \in Passing /\ stream \in Seq(Symbol) /\ reading \in Seq(Symbol)
    BY <1>1, <2>1 DEF Inv, TypeOK, Histories
  <2>3. Head(stream) = stream[1] /\ 1 \in 1..Len(stream)
    BY <2>1, <2>2, Rest
  <2>4. Len(reading) + 1 \in 1..Len(Line) /\ Line[Len(reading) + 1] = stream[1] /\ Len(reading) = 0
        /\ Len(Line) \in Nat
    BY <1>1, <2>1, <2>3, LineIs
  <2>5. Line # <<>> /\ Line[1] = Head(stream)
    BY <2>3, <2>4
  <2>6. Head(stream) = Sym(pass, Total(pass))
    BY <1>1, <2>1, <2>5 DEF Tidy, LastOf
  <2>7. Head(stream).of = pass /\ Head(stream).at = Size[pass] + 4 /\ Size[pass] \in Nat
    BY <2>2, <2>6, SymIs, TotalIs
  <2> QED BY <2>1, <2>7 DEF Is
<1>4. CASE ReadEnd
  <2>1. stream = <<>> /\ writeEnd # "open" /\ ~(reading = <<>> /\ pass = None)
    BY <1>4 DEF ReadEnd, Stop, EndOf, AtBoundary
  <2>2. AtEdge
    BY <1>1, <2>1 DEF Tidy, Inv, Suffixes
  <2>3. reading \in Seq(Symbol) /\ Len(stream) = 0
    BY <1>1, <2>1 DEF Inv, TypeOK
  <2>4. Len(Line) = Len(reading) /\ Len(reading) \in Nat /\ (Line = <<>> <=> Len(Line) = 0)
    BY <1>1, <2>3, LineIs
  <2>5. CASE Line = <<>>
    BY <2>1, <2>2, <2>3, <2>4, <2>5 DEF AtEdge, AtEdgeIn
  <2>6. CASE Line # <<>>
    <3> DEFINE n == Len(reading)
    <3>1. n \in 1..n /\ 1 \in 1..n /\ Line[n] = reading[n] /\ n \in 1..Len(Line) /\ reading # <<>>
      BY <1>1, <2>3, <2>4, <2>6, LineIs
    <3>2. reading[n].at = n /\ reading[n].of = reading[1].of /\ n < Size[reading[1].of] + 3
      BY <1>1, <2>3, <3>1 DEF Tidy, HalfRead, Whole
    <3>3. reading[1].of \in Message
      BY <1>1, <3>1, <3>2, SymbolIs
    <3>4. /\ Total(reading[1].of) \in {Size[reading[1].of] + 4, Size[reading[1].of] + 3}
          /\ Size[reading[1].of] \in Nat
      BY <3>3, TotalIs
    <3>5. reading[n].at = Total(reading[1].of)
      BY <2>2, <2>4, <2>6, <3>1, <3>2 DEF AtEdge, AtEdgeIn, IsLast
    <3> QED BY <2>4, <3>2, <3>4, <3>5
  <2> QED BY <2>5, <2>6
<1> QED BY <1>2, <1>3, <1>4

\* The reader finds the end only behind everything that was written.
LEMMA EndIs ==
    ASSUME LineInv, ReadEnd, over' = "end"
    PROVE  ~disturbed /\ Len(written) < Len(received) + 1
<1>1. /\ over = "no" /\ stream = <<>> /\ writeEnd # "open"
      /\ reading = <<>> /\ pass = None
  BY DEF ReadEnd, Stop, EndOf, AtBoundary
<1>2. Line = <<>> /\ Len(Line) = 0
  BY <1>1 DEF Line
<1>3. Queued /\ Len(written) \in Nat /\ Len(received) \in Nat
  BY <1>1 DEF LineInv, QueuedInv, Inv, TypeOK
<1>4. ~Cut
  BY <1>1, <1>2 DEF Cut, AtEdge, AtEdgeIn
<1>5. Pending = {}
  BY <1>2, <1>3 DEF Queued
<1>6. Len(written) < Len(received) + 1
  <2>1. Len(received) + 1 \notin Pending
    BY <1>5
  <2> QED BY <1>3, <2>1 DEF Pending
<1> QED BY <1>1, <1>4, <1>6 DEF LineInv, TidyInv

\* The queue of the channel, when a message is written and when one is received.
LEMMA PutIs ==
    ASSUME NEW s \in Seq(Message), NEW n \in Nat, n <= Len(s), NEW m \in Message
    PROVE  SubSeq(Append(s, m), n + 1, Len(Append(s, m))) = Append(SubSeq(s, n + 1, Len(s)), m)
<1> DEFINE t == Append(s, m)
           a == SubSeq(t, n + 1, Len(t))
           b == SubSeq(s, n + 1, Len(s))
<1>1. /\ t \in Seq(Message) /\ Len(t) = Len(s) + 1 /\ Len(s) \in Nat
      /\ \A i \in 1..Len(s) : t[i] = s[i]
      /\ t[Len(s) + 1] = m
  BY Longer
<1> HIDE DEF t
<1>2. /\ a \in Seq(Message) /\ Len(a) = Len(s) + 1 - n
      /\ \A i \in 1..Len(s) + 1 - n : a[i] = t[n + i]
  <2>1. \A i \in n + 1..Len(t) : t[i] \in Message
    BY <1>1
  <2>2. /\ a \in Seq(Message) /\ Len(a) = (IF n + 1 <= Len(t) THEN Len(t) - (n + 1) + 1 ELSE 0)
        /\ \A i \in 1..Len(t) - (n + 1) + 1 : a[i] = t[(n + 1) + i - 1]
    BY <1>1, <2>1, SubSeqProperties
  <2> HIDE DEF a
  <2>3. Len(t) - (n + 1) + 1 = Len(s) + 1 - n /\ n + 1 <= Len(t)
    BY <1>1
  <2>4. \A i \in 1..Len(s) + 1 - n : a[i] = t[n + i]
    <3> SUFFICES ASSUME NEW i \in 1..Len(s) + 1 - n PROVE a[i] = t[n + i]
      OBVIOUS
    <3>1. i \in 1..Len(t) - (n + 1) + 1 /\ (n + 1) + i - 1 = n + i
      BY <2>3
    <3> QED BY <2>2, <3>1
  <2> QED BY <2>2, <2>3, <2>4
<1>3. /\ b \in Seq(Message) /\ Len(b) = Len(s) - n
      /\ \A i \in 1..Len(s) - n : b[i] = s[n + i]
  <2>1. \A i \in n + 1..Len(s) : s[i] \in Message
    BY <1>1
  <2>2. /\ b \in Seq(Message) /\ Len(b) = (IF n + 1 <= Len(s) THEN Len(s) - (n + 1) + 1 ELSE 0)
        /\ \A i \in 1..Len(s) - (n + 1) + 1 : b[i] = s[(n + 1) + i - 1]
    BY <1>1, <2>1, SubSeqProperties
  <2> HIDE DEF b
  <2>3. Len(b) = Len(s) - n
    BY <1>1, <2>2
  <2>4. \A i \in 1..Len(s) - n : b[i] = s[n + i]
    <3> SUFFICES ASSUME NEW i \in 1..Len(s) - n PROVE b[i] = s[n + i]
      OBVIOUS
    <3>1. i \in 1..Len(s) - (n + 1) + 1 /\ (n + 1) + i - 1 = n + i
      BY <1>1
    <3> QED BY <2>2, <3>1
  <2> QED BY <2>2, <2>3, <2>4
<1> HIDE DEF a, b
<1>4. /\ Append(b, m) \in Seq(Message) /\ Len(Append(b, m)) = Len(s) + 1 - n
      /\ \A i \in 1..Len(s) - n : Append(b, m)[i] = b[i]
      /\ Append(b, m)[Len(s) - n + 1] = m
  <2>1. /\ Append(b, m) \in Seq(Message) /\ Len(Append(b, m)) = Len(b) + 1
        /\ \A i \in 1..Len(b) : Append(b, m)[i] = b[i]
        /\ Append(b, m)[Len(b) + 1] = m
    BY <1>3, Longer
  <2> QED BY <1>1, <1>3, <2>1
<1>5. \A i \in 1..Len(a) : a[i] = Append(b, m)[i]
  <2> SUFFICES ASSUME NEW i \in 1..Len(a) PROVE a[i] = Append(b, m)[i]
    OBVIOUS
  <2>1. CASE i \in 1..Len(s) - n
    <3>1. n + i \in 1..Len(s) /\ i \in 1..Len(s) + 1 - n
      BY <1>1, <2>1
    <3> QED BY <1>1, <1>2, <1>3, <1>4, <2>1, <3>1
  <2>2. CASE i = Len(s) - n + 1
    <3>1. n + i = Len(s) + 1 /\ i \in 1..Len(s) + 1 - n
      BY <1>1, <1>2, <2>2
    <3>2. a[i] = m
      BY <1>1, <1>2, <3>1
    <3>3. Append(b, m)[i] = m
      BY <1>4, <2>2
    <3> QED BY <3>2, <3>3
  <2>3. PICK l \in Nat : l = Len(s)
    BY <1>1
  <2>4. i \in 1..l + 1 - n
    BY <1>2, <2>3
  <2>5. i \in 1..l - n \/ i = l - n + 1
    BY <2>4
  <2> QED BY <2>1, <2>2, <2>3, <2>5
<1>6. a = Append(b, m)
  BY <1>2, <1>4, <1>5, SeqEqual
<1> QED BY <1>6 DEF a, b, t

LEMMA WriteChunkRefines ==
    ASSUME LineInv, NEW w \in Writer, WriteChunk(w) PROVE [C!Next]_C!vars
<1>1. /\ writeEnd = "open" /\ UNCHANGED <<writeEnd, over, received>> /\ left[w] # <<>>
      /\ written' = written \/ written' = Append(written, left[w][1].of)
      /\ disturbed' \in {disturbed, TRUE}
  BY DEF WriteChunk, LineInv, Inv, TypeOK
<1>2. left[w][1].of \in Message /\ written \in Seq(Message) /\ Len(received) \in Nat
      /\ Len(received) <= Len(written)
  BY <1>1, LeftIs DEF LineInv, QueuedInv, Inv, TypeOK
<1>3. CASE written' = written
  BY <1>1, <1>3 DEF C!Next, C!Disturb, C!vars
<1>4. CASE written' = Append(written, left[w][1].of)
  <2>1. Queue' = Append(Queue, left[w][1].of)
    BY <1>1, <1>2, <1>4, PutIs DEF Queue
  <2>2. C!Put
    BY <1>1, <1>2, <2>1 DEF C!Put, Queue
  <2> QED BY <2>2 DEF C!Next
<1> QED BY <1>1, <1>3, <1>4

LEMMA DroppedRefines ==
    ASSUME LineInv, over = "no", over' = "no", NEW n \in Nat, NEW m \in Message, Dropped(n, m)
    PROVE  [C!Next]_C!vars
<1>1. UNCHANGED <<writeEnd, written, disturbed>>
  BY DEF Dropped
<1>2. CASE received' = received
  BY <1>1, <1>2 DEF C!vars
<1>3. CASE Line[n] = LastOf(m) /\ received' = Append(received, m) /\ m \notin Unloadable
  <2>1. /\ written[Len(received) + 1] = m /\ Len(received) + 1 \in Pending
        /\ Len(received) \in Nat /\ Len(written) \in Nat
    BY <1>3, FirstIs DEF LineInv, QueuedInv, Dropped
  <2>2. Len(received) + 1 <= Len(written) /\ written \in Seq(Message)
    BY <2>1 DEF Pending, LineInv, Inv, TypeOK
  <2>3. /\ Queue # <<>> /\ Head(Queue) = m
        /\ Tail(Queue) = SubSeq(written, Len(received) + 2, Len(written))
    BY <2>1, <2>2, TakeIs DEF Queue
  <2>4. Queue' = SubSeq(written, Len(received) + 2, Len(written))
    <3>1. Len(received') = Len(received) + 1 /\ (Len(received) + 1) + 1 = Len(received) + 2
      BY <1>3, <2>1 DEF LineInv, Inv, TypeOK
    <3> QED BY <1>1, <3>1 DEF Queue
  <2>5. C!Take
    BY <1>1, <1>3, <2>3, <2>4 DEF C!Take, Queue
  <2> QED BY <2>5 DEF C!Next
<1> QED BY <1>2, <1>3 DEF Dropped

LEMMA StepRefines == LineInv /\ [Next]_vars => [C!Next]_C!vars
<1> SUFFICES ASSUME LineInv, [Next]_vars PROVE [C!Next]_C!vars
  OBVIOUS
<1>1. CASE UNCHANGED vars
  BY <1>1 DEF vars, C!vars
<1>2. ASSUME NEW w \in Writer, NEW m \in Message, StartWrite(w, m) PROVE [C!Next]_C!vars
  BY <1>2 DEF StartWrite, C!vars
<1>3. ASSUME NEW w \in Writer, WriteChunk(w) PROVE [C!Next]_C!vars
  BY <1>3, WriteChunkRefines
<1>4. CASE CloseEnd
  <2>1. /\ writeEnd = "open" /\ writeEnd' # "open" /\ disturbed' \in {disturbed, TRUE}
        /\ UNCHANGED <<over, written, received>>
    BY <1>4 DEF CloseEnd, LineInv, Inv, TypeOK
  <2>2. C!Close
    BY <2>1 DEF C!Close
  <2> QED BY <2>2 DEF C!Next
<1>5. CASE (ReadSymbol \/ ReadSocket) /\ over' = "no"
  <2>1. over = "no" /\ Inv /\ HalfRead /\ Consecutive
    BY <1>5 DEF ReadSymbol, ReadSocket, LineInv, QueuedInv, Reads
  <2>2. Kept \/ \E n \in Nat, m \in Message : Dropped(n, m)
    <3>1. CASE ReadSymbol
      BY <1>5, <2>1, <3>1, ReadSymbolIs
    <3>2. CASE ReadSocket
      <4>1. pass \in Message
        BY <2>1, <3>2 DEF ReadSocket, Inv, TypeOK
      <4>2. Dropped(1, pass)
        BY <1>5, <2>1, <3>2, ReadSocketIs
      <4> QED BY <4>1, <4>2
    <3> QED BY <1>5, <3>1, <3>2
  <2>3. CASE Kept
    BY <1>5, <2>1, <2>3 DEF Kept, C!vars
  <2> QED BY <1>5, <2>1, <2>2, <2>3, DroppedRefines
<1>6. CASE (ReadSymbol \/ ReadSocket) /\ over' # "no"
  <2>1. /\ over = "no" /\ over' \in {"error", "gone"}
        /\ UNCHANGED <<writeEnd, written, received, disturbed>>
    BY <1>6 DEF ReadSymbol, ReadSocket, Stop
  <2>2. CASE over' = "error"
    <3>1. disturbed \/ OddNext
      BY <1>6, <2>2, ErrorIs
    <3>2. C!Fail
      BY <2>1, <2>2, <3>1 DEF C!Fail, OddNext, Queue
    <3> QED BY <3>2 DEF C!Next
  <2>3. CASE over' = "gone"
    <3>1. C!Leave
      BY <2>1, <2>3 DEF C!Leave
    <3> QED BY <3>1 DEF C!Next
  <2> QED BY <2>1, <2>2, <2>3
<1>7. CASE ReadEnd
  <2>1. /\ over = "no" /\ over' \in {"end", "error"} /\ writeEnd # "open"
        /\ UNCHANGED <<writeEnd, written, received, disturbed>>
    BY <1>7 DEF ReadEnd, Stop, EndOf
  <2>2. CASE over' = "error"
    <3>1. disturbed \/ OddNext
      BY <1>7, <2>2, ErrorIs
    <3>2. C!Fail
      BY <2>1, <2>2, <3>1 DEF C!Fail, OddNext, Queue
    <3> QED BY <3>2 DEF C!Next
  <2>3. CASE over' = "end"
    <3>1. ~disturbed /\ Len(written) < Len(received) + 1
      BY <1>7, <2>3, EndIs
    <3>2. Len(received) + 1 \in Int /\ Len(written) \in Int
      BY DEF LineInv, Inv, TypeOK
    <3>3. Queue = <<>>
      BY <3>1, <3>2, SubSeqEmpty DEF Queue
    <3>4. C!End
      BY <2>1, <2>3, <3>1, <3>3 DEF C!End, Queue
    <3> QED BY <3>4 DEF C!Next
  <2> QED BY <2>1, <2>2, <2>3
<1>8. CASE ReadShort
  <2>1. /\ over = "short" /\ over' = "error" /\ disturbed
        /\ UNCHANGED <<writeEnd, written, received, disturbed>>
    BY <1>8 DEF ReadShort, Stop, LineInv
  <2>2. C!Fail
    BY <2>1 DEF C!Fail
  <2> QED BY <2>2 DEF C!Next
<1>9. CASE Interrupt
  <2>1. /\ over = "no" /\ over' = "short" /\ disturbed' = TRUE
        /\ UNCHANGED <<writeEnd, written, received>>
    BY <1>9 DEF Interrupt, Stop
  <2>2. C!Disturb
    BY <2>1 DEF C!Disturb
  <2> QED BY <2>2 DEF C!Next
<1>10. CASE ReaderLeaves
  <2>1. over' = "gone" /\ UNCHANGED <<writeEnd, written, received, disturbed>>
    BY <1>10 DEF ReaderLeaves, Stop
  <2>2. C!Leave
    BY <2>1 DEF C!Leave
  <2> QED BY <2>2 DEF C!Next
<1> QED BY <1>1, <1>2, <1>3, <1>4, <1>5, <1>6, <1>7, <1>8, <1>9, <1>10, NextIs

\* What threads write in pieces, and one thread reads and parses, implements a
\* channel of whole values: in order, none twice, the end only behind the last,
\* and an error only where something disturbed the stream or the next value is
\* one that does not unpickle.
THEOREM ImplementsChannelCorrect == Spec => ImplementsChannel
<1>1. Init => C!Init
  <2> SUFFICES ASSUME Init PROVE C!Init
    OBVIOUS
  <2>1. written = <<>> /\ received = <<>> /\ writeEnd = "open" /\ over = "no" /\ disturbed = FALSE
    BY DEF Init
  <2>2. SubSeq(written, Len(received) + 1, Len(written)) = <<>>
    BY <2>1, SubSeqEmpty
  <2> QED BY <2>1, <2>2 DEF C!Init
<1>2. LineInv /\ [Next]_vars => [C!Next]_C!vars
  BY StepRefines
<1> QED BY <1>1, <1>2, AlwaysLine, PTL DEF Spec, ImplementsChannel, C!Spec
=============================================================================
