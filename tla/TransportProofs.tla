--------------------------- MODULE TransportProofs ---------------------------
(***************************************************************************)
(* Theorems about the TCP transport (module Transport), for every length   *)
(* of a frame, every size of the BufWriter, and any number of sends,       *)
(* failures and connections.                                               *)
(*                                                                         *)
(* What the kernel took of a live connection says too little by itself:    *)
(* the next cells come from the BufWriter, and after it from what          *)
(* write_all has still to hand over.  Pipe joins them, and the invariant   *)
(* is that it consists of whole frames, up to the one being sent.  A write *)
(* or a flush moves cells along the pipe and leaves it as it is; an error  *)
(* drops all of it but what the kernel took, which is a prefix.            *)
(*                                                                         *)
(* The refinement of FrameSender rests on Carried: the pipe is what the    *)
(* connection had carried when the attempt began, and the frame after it,  *)
(* so that the frame was handed over when nothing of the pipe is left, and *)
(* a cell that goes to the kernel brings the peer this frame or none.      *)
(***************************************************************************)
EXTENDS Transport, InductionLemmas, SequenceTheorems, TLAPS

(* Sequences *)

LEMMA SplitSeq ==
    ASSUME NEW S, NEW s \in Seq(S), NEW n \in 0..Len(s)
    PROVE  /\ SubSeq(s, 1, n) \in Seq(S) /\ SubSeq(s, n + 1, Len(s)) \in Seq(S)
           /\ SubSeq(s, 1, n) \o SubSeq(s, n + 1, Len(s)) = s
           /\ Len(SubSeq(s, n + 1, Len(s))) <= Len(s)
<1>1. /\ Len(s) \in Nat /\ n \in Nat /\ 1 \in 1..(Len(s) + 1)
      /\ n \in (1 - 1)..Len(s) /\ Len(s) \in n..Len(s)
  OBVIOUS
<1>2. /\ \A i \in 1..n : s[i] \in S
      /\ \A i \in (n + 1)..Len(s) : s[i] \in S
  BY <1>1
<1>3. /\ SubSeq(s, 1, n) \in Seq(S) /\ SubSeq(s, n + 1, Len(s)) \in Seq(S)
      /\ Len(SubSeq(s, n + 1, Len(s))) = Len(s) - n
  BY <1>1, <1>2, SubSeqProperties
<1>4. SubSeq(s, 1, n) \o SubSeq(s, n + 1, Len(s)) = SubSeq(s, 1, Len(s))
  BY <1>1, ConcatAdjacentSubSeq
<1>5. SubSeq(s, 1, Len(s)) = s
  BY SubSeqFull
<1>6. Len(SubSeq(s, n + 1, Len(s))) <= Len(s)
  BY <1>1, <1>3
<1>7. SubSeq(s, 1, n) \o SubSeq(s, n + 1, Len(s)) = s
  BY <1>4, <1>5, Zenon
<1> QED BY <1>3, <1>6, <1>7, Zenon

LEMMA Assoc == \A s, t, u \in Seq(Cell) : (s \o t) \o u = s \o (t \o u)
BY ConcatAssociative

LEMMA Closed == \A S : \A s, t \in Seq(S) : s \o t \in Seq(S) /\ Len(s \o t) = Len(s) + Len(t)
BY ConcatProperties

LEMMA Unit == \A S : <<>> \in Seq(S) /\ \A s \in Seq(S) : s \o <<>> = s /\ <<>> \o s = s
BY ConcatEmptySeq, EmptySeq
-----------------------------------------------------------------------------
(* Frames *)

LEMMA CellsTyped ==
    ASSUME NEW f \in Frames, NEW from \in Nat \ {0}, NEW to \in Nat, from <= to + 1
    PROVE  /\ CellsOf(f, from, to) \in Seq(Cell) /\ Len(CellsOf(f, from, to)) = to - from + 1
           /\ \A j \in 1..(to - from + 1) : CellsOf(f, from, to)[j] =
                  [id |-> f.id, len |-> f.len, at |-> from + j - 1]
<1> DEFINE n == to - from + 1
           e(j) == [id |-> f.id, len |-> f.len, at |-> from + j - 1]
           c == [j \in 1..n |-> e(j)]
<1>1. n \in Nat
  OBVIOUS
<1>2. \A j \in 1..n : e(j) \in Cell
  BY DEF Cell, Frames
<1>3. c \in [1..n -> Cell]
  BY <1>2
<1>4. c \in Seq(Cell)
  BY <1>1, <1>3, SeqDef
<1>5. Len(c) = n
  BY <1>1, <1>3, <1>4, LenProperties
<1> QED BY <1>4, <1>5 DEF CellsOf

LEMMA FrameSize ==
    ASSUME NEW f \in Frames
    PROVE  /\ HeaderLen \in Nat \ {0} /\ Size(f) \in Nat /\ HeaderLen < Size(f)
           /\ f.len \in Nat /\ f.id \in Nat
<1>1. /\ HeaderLen \in Nat \ {0} /\ MaxSends \in Nat /\ \A n \in BodyLens : n \in Nat \ {0}
  BY TransportAssumption
<1>2. f.id \in 1..MaxSends /\ f.len \in BodyLens
  BY DEF Frames
<1>3. f.len \in Nat \ {0} /\ f.id \in Nat
  BY <1>1, <1>2
<1> QED BY <1>1, <1>3 DEF Size

Message(f) == Header(f) \o Body(f)

LEMMA MessageCells ==
    ASSUME NEW f \in Frames
    PROVE  /\ Header(f) \in Seq(Cell) /\ Body(f) \in Seq(Cell)
           /\ Message(f) \in Seq(Cell) /\ Len(Message(f)) = Size(f)
           /\ \A j \in 1..Size(f) :
                  Message(f)[j] = [id |-> f.id, len |-> f.len, at |-> j]
<1>1. /\ Header(f) \in Seq(Cell) /\ Len(Header(f)) = HeaderLen
      /\ \A j \in 1..HeaderLen : Header(f)[j] = [id |-> f.id, len |-> f.len, at |-> j]
  <2>1. 1 \in Nat \ {0} /\ HeaderLen \in Nat /\ 1 <= HeaderLen + 1
    BY FrameSize
  <2>2. /\ Header(f) \in Seq(Cell) /\ Len(Header(f)) = HeaderLen - 1 + 1
        /\ \A j \in 1..(HeaderLen - 1 + 1) :
               Header(f)[j] = [id |-> f.id, len |-> f.len, at |-> 1 + j - 1]
    BY <2>1, CellsTyped DEF Header
  <2>3. HeaderLen - 1 + 1 = HeaderLen /\ \A j \in 1..HeaderLen : 1 + j - 1 = j
    BY <2>1
  <2> QED BY <2>2, <2>3
<1>2. /\ Body(f) \in Seq(Cell) /\ Len(Body(f)) = Size(f) - HeaderLen
      /\ \A j \in 1..(Size(f) - HeaderLen) :
             Body(f)[j] = [id |-> f.id, len |-> f.len, at |-> HeaderLen + j]
  <2>1. HeaderLen + 1 \in Nat \ {0} /\ HeaderLen + 1 <= Size(f) + 1
    BY FrameSize
  <2>2. /\ Body(f) \in Seq(Cell) /\ Len(Body(f)) = Size(f) - (HeaderLen + 1) + 1
        /\ \A j \in 1..(Size(f) - (HeaderLen + 1) + 1) :
               Body(f)[j] = [id |-> f.id, len |-> f.len, at |-> HeaderLen + 1 + j - 1]
    BY <2>1, FrameSize, CellsTyped DEF Body
  <2>3. Size(f) - (HeaderLen + 1) + 1 = Size(f) - HeaderLen
    BY FrameSize
  <2>4. \A j \in 1..(Size(f) - HeaderLen) : HeaderLen + 1 + j - 1 = HeaderLen + j
    BY FrameSize
  <2> QED BY <2>2, <2>3, <2>4
<1>3. Message(f) \in Seq(Cell) /\ Len(Message(f)) = Size(f)
  <2>1. /\ Message(f) \in Seq(Cell) /\ Len(Message(f)) = Len(Header(f)) + Len(Body(f))
        /\ \A j \in 1..(Len(Header(f)) + Len(Body(f))) :
               Message(f)[j] = IF j <= Len(Header(f)) THEN Header(f)[j]
                               ELSE Body(f)[j - Len(Header(f))]
    BY <1>1, <1>2, ConcatProperties DEF Message
  <2>2. Len(Header(f)) + Len(Body(f)) = Size(f)
    BY <1>1, <1>2, FrameSize
  <2> QED BY <2>1, <2>2
<1>4. ASSUME NEW j \in 1..Size(f)
      PROVE  Message(f)[j] = [id |-> f.id, len |-> f.len, at |-> j]
  <2>1. Message(f)[j] = IF j <= HeaderLen THEN Header(f)[j] ELSE Body(f)[j - HeaderLen]
    BY <1>1, <1>2, FrameSize, ConcatProperties DEF Message
  <2>2. CASE j <= HeaderLen
    BY <1>1, <2>1, <2>2, FrameSize
  <2>3. CASE j > HeaderLen
    <3>1. j - HeaderLen \in 1..(Size(f) - HeaderLen) /\ HeaderLen + (j - HeaderLen) = j
      BY <2>3, FrameSize
    <3> QED BY <1>2, <2>1, <2>3, <3>1, FrameSize
  <2> QED BY <2>2, <2>3, FrameSize
<1> QED BY <1>1, <1>2, <1>3, <1>4

\* Whole frames, the last of them numbered n or less.
Whole(s, n) ==
    /\ s \in Seq(Cell) /\ WellFormed(s)
    /\ s # <<>> => s[Len(s)].at = Size(s[Len(s)]) /\ s[Len(s)].id <= n

LEMMA PrefixWellFormed ==
    ASSUME NEW s \in Seq(Cell), NEW t \in Seq(Cell), WellFormed(s \o t)
    PROVE  WellFormed(s)
<1>1. /\ Len(s) \in Nat /\ Len(t) \in Nat /\ Len(s \o t) = Len(s) + Len(t)
      /\ \A i \in 1..Len(s) : (s \o t)[i] = s[i]
  BY ConcatProperties, LenProperties
<1>2. s # <<>> => 1 \in 1..Len(s) /\ s \o t # <<>>
  BY <1>1, EmptySeq
<1>3. \A i \in 1..(Len(s) - 1) : Follows(s[i], s[i + 1])
  <2> TAKE i \in 1..(Len(s) - 1)
  <2>1. i \in 1..Len(s) /\ i + 1 \in 1..Len(s) /\ i \in 1..(Len(s \o t) - 1)
    BY <1>1
  <2> QED BY <1>1, <2>1 DEF WellFormed
<1> QED BY <1>1, <1>2, <1>3 DEF WellFormed

LEMMA WholeMessage ==
    ASSUME NEW f \in Frames
    PROVE  Whole(Message(f), f.id) /\ Message(f) # <<>> /\ Message(f)[1].at = 1 /\ Message(f)[1].id = f.id
<1>1. /\ Size(f) \in Nat /\ 1 \in 1..Size(f) /\ Size(f) \in 1..Size(f) /\ Size(f) # 0
      /\ f.id \in Nat
  BY FrameSize
<1>2. /\ Message(f) \in Seq(Cell) /\ Len(Message(f)) = Size(f)
      /\ \A j \in 1..Size(f) : /\ Message(f)[j].id = f.id /\ Message(f)[j].at = j
                               /\ Message(f)[j].len = f.len
  <2>1. \A j \in 1..Size(f) : Message(f)[j] = [id |-> f.id, len |-> f.len, at |-> j]
    BY MessageCells
  <2>2. \A j \in 1..Size(f) : /\ Message(f)[j].id = f.id /\ Message(f)[j].at = j
                              /\ Message(f)[j].len = f.len
    <3> TAKE j \in 1..Size(f)
    <3>1. Message(f)[j] = [id |-> f.id, len |-> f.len, at |-> j]
      BY <2>1
    <3> QED BY <3>1
  <2> QED BY <2>2, MessageCells
<1>3. Message(f) # <<>>
  BY <1>1, <1>2, EmptySeq
<1>4. \A i \in 1..(Size(f) - 1) : Follows(Message(f)[i], Message(f)[i + 1])
  <2> TAKE i \in 1..(Size(f) - 1)
  <2>1. i \in 1..Size(f) /\ i + 1 \in 1..Size(f)
    BY <1>1
  <2> QED BY <1>2, <2>1 DEF Follows
<1>5. Message(f)[Size(f)].at = Size(Message(f)[Size(f)])
  BY <1>1, <1>2 DEF Size
<1>6. WellFormed(Message(f))
  BY <1>1, <1>2, <1>4 DEF WellFormed
<1>7. Message(f)[Len(Message(f))].id <= f.id
  BY <1>1, <1>2
<1> QED BY <1>1, <1>2, <1>3, <1>5, <1>6, <1>7 DEF Whole

LEMMA AppendWhole ==
    ASSUME NEW s, NEW n \in Nat, Whole(s, n), NEW f \in Frames, n < f.id
    PROVE  Whole(s \o Message(f), f.id)
<1> DEFINE m == Message(f)
           t == s \o m
<1>1. /\ s \in Seq(Cell) /\ m \in Seq(Cell) /\ t \in Seq(Cell)
      /\ Len(s) \in Nat /\ Len(m) \in Nat \ {0} /\ Len(t) = Len(s) + Len(m)
      /\ \A i \in 1..Len(s) : t[i] = s[i]
      /\ \A i \in 1..Len(m) : t[Len(s) + i] = m[i]
  <2>1. s \in Seq(Cell) /\ m \in Seq(Cell) /\ m # <<>>
    BY MessageCells, WholeMessage DEF Whole
  <2>2. Len(s) \in Nat /\ Len(m) \in Nat \ {0}
    BY <2>1, EmptySeq, LenProperties
  <2>3. /\ t \in Seq(Cell) /\ Len(t) = Len(s) + Len(m)
        /\ \A i \in 1..(Len(s) + Len(m)) : t[i] = IF i <= Len(s) THEN s[i] ELSE m[i - Len(s)]
    BY <2>1, ConcatProperties
  <2>4. \A i \in 1..Len(m) :
            Len(s) + i \in 1..(Len(s) + Len(m)) /\ ~(Len(s) + i <= Len(s)) /\ Len(s) + i - Len(s) = i
    BY <2>2
  <2> QED BY <2>1, <2>2, <2>3, <2>4
<1>2. WellFormed(m) /\ m[1].at = 1 /\ m[1].id = f.id
      /\ m[Len(m)].at = Size(m[Len(m)]) /\ m[Len(m)].id <= f.id
  BY WholeMessage DEF Whole
<1>3. t[1].at = 1
  <2>1. CASE s = <<>>
    <3>1. Len(s) = 0
      BY <2>1, EmptySeq
    <3> QED BY <1>1, <1>2, <3>1
  <2>2. CASE s # <<>>
    <3>1. 1 \in 1..Len(s)
      BY <1>1, <2>2, EmptySeq
    <3> QED BY <1>1, <2>2, <3>1 DEF Whole, WellFormed
  <2> QED BY <2>1, <2>2
<1>4. ASSUME NEW i \in 1..(Len(t) - 1) PROVE Follows(t[i], t[i + 1])
  <2>1. CASE i < Len(s)
    <3>1. i \in 1..(Len(s) - 1) /\ i \in 1..Len(s) /\ i + 1 \in 1..Len(s)
      BY <1>1, <2>1
    <3> QED BY <1>1, <3>1 DEF Whole, WellFormed
  <2>2. CASE i = Len(s)
    <3>1. t[i] = s[Len(s)] /\ t[i + 1] = m[1] /\ s # <<>>
      BY <1>1, <2>2, EmptySeq
    <3>2. s[Len(s)].id \in Nat /\ f.id \in Nat
      <4>1. s[Len(s)] \in Cell
        BY <1>1, <2>2, ElementOfSeq
      <4> QED BY <4>1, FrameSize DEF Cell
    <3> QED BY <1>2, <3>1, <3>2 DEF Whole, Follows
  <2>3. CASE i > Len(s)
    <3>1. i - Len(s) \in 1..(Len(m) - 1) /\ Len(s) + (i - Len(s)) = i
          /\ Len(s) + (i - Len(s) + 1) = i + 1
          /\ i - Len(s) \in 1..Len(m) /\ i - Len(s) + 1 \in 1..Len(m)
      BY <1>1, <2>3
    <3>2. t[i] = m[i - Len(s)] /\ t[i + 1] = m[i - Len(s) + 1]
      BY <1>1, <3>1
    <3> QED BY <1>2, <3>1, <3>2 DEF WellFormed
  <2> QED BY <1>1, <2>1, <2>2, <2>3
<1>5. t[Len(t)] = m[Len(m)]
  BY <1>1
<1> QED BY <1>1, <1>2, <1>3, <1>4, <1>5 DEF Whole, WellFormed
-----------------------------------------------------------------------------
(* Steps *)

\* What write_all has still to hand over, the call that comes after it included.
Ahead == IF pc = "header" THEN rest \o Body(frame) ELSE rest

Pipe == (wire[stream] \o buffer) \o Ahead

TransportInv ==
    /\ TypeOK
    /\ StreamIsFrames
    /\ pc \notin {"header", "body"} => rest = <<>>
    /\ pc \in Sending => frame \in Frames
    /\ pc = "connect" => stream = 0
    /\ pc = "idle" /\ stream # 0 => last # "failed"
    /\ pc \in Writing \cup {"idle"} /\ stream # 0 => Whole(Pipe, frame.id)

LEMMA Typed ==
    ASSUME TypeOK
    PROVE  /\ buffer \in Seq(Cell) /\ rest \in Seq(Cell) /\ wire \in Seq(Seq(Cell))
           /\ Len(wire) \in Nat /\ Len(buffer) \in Nat /\ Len(rest) \in Nat /\ frame.id \in Nat
           /\ DOMAIN wire = 1..Len(wire) /\ \A k \in DOMAIN wire : wire[k] \in Seq(Cell)
           /\ stream # 0 => stream \in DOMAIN wire /\ stream = Len(wire)
           /\ pc \in Writing => stream # 0
<1>1. wire \in Seq(Seq(Cell)) /\ buffer \in Seq(Cell) /\ rest \in Seq(Cell)
  BY DEF TypeOK
<1>2. /\ Len(wire) \in Nat /\ DOMAIN wire = 1..Len(wire) /\ Len(buffer) \in Nat /\ Len(rest) \in Nat
      /\ \A k \in DOMAIN wire : wire[k] \in Seq(Cell)
  BY <1>1, LenProperties, ElementOfSeq
<1>3. stream # 0 => stream \in DOMAIN wire /\ stream = Len(wire)
  <2>1. stream \in {0, Len(wire)}
    BY DEF TypeOK
  <2>2. Len(wire) # 0 => Len(wire) \in 1..Len(wire)
    BY <1>2
  <2> QED BY <1>2, <2>1, <2>2, Zenon
<1>4. frame.id \in Nat
  <2>1. CASE frame = NoFrame
    BY <2>1 DEF NoFrame
  <2>2. CASE frame \in Frames
    BY <2>2, FrameSize
  <2> QED BY <2>1, <2>2 DEF TypeOK
<1> QED BY <1>1, <1>2, <1>3, <1>4 DEF TypeOK

\* A live connection's wire is a prefix of the pipe.
LEMMA PipePrefix ==
    ASSUME NEW w \in Seq(Cell), NEW b \in Seq(Cell), NEW a \in Seq(Cell), NEW n,
           Whole((w \o b) \o a, n)
    PROVE  WellFormed(w) /\ WellFormed(w \o b)
<1>1. w \o b \in Seq(Cell)
  BY Closed
<1>2. WellFormed(w \o b)
  BY <1>1, PrefixWellFormed DEF Whole
<1> QED BY <1>2, PrefixWellFormed

LEMMA AheadTyped ==
    ASSUME TransportInv
    PROVE  Ahead \in Seq(Cell)
<1>1. CASE pc = "header"
  <2>1. frame \in Frames
    BY <1>1 DEF TransportInv, Sending
  <2>2. rest \in Seq(Cell) /\ Body(frame) \in Seq(Cell)
    BY <2>1, MessageCells, Typed DEF TransportInv
  <2>3. rest \o Body(frame) \in Seq(Cell)
    BY <2>2, Closed
  <2> QED BY <1>1, <2>3 DEF Ahead
<1>2. CASE pc # "header"
  BY <1>2, Typed DEF Ahead, TransportInv
<1> QED BY <1>1, <1>2

\* Cells handed over extend the wire of the live connection.
LEMMA HandedTyped ==
    ASSUME TypeOK, stream # 0, NEW c \in Seq(Cell), Handed(c)
    PROVE  /\ wire' \in Seq(Seq(Cell)) /\ Len(wire') = Len(wire) /\ DOMAIN wire' = DOMAIN wire
           /\ wire'[stream] = wire[stream] \o c
           /\ \A k \in DOMAIN wire : k # stream => wire'[k] = wire[k]
<1>1. stream \in 1..Len(wire) /\ wire[stream] \o c \in Seq(Cell)
  BY Typed, Closed
<1>2. wire' = [wire EXCEPT ![stream] = wire[stream] \o c]
  BY DEF Handed
<1>3. wire' \in Seq(Seq(Cell)) /\ Len(wire') = Len(wire)
  BY <1>1, <1>2, Typed, ExceptSeq
<1> QED BY <1>1, <1>2, <1>3, Typed

\* A step that moves cells along the pipe.
LEMMA PipeMoves ==
    ASSUME TransportInv, TypeOK', pc \in Writing, pc' \in Writing, UNCHANGED <<stream, frame>>,
           pc' \notin {"header", "body"} => rest' = <<>>,
           Pipe' = Pipe, Ahead' \in Seq(Cell),
           \A k \in DOMAIN wire' : k # stream => k \in DOMAIN wire /\ wire'[k] = wire[k]
    PROVE  TransportInv'
<1>1. stream # 0 /\ Whole(Pipe, frame.id)
  BY Typed DEF TransportInv
<1>2. Whole(Pipe, frame.id)'
  BY <1>1 DEF Whole, WellFormed, Follows, Size
<1>3. WellFormed(wire'[stream])
  <2>1. wire'[stream] \in Seq(Cell) /\ buffer' \in Seq(Cell)
    BY <1>1, Typed DEF TypeOK
  <2> QED BY <1>1, <2>1, PipePrefix DEF Pipe
<1>4. StreamIsFrames'
  BY <1>3 DEF TransportInv, StreamIsFrames, WellFormed, Follows, Size
<1> QED BY <1>1, <1>2, <1>4 DEF TransportInv, Writing, Sending

LEMMA Primed ==
    /\ Whole(Pipe', frame'.id) => Whole(Pipe, frame.id)'
    /\ (\A k \in DOMAIN wire' : WellFormed(wire'[k])) => StreamIsFrames'
BY DEF Whole, StreamIsFrames, WellFormed, Follows, Size

LEMMA SendFrameStep ==
    ASSUME TransportInv, NEW f \in Frames, SendFrame(f)
    PROVE  TransportInv'
<1>1. /\ pc = "idle" /\ rest = <<>> /\ UNCHANGED <<stream, buffer, wire, last>> /\ frame' = f
      /\ calls' \in 0..MaxSends
  <2>1. calls \in 0..MaxSends /\ MaxSends \in Nat
    BY TransportAssumption DEF TransportInv, TypeOK
  <2> QED BY <2>1 DEF SendFrame, TransportInv
<1>2. StreamIsFrames'
  BY <1>1, Primed DEF TransportInv, StreamIsFrames
<1>3. CASE MustDial
  <2>1. pc' = "connect" /\ rest' = <<>> /\ stream' = 0
    BY <1>1, <1>3 DEF SendFrame, MustDial
  <2>2. TypeOK'
    BY <1>1, <2>1 DEF TransportInv, TypeOK, Sending, Writing
  <2> QED BY <1>1, <1>2, <2>1, <2>2 DEF TransportInv, Sending, Writing
<1>4. CASE ~MustDial
  <2>1. pc' = "header" /\ rest' = Header(f) /\ stream # 0 /\ stream' # 0
    BY <1>1, <1>4 DEF SendFrame, MustDial, BeginWrite
  <2>2. frame.id < f.id
    <3>1. f.id = frame.id + 1
      BY <1>1, <2>1 DEF SendFrame, TransportInv
    <3> QED BY <3>1, Typed DEF TransportInv
  <2>3. rest' \in Seq(Cell)
    BY <2>1, MessageCells
  <2>4. TypeOK'
    BY <1>1, <2>1, <2>3 DEF TransportInv, TypeOK, Sending, Writing
  <2>5. Pipe = wire[stream] \o buffer
    <3>1. wire[stream] \o buffer \in Seq(Cell)
      BY <2>1, Typed, Closed DEF TransportInv
    <3> QED BY <1>1, <3>1, Unit DEF Pipe, Ahead
  <2>6. Pipe' = Pipe \o Message(f)
    BY <1>1, <2>1, <2>5 DEF Pipe, Ahead, Message
  <2>7. Whole(Pipe, frame.id) /\ frame.id \in Nat
    BY <1>1, <2>1, Typed DEF TransportInv
  <2>8. Whole(Pipe', frame'.id)
    BY <1>1, <2>2, <2>6, <2>7, AppendWhole
  <2> QED BY <1>1, <1>2, <2>1, <2>4, <2>8, Primed DEF TransportInv, Sending, Writing
<1> QED BY <1>3, <1>4

LEMMA ConnectedStep == ASSUME TransportInv, Connected PROVE TransportInv'
<1>1. /\ pc = "connect" /\ Len(wire) < MaxDials /\ wire' = Append(wire, <<>>)
      /\ stream' = Len(wire) + 1 /\ buffer' = <<>> /\ pc' = "header" /\ rest' = Header(frame)
      /\ UNCHANGED <<frame, last, calls>> /\ frame \in Frames
  BY DEF Connected, BeginWrite, TransportInv, Sending
<1>2. Len(wire) \in Nat /\ wire \in Seq(Seq(Cell)) /\ <<>> \in Seq(Cell)
  BY Typed, EmptySeq DEF TransportInv
<1>3. /\ wire' \in Seq(Seq(Cell)) /\ Len(wire') = Len(wire) + 1 /\ DOMAIN wire' = 1..(Len(wire) + 1)
      /\ wire'[Len(wire) + 1] = <<>> /\ \A k \in 1..Len(wire) : wire'[k] = wire[k]
  <2>1. /\ wire' \in Seq(Seq(Cell)) /\ Len(wire') = Len(wire) + 1
        /\ wire'[Len(wire) + 1] = <<>> /\ \A k \in 1..Len(wire) : wire'[k] = wire[k]
    BY <1>1, <1>2, AppendProperties
  <2> QED BY <2>1, LenProperties
<1>4. TypeOK'
  <2>1. rest' \in Seq(Cell)
    BY <1>1, MessageCells
  <2>2. Len(buffer') <= BufferSize
    BY <1>1, EmptySeq, TransportAssumption
  <2>3. Len(wire') <= MaxDials /\ stream' = Len(wire') /\ stream' # 0
    BY <1>1, <1>2, <1>3, TransportAssumption
  <2> QED BY <1>1, <1>2, <1>3, <2>1, <2>2, <2>3 DEF TransportInv, TypeOK, Sending, Writing
<1>5. StreamIsFrames'
  <2>1. ASSUME NEW k \in DOMAIN wire' PROVE WellFormed(wire'[k])
    <3>1. CASE k = Len(wire) + 1
      <4>1. wire'[k] = <<>> /\ Len(<<>>) = 0
        BY <1>3, <3>1, EmptySeq
      <4> QED BY <4>1 DEF WellFormed
    <3>2. CASE k # Len(wire) + 1
      <4>1. k \in 1..Len(wire) /\ k \in DOMAIN wire
        BY <1>2, <1>3, <3>2, Typed DEF TransportInv
      <4> QED BY <1>3, <4>1 DEF TransportInv, StreamIsFrames
    <3> QED BY <3>1, <3>2
  <2> QED BY <2>1, Primed
<1>6. Whole(Pipe', frame'.id)
  <2>1. Pipe' = (<<>> \o <<>>) \o Message(frame)
    BY <1>1, <1>3 DEF Pipe, Ahead, Message
  <2>2. Message(frame) \in Seq(Cell)
    BY <1>1, MessageCells
  <2>3. Pipe' = Message(frame)
    BY <1>2, <2>1, <2>2, Unit
  <2> QED BY <1>1, <2>3, WholeMessage
<1> QED BY <1>1, <1>4, <1>5, <1>6, Primed DEF TransportInv, Sending, Writing

LEMMA KernelTakesStep ==
    ASSUME TransportInv, NEW n \in 1..BufferSize, KernelTakes(n)
    PROVE  TransportInv' /\ Pipe' = Pipe
<1> DEFINE a == SubSeq(buffer, 1, n)
           b == Untook(buffer, n)
           w == wire[stream]
<1>1. /\ pc \in Writing /\ n <= Len(buffer) /\ Handed(a) /\ buffer' = b
      /\ UNCHANGED <<stream, rest, frame, pc, last, calls>>
  BY DEF KernelTakes
<1>2. /\ buffer \in Seq(Cell) /\ Len(buffer) \in Nat /\ stream # 0 /\ w \in Seq(Cell)
      /\ Len(buffer) <= BufferSize /\ n \in 0..Len(buffer)
  <2>1. Len(buffer) \in Nat /\ BufferSize \in Nat /\ n \in 0..Len(buffer)
    BY <1>1, Typed, TransportAssumption DEF TransportInv
  <2> QED BY <1>1, <2>1, Typed DEF TransportInv, TypeOK
<1>3. a \in Seq(Cell) /\ b \in Seq(Cell) /\ a \o b = buffer /\ Len(b) <= Len(buffer) /\ Len(b) \in Nat
  BY <1>2, SplitSeq, LenProperties DEF Untook
<1>4. /\ wire' \in Seq(Seq(Cell)) /\ Len(wire') = Len(wire) /\ DOMAIN wire' = DOMAIN wire
      /\ wire'[stream] = w \o a
      /\ \A k \in DOMAIN wire : k # stream => wire'[k] = wire[k]
  BY <1>1, <1>2, <1>3, HandedTyped DEF TransportInv
<1>5. TypeOK'
  <2>1. Len(b) <= BufferSize
    BY <1>2, <1>3, TransportAssumption
  <2> QED BY <1>1, <1>3, <1>4, <2>1 DEF TransportInv, TypeOK, Sending, Writing
<1>6. Ahead' = Ahead
  BY <1>1 DEF Ahead, Body, CellsOf, Size
<1>7. Pipe' = Pipe
  <2>1. (w \o a) \o b = w \o buffer
    <3> HIDE DEF a, b, w
    <3> QED BY <1>2, <1>3, Assoc
  <2> QED BY <1>1, <1>4, <1>6, <2>1 DEF Pipe
<1> QED BY <1>1, <1>4, <1>5, <1>6, <1>7, AheadTyped, PipeMoves DEF TransportInv

LEMMA KernelTakesDirectlyStep ==
    ASSUME TransportInv, NEW n \in Nat, KernelTakesDirectly(n)
    PROVE  TransportInv' /\ Pipe' = Pipe
<1> DEFINE a == SubSeq(rest, 1, n)
           b == Untook(rest, n)
           w == wire[stream]
           more == Body(frame)
<1>1. /\ pc \in Writing /\ buffer = <<>> /\ n <= Len(rest) /\ Handed(a) /\ rest' = b
      /\ UNCHANGED <<stream, buffer, frame, pc, last, calls>>
  BY DEF KernelTakesDirectly
<1>2. /\ rest \in Seq(Cell) /\ stream # 0 /\ w \in Seq(Cell) /\ n \in 0..Len(rest)
  <2>1. Len(rest) \in Nat /\ n \in 0..Len(rest)
    BY <1>1, Typed DEF TransportInv
  <2> QED BY <1>1, <2>1, Typed DEF TransportInv
<1>3. a \in Seq(Cell) /\ b \in Seq(Cell) /\ a \o b = rest
  BY <1>2, SplitSeq DEF Untook
<1>4. /\ wire' \in Seq(Seq(Cell)) /\ Len(wire') = Len(wire) /\ DOMAIN wire' = DOMAIN wire
      /\ wire'[stream] = w \o a
      /\ \A k \in DOMAIN wire : k # stream => wire'[k] = wire[k]
  BY <1>1, <1>2, <1>3, HandedTyped DEF TransportInv
<1>5. TypeOK'
  BY <1>1, <1>3, <1>4 DEF TransportInv, TypeOK, Sending, Writing
<1>6. pc \notin {"header", "body"} => b = <<>>
  <2>1. rest = <<>> => a \o b = <<>>
    BY <1>3
  <2>2. a \o b = <<>> => b = <<>>
    <3> HIDE DEF a, b
    <3> QED BY <1>3, ConcatEqualIffEmpty
  <2> QED BY <2>1, <2>2 DEF TransportInv
<1>7. pc = "header" => more \in Seq(Cell)
  BY MessageCells DEF TransportInv, Sending
<1>8. Ahead' = IF pc = "header" THEN b \o more ELSE b
  BY <1>1 DEF Ahead, Body, CellsOf, Size
<1>9. Ahead' \in Seq(Cell)
  <2> HIDE DEF b, more
  <2> QED BY <1>3, <1>7, <1>8, Closed
<1>10. Pipe' = Pipe
  <2>1. Pipe' = ((w \o a) \o <<>>) \o Ahead'
    BY <1>1, <1>4 DEF Pipe
  <2>2. Pipe = (w \o <<>>) \o Ahead
    BY <1>1 DEF Pipe
  <2>3. Ahead = IF pc = "header" THEN (a \o b) \o more ELSE a \o b
    BY <1>3 DEF Ahead
  <2> HIDE DEF a, b, w, more
  <2>4. w \o a \in Seq(Cell) /\ (w \o a) \o <<>> = w \o a /\ w \o <<>> = w
    BY <1>2, <1>3, Closed, Unit
  <2>5. CASE pc = "header"
    <3>0. b \o more \in Seq(Cell)
      BY <1>3, <1>7, <2>5, Closed
    <3>1. (w \o a) \o (b \o more) = w \o (a \o (b \o more))
      BY <1>2, <1>3, <3>0, Assoc
    <3>2. (a \o b) \o more = a \o (b \o more)
      BY <1>3, <1>7, <2>5, Assoc
    <3> QED BY <1>8, <2>1, <2>2, <2>3, <2>4, <2>5, <3>1, <3>2
  <2>6. CASE pc # "header"
    <3>1. (w \o a) \o b = w \o (a \o b)
      BY <1>2, <1>3, Assoc
    <3> QED BY <1>8, <2>1, <2>2, <2>3, <2>4, <2>6, <3>1
  <2> QED BY <2>5, <2>6
<1> QED BY <1>1, <1>4, <1>5, <1>6, <1>9, <1>10, PipeMoves DEF TransportInv

LEMMA WriteIntoBufferStep == ASSUME TransportInv, WriteIntoBuffer PROVE TransportInv' /\ Pipe' = Pipe
<1> DEFINE w == wire[stream]
           more == Body(frame)
<1>1. /\ pc \in Writing /\ Fits /\ buffer' = buffer \o rest /\ rest' = <<>>
      /\ UNCHANGED <<stream, frame, pc, wire, last, calls>>
  BY DEF WriteIntoBuffer
<1>2. /\ buffer \in Seq(Cell) /\ rest \in Seq(Cell) /\ w \in Seq(Cell)
      /\ buffer \o rest \in Seq(Cell) /\ Len(buffer \o rest) <= BufferSize
  <2>1. buffer \in Seq(Cell) /\ rest \in Seq(Cell) /\ w \in Seq(Cell)
    BY <1>1, Typed DEF TransportInv
  <2> QED BY <1>1, <2>1, Closed DEF Fits
<1>3. TypeOK'
  BY <1>1, <1>2, EmptySeq DEF TransportInv, TypeOK, Sending, Writing
<1>4. pc = "header" => more \in Seq(Cell)
  BY MessageCells DEF TransportInv, Sending
<1>5. Ahead' = IF pc = "header" THEN <<>> \o more ELSE <<>>
  BY <1>1 DEF Ahead, Body, CellsOf, Size
<1>6. Ahead' = IF pc = "header" THEN more ELSE <<>>
  <2> HIDE DEF more
  <2> QED BY <1>4, <1>5, Unit
<1>7. Ahead' \in Seq(Cell)
  BY <1>4, <1>6, EmptySeq
<1>8. Pipe' = Pipe
  <2>1. Pipe' = (w \o (buffer \o rest)) \o Ahead'
    BY <1>1 DEF Pipe
  <2>2. Pipe = (w \o buffer) \o Ahead
    BY DEF Pipe
  <2>3. Ahead = IF pc = "header" THEN rest \o more ELSE rest
    BY DEF Ahead
  <2> HIDE DEF w, more
  <2>4. w \o buffer \in Seq(Cell) /\ w \o (buffer \o rest) = (w \o buffer) \o rest
        /\ (w \o buffer) \o rest \in Seq(Cell)
    BY <1>2, Assoc, Closed
  <2>5. CASE pc = "header"
    <3>1. ((w \o buffer) \o rest) \o more = (w \o buffer) \o (rest \o more)
      BY <1>2, <1>4, <2>4, <2>5, Assoc, SMTT(30), ZenonT(30)
    <3> QED BY <1>6, <2>1, <2>2, <2>3, <2>4, <2>5, <3>1
  <2>6. CASE pc # "header"
    <3>1. ((w \o buffer) \o rest) \o <<>> = (w \o buffer) \o rest
      BY <2>4, Unit
    <3> QED BY <1>6, <2>1, <2>2, <2>3, <2>4, <2>6, <3>1
  <2> QED BY <2>5, <2>6
<1> QED BY <1>1, <1>3, <1>7, <1>8, PipeMoves

LEMMA HeaderWrittenStep == ASSUME TransportInv, HeaderWritten PROVE TransportInv' /\ Pipe' = Pipe
<1>1. /\ pc = "header" /\ rest = <<>> /\ pc' = "body" /\ rest' = Body(frame)
      /\ UNCHANGED <<stream, buffer, frame, wire, last, calls>>
  BY DEF HeaderWritten
<1>2. Body(frame) \in Seq(Cell)
  BY <1>1, MessageCells DEF TransportInv, Sending
<1>3. TypeOK'
  BY <1>1, <1>2 DEF TransportInv, TypeOK, Sending, Writing
<1>4. Ahead' = Ahead /\ Ahead' \in Seq(Cell)
  <2>1. Ahead = <<>> \o Body(frame) /\ Ahead' = Body(frame)
    BY <1>1 DEF Ahead
  <2> QED BY <1>2, <2>1, Unit
<1>5. Pipe' = Pipe
  BY <1>1, <1>4 DEF Pipe
<1> QED BY <1>1, <1>3, <1>4, <1>5, PipeMoves DEF Writing

LEMMA BodyWrittenStep == ASSUME TransportInv, BodyWritten PROVE TransportInv' /\ Pipe' = Pipe
<1>1. /\ pc = "body" /\ rest = <<>> /\ pc' = "flush"
      /\ UNCHANGED <<stream, buffer, rest, frame, wire, last, calls>>
  BY DEF BodyWritten
<1>2. TypeOK'
  BY <1>1 DEF TransportInv, TypeOK, Sending, Writing
<1>3. Ahead' = Ahead /\ Ahead' \in Seq(Cell)
  BY <1>1, EmptySeq DEF Ahead
<1>4. Pipe' = Pipe
  BY <1>1, <1>3 DEF Pipe
<1> QED BY <1>1, <1>2, <1>3, <1>4, PipeMoves DEF Writing

LEMMA SendOkStep == ASSUME TransportInv, SendOk PROVE TransportInv'
<1>1. /\ pc = "flush" /\ rest = <<>> /\ rest' = <<>> /\ pc' = "idle" /\ last' = "ok"
      /\ UNCHANGED <<stream, buffer, rest, frame, wire, calls>>
  BY DEF SendOk, TransportInv
<1>2. TypeOK'
  BY <1>1 DEF TransportInv, TypeOK, Sending, Writing
<1>3. StreamIsFrames'
  BY <1>1, Primed DEF TransportInv, StreamIsFrames
<1>4. Pipe' = Pipe /\ stream # 0
  BY <1>1, Typed DEF Pipe, Ahead, TransportInv, Writing
<1>5. Whole(Pipe', frame'.id)
  BY <1>1, <1>4 DEF TransportInv, Writing
<1> QED BY <1>1, <1>2, <1>3, <1>5, Primed DEF TransportInv, Writing, Sending

\* The connection is given up, or nothing goes over it any more.
LEMMA NoMorePipe ==
    ASSUME TransportInv, TypeOK', UNCHANGED wire, rest' = <<>>, pc' \notin Sending,
           pc' = "idle" => stream' = 0
    PROVE  TransportInv'
<1>1. StreamIsFrames'
  BY Primed DEF TransportInv, StreamIsFrames
<1> QED BY <1>1 DEF TransportInv, Writing, Sending

LEMMA EndStep ==
    ASSUME TransportInv, ConnectFails \/ SendFails \/ Cancel \/ Close
    PROVE  TransportInv'
<1>1. rest \in Seq(Cell) /\ <<>> \in Seq(Cell) /\ Len(<<>>) <= BufferSize
  BY Typed, EmptySeq, TransportAssumption DEF TransportInv
<1>2. CASE ConnectFails
  <2>1. /\ pc = "connect" /\ pc' = "idle" /\ last' = "failed" /\ rest = <<>>
        /\ UNCHANGED <<stream, buffer, rest, frame, wire, calls>>
    BY <1>2 DEF ConnectFails, TransportInv
  <2>2. TypeOK'
    BY <2>1 DEF TransportInv, TypeOK, Writing, Sending
  <2>3. StreamIsFrames'
    BY <2>1, Primed DEF TransportInv, StreamIsFrames
  <2> QED BY <2>1, <2>2, <2>3 DEF TransportInv, Writing, Sending
<1>3. CASE SendFails
  <2>1. /\ stream' = 0 /\ buffer' = <<>> /\ rest' = <<>> /\ pc' = "idle" /\ last' = "failed"
        /\ UNCHANGED <<frame, wire, calls>>
    BY <1>3 DEF SendFails, DropStream
  <2>2. TypeOK'
    BY <1>1, <2>1 DEF TransportInv, TypeOK, Writing, Sending
  <2> QED BY <2>1, <2>2, NoMorePipe DEF Sending
<1>4. CASE Cancel
  <2>1. /\ pc' = "cancelled" /\ rest' = <<>> /\ UNCHANGED <<stream, buffer, frame, wire, last, calls>>
    BY <1>4 DEF Cancel
  <2>2. TypeOK'
    BY <1>1, <2>1 DEF TransportInv, TypeOK, Writing, Sending
  <2> QED BY <2>1, <2>2, NoMorePipe DEF Sending
<1>5. CASE Close
  <2>1. /\ stream' = 0 /\ buffer' = <<>> /\ rest' = <<>> /\ pc' = "closed"
        /\ UNCHANGED <<frame, wire, last, calls>>
    BY <1>5 DEF Close, DropStream, TransportInv
  <2>2. TypeOK'
    BY <1>1, <2>1 DEF TransportInv, TypeOK, Writing, Sending
  <2> QED BY <2>1, <2>2, NoMorePipe DEF Sending
<1> QED BY <1>2, <1>3, <1>4, <1>5
-----------------------------------------------------------------------------
(* Theorems *)

LEMMA InitInv == Init => TransportInv
<1> SUFFICES ASSUME Init PROVE TransportInv
  OBVIOUS
<1>1. /\ <<>> \in Seq(Cell) /\ <<>> \in Seq(Seq(Cell)) /\ Len(<<>>) = 0
      /\ 0 <= BufferSize /\ 0 <= MaxDials /\ 0 \in 0..MaxSends
  BY EmptySeq, TransportAssumption
<1>2. TypeOK
  BY <1>1 DEF Init, TypeOK, Sending, Writing
<1>3. StreamIsFrames
  BY DEF Init, StreamIsFrames
<1> QED BY <1>2, <1>3 DEF Init, TransportInv, Sending, Writing

LEMMA NextInv == TransportInv /\ [Next]_vars => TransportInv'
<1> SUFFICES ASSUME TransportInv, [Next]_vars PROVE TransportInv'
  OBVIOUS
<1>1. CASE UNCHANGED vars
  <2>1. TypeOK' /\ StreamIsFrames'
    BY <1>1 DEF vars, TransportInv, TypeOK, StreamIsFrames, WellFormed, Follows, Size, Sending, Writing
  <2>2. Ahead' = Ahead
    BY <1>1 DEF vars, Ahead, Body, CellsOf, Size
  <2>3. Pipe' = Pipe
    BY <1>1, <2>2 DEF vars, Pipe
  <2> QED BY <1>1, <2>1, <2>3, Primed DEF vars, TransportInv, Sending, Writing
<1>2. CASE \E f \in Frames : SendFrame(f)
  BY <1>2, SendFrameStep
<1>3. CASE Connected
  BY <1>3, ConnectedStep
<1>4. CASE \E n \in 1..BufferSize : KernelTakes(n)
  BY <1>4, KernelTakesStep
<1>5. CASE \E n \in 1..(HeaderLen + BufferSize) : KernelTakesDirectly(n)
  <2>1. \A n \in 1..(HeaderLen + BufferSize) : n \in Nat
    BY TransportAssumption
  <2> QED BY <1>5, <2>1, KernelTakesDirectlyStep
<1>6. CASE WriteIntoBuffer
  BY <1>6, WriteIntoBufferStep
<1>7. CASE HeaderWritten
  BY <1>7, HeaderWrittenStep
<1>8. CASE BodyWritten
  BY <1>8, BodyWrittenStep
<1>9. CASE SendOk
  BY <1>9, SendOkStep
<1>10. CASE ConnectFails \/ SendFails \/ Cancel \/ Close
  BY <1>10, EndStep
<1> QED
  BY <1>1, <1>2, <1>3, <1>4, <1>5, <1>6, <1>7, <1>8, <1>9, <1>10 DEF Next

LEMMA Invariance == Spec => []TransportInv
BY InitInv, NextInv, PTL DEF Spec

\* The buffer stays within its capacity, a frame is written only over a
\* connection that was made, and the stream is the last one made.
THEOREM TypesHold == Spec => []TypeOK
BY Invariance, PTL DEF TransportInv

\* For every length of frame and every size of buffer, whatever failed, timed
\* out or was cancelled at whatever byte: what each connection carried is whole
\* frames in their order, cut off at most in the last.
THEOREM PeersKeepTheirPlace == Spec => []StreamIsFrames
<1>1. TransportInv => StreamIsFrames
  BY DEF TransportInv
<1> QED BY <1>1, Invariance, PTL
-----------------------------------------------------------------------------
(* The frames that end on a connection *)

Ends(c) == c.at = Size(c)

LEMMA CellTypes ==
    ASSUME NEW c \in Cell
    PROVE  FrameOf(c) \in Frames /\ c.id \in Nat /\ c.at \in Nat /\ Size(c) \in Nat
<1>1. c.id \in 1..MaxSends /\ c.len \in BodyLens /\ c.at \in Nat
  BY DEF Cell
<1>2. FrameOf(c) \in Frames
  BY <1>1 DEF FrameOf, Frames
<1>3. HeaderLen \in Nat /\ MaxSends \in Nat /\ c.len \in Nat
  BY <1>1, TransportAssumption
<1> QED BY <1>1, <1>2, <1>3 DEF Size

\* FramesOn goes over a connection cell by cell.
Counts(f, w) ==
    /\ f \in [Nat -> Seq(Frames)] /\ f[0] = <<>>
    /\ \A q \in 0..(Len(w) - 1) :
         f[q + 1] = IF Ends(w[q + 1]) THEN Append(f[q], FrameOf(w[q + 1])) ELSE f[q]

LEMMA FramesRecursion ==
    ASSUME NEW w \in Seq(Cell)
    PROVE  \E f : Counts(f, w) /\ FramesOn(w) = f[Len(w)]
<1> DEFINE S == Seq(Frames)
           More(q, s) == IF q <= Len(w) /\ Ends(w[q]) THEN Append(s, FrameOf(w[q])) ELSE s
           step == [x \in Nat \X S |-> More(x[1] + 1, x[2])]
<1>1. Len(w) \in Nat /\ \A q \in 1..Len(w) : w[q] \in Cell
  BY LenProperties, ElementOfSeq
<1>2. ASSUME NEW q \in Nat, q > 0, NEW s \in S PROVE More(q, s) \in S
  <2>1. ASSUME q <= Len(w) PROVE Append(s, FrameOf(w[q])) \in S
    <3>1. FrameOf(w[q]) \in Frames
      BY <1>1, <1>2, <2>1, CellTypes
    <3> QED BY <1>2, <3>1, AppendProperties
  <2> QED BY <1>2, <2>1
<1>3. step \in Steps(S) /\ <<>> \in S
  <2>1. \A x \in Nat \X S : x[1] + 1 \in Nat /\ x[1] + 1 > 0 /\ x[2] \in S
    <3> HIDE DEF S
    <3> QED OBVIOUS
  <2>2. \A x \in Nat \X S : More(x[1] + 1, x[2]) \in S
    <3> HIDE DEF S, More
    <3> QED BY <1>2, <2>1
  <2> HIDE DEF More
  <2> QED BY <2>2, EmptySeq DEF Steps
<1> HIDE DEF S, More
<1>4. PICK f : Recursive(f, S, <<>>, step)
  <2> HIDE DEF step
  <2> QED BY <1>3, PrimitiveRecursion
<1>5. f \in [Nat -> S] /\ f[0] = <<>> /\ \A n \in Nat : f[n + 1] = More(n + 1, f[n])
  <2>1. f \in [Nat -> S] /\ f[0] = <<>> /\ \A n \in Nat : f[n + 1] = step[<<n, f[n]>>]
    BY <1>4 DEF Recursive
  <2>2. ASSUME NEW n \in Nat PROVE f[n + 1] = More(n + 1, f[n])
    <3>1. f[n] \in S /\ <<n, f[n]>> \in Nat \X S /\ <<n, f[n]>>[1] = n /\ <<n, f[n]>>[2] = f[n]
      BY <2>1
    <3> QED BY <2>1, <3>1
  <2> QED BY <2>1, <2>2
<1>6. f = [q \in Nat |-> IF q = 0 THEN <<>> ELSE More(q, f[q - 1])]
  <2>1. ASSUME NEW q \in Nat PROVE f[q] = IF q = 0 THEN <<>> ELSE More(q, f[q - 1])
    <3>1. CASE q = 0
      BY <1>5, <3>1
    <3>2. CASE q # 0
      <4>1. q - 1 \in Nat /\ (q - 1) + 1 = q
        BY <3>2
      <4> QED BY <1>5, <3>2, <4>1
    <3> QED BY <3>1, <3>2
  <2> QED BY <1>5, <2>1
<1> DEFINE upTo[q \in Nat] ==
             IF q = 0 THEN <<>>
             ELSE IF q <= Len(w) /\ w[q].at = Size(w[q])
                  THEN Append(upTo[q - 1], FrameOf(w[q]))
                  ELSE upTo[q - 1]
<1>7. upTo = [q \in Nat |-> IF q = 0 THEN <<>>
             ELSE IF q <= Len(w) /\ w[q].at = Size(w[q])
                  THEN Append(upTo[q - 1], FrameOf(w[q]))
                  ELSE upTo[q - 1]]
  <2>1. f = [q \in Nat |-> IF q = 0 THEN <<>>
             ELSE IF q <= Len(w) /\ w[q].at = Size(w[q])
                  THEN Append(f[q - 1], FrameOf(w[q]))
                  ELSE f[q - 1]]
    BY <1>6 DEF More, Ends
  <2> QED BY <2>1, Zenon DEF upTo
<1>8. FramesOn(w) = upTo[Len(w)]
  BY Zenon DEF FramesOn, upTo
<1> HIDE DEF upTo
<1>9. \A q \in Nat : upTo[q] = IF q = 0 THEN <<>> ELSE More(q, upTo[q - 1])
  BY <1>7, Zenon DEF More, Ends
<1>10. \A q \in Nat : upTo[q] = f[q]
  <2> DEFINE T == {q \in Nat : upTo[q] = f[q]}
  <2>1. 0 \in T
    BY <1>5, <1>9
  <2>2. ASSUME NEW q \in Nat, q \in T PROVE q + 1 \in T
    <3>1. q + 1 \in Nat /\ (q + 1) - 1 = q /\ q + 1 # 0 /\ upTo[q] = f[q]
      BY <2>2
    <3>2. upTo[q + 1] = More(q + 1, upTo[q])
      BY <1>9, <3>1
    <3> QED BY <1>5, <3>1, <3>2
  <2>3. Nat \subseteq T
    <3> HIDE DEF T
    <3> QED BY <2>1, <2>2, Induction
  <2> QED BY <2>3
<1>11. ASSUME NEW q \in 0..(Len(w) - 1)
       PROVE  f[q + 1] = IF Ends(w[q + 1]) THEN Append(f[q], FrameOf(w[q + 1])) ELSE f[q]
  <2>1. q \in Nat /\ q + 1 <= Len(w)
    BY <1>1
  <2> QED BY <1>5, <2>1 DEF More
<1>12. Counts(f, w)
  BY <1>5, <1>11 DEF Counts, S
<1> QED BY <1>1, <1>8, <1>10, <1>12

LEMMA FramesTyped == ASSUME NEW w \in Seq(Cell) PROVE FramesOn(w) \in Seq(Frames)
<1>1. PICK f : Counts(f, w) /\ FramesOn(w) = f[Len(w)]
  BY FramesRecursion
<1> QED BY <1>1, LenProperties DEF Counts

LEMMA NoFramesYet == FramesOn(<<>>) = <<>>
<1>1. <<>> \in Seq(Cell) /\ Len(<<>>) = 0
  BY EmptySeq
<1>2. PICK f : Counts(f, <<>>) /\ FramesOn(<<>>) = f[Len(<<>>)]
  BY <1>1, FramesRecursion
<1> QED BY <1>1, <1>2 DEF Counts

\* More cells bring no frame, or the one that ends with the last of them.
LEMMA FramesExtended ==
    ASSUME NEW w \in Seq(Cell), NEW c \in Seq(Cell), c # <<>>,
           \A i \in 1..(Len(c) - 1) : ~Ends(c[i])
    PROVE  FramesOn(w \o c) = IF Ends(c[Len(c)]) THEN Append(FramesOn(w), FrameOf(c[Len(c)]))
                              ELSE FramesOn(w)
<1> DEFINE t == w \o c
<1>1. /\ Len(w) \in Nat /\ Len(c) \in Nat \ {0} /\ t \in Seq(Cell) /\ Len(t) = Len(w) + Len(c)
      /\ \A i \in 1..Len(w) : t[i] = w[i]
      /\ \A i \in 1..Len(c) : t[Len(w) + i] = c[i]
  <2>1. /\ t \in Seq(Cell) /\ Len(t) = Len(w) + Len(c)
        /\ \A i \in 1..(Len(w) + Len(c)) : t[i] = IF i <= Len(w) THEN w[i] ELSE c[i - Len(w)]
    BY ConcatProperties
  <2>2. Len(w) \in Nat /\ Len(c) \in Nat \ {0}
    BY EmptySeq, LenProperties
  <2>3. \A i \in 1..Len(c) : /\ Len(w) + i \in 1..(Len(w) + Len(c)) /\ ~(Len(w) + i <= Len(w))
                             /\ Len(w) + i - Len(w) = i
    BY <2>2
  <2>4. \A i \in 1..Len(w) : i \in 1..(Len(w) + Len(c)) /\ i <= Len(w)
    BY <2>2
  <2> HIDE DEF t
  <2> QED BY <2>1, <2>2, <2>3, <2>4
<1> HIDE DEF t
<1>2. PICK f : Counts(f, w) /\ FramesOn(w) = f[Len(w)]
  BY FramesRecursion
<1>3. PICK g : Counts(g, t) /\ FramesOn(t) = g[Len(t)]
  BY <1>1, FramesRecursion
<1>4. PICK m \in Nat, n \in Nat : m = Len(w) /\ n = Len(c) /\ n > 0
  BY <1>1
<1>5. g[m] = f[m]
  <2> DEFINE T == {q \in Nat : g[q] = f[q]}
  <2>1. 0 \in T
    BY <1>2, <1>3 DEF Counts
  <2>2. ASSUME NEW q \in 0..(m - 1), q \in T PROVE q + 1 \in T
    <3>1. q \in 0..(Len(w) - 1) /\ q \in 0..(Len(t) - 1) /\ q + 1 \in 1..Len(w) /\ g[q] = f[q] /\ q + 1 \in Nat
      BY <1>1, <1>4, <2>2
    <3>2. t[q + 1] = w[q + 1]
      BY <1>1, <3>1
    <3> QED BY <1>2, <1>3, <3>1, <3>2 DEF Counts
  <2>3. 0..m \subseteq T
    <3> HIDE DEF T
    <3> QED BY <2>1, <2>2, InductionTo
  <2> QED BY <2>3
<1>6. ASSUME NEW i \in 0..(n - 1)
      PROVE  g[m + i + 1] = IF Ends(c[i + 1]) THEN Append(g[m + i], FrameOf(c[i + 1])) ELSE g[m + i]
  <2>1. PICK q \in Nat : q = m + i
    OBVIOUS
  <2>2. q \in 0..(Len(t) - 1) /\ i + 1 \in 1..Len(c) /\ Len(w) + (i + 1) = q + 1
    BY <1>1, <1>4, <2>1
  <2>3. t[q + 1] = c[i + 1]
    BY <1>1, <2>2
  <2>4. g[q + 1] = IF Ends(c[i + 1]) THEN Append(g[q], FrameOf(c[i + 1])) ELSE g[q]
    BY <1>3, <2>2, <2>3 DEF Counts
  <2> QED BY <2>1, <2>4
<1>7. g[m + (n - 1)] = f[m]
  <2> DEFINE T == {q \in Nat : g[m + q] = f[m]}
  <2>1. 0 \in T
    <3>1. m + 0 = m
      OBVIOUS
    <3> QED BY <1>5, <3>1
  <2>2. ASSUME NEW q \in 0..((n - 1) - 1), q \in T PROVE q + 1 \in T
    <3>1. q + 1 \in Nat /\ q \in 0..(n - 1) /\ q + 1 \in 1..(Len(c) - 1) /\ g[m + q] = f[m]
      BY <1>4, <2>2
    <3>2. g[m + q + 1] = f[m]
      BY <1>6, <3>1
    <3>3. m + (q + 1) = m + q + 1
      OBVIOUS
    <3> QED BY <3>1, <3>2, <3>3
  <2>3. n - 1 \in Nat
    BY <1>4
  <2>4. 0..(n - 1) \subseteq T
    <3> HIDE DEF T
    <3> QED BY <2>1, <2>2, <2>3, InductionTo
  <2>5. n - 1 \in T
    <3> HIDE DEF T
    <3> QED BY <2>3, <2>4
  <2> QED BY <2>5
<1>8. g[m + n] = IF Ends(c[n]) THEN Append(f[m], FrameOf(c[n])) ELSE f[m]
  <2>1. n - 1 \in 0..(n - 1) /\ m + (n - 1) + 1 = m + n /\ (n - 1) + 1 = n
    BY <1>4
  <2> QED BY <1>6, <1>7, <2>1
<1> QED BY <1>1, <1>2, <1>3, <1>4, <1>8 DEF t
-----------------------------------------------------------------------------
(* An attempt *)

\* What a connection carried when the attempt began, and then the frame.
Carried(w, p, f) ==
    \E s \in Seq(Cell) : Whole(s, f.id - 1) /\ p = s \o Message(f) /\ Len(s) <= Len(w)

\* The kernel took the last cell of f.
Hit(w, f) == w # <<>> /\ w[Len(w)].id = f.id /\ w[Len(w)].at = Size(f)

\* Cells beyond what was carried before are those of the frame, and the last of
\* them is the end of the pipe.
Split(w, r, s, f) == w \o r = s \o Message(f) /\ Len(s) <= Len(w)

LEMMA FrameCells ==
    ASSUME NEW f \in Frames, NEW w \in Seq(Cell), NEW r \in Seq(Cell), NEW s \in Seq(Cell),
           Split(w, r, s, f)
    PROVE  /\ Len(s) \in Nat /\ Len(w) \in Nat /\ Len(r) \in Nat
           /\ Len(w) + Len(r) = Len(s) + Size(f)
           /\ \A i \in 1..Len(s) : w[i] = s[i]
           /\ \A i \in 1..Len(w) : i > Len(s) =>
                w[i] = [id |-> f.id, len |-> f.len, at |-> i - Len(s)]
           /\ \A i \in 1..Len(r) :
                r[i] = [id |-> f.id, len |-> f.len, at |-> Len(w) + i - Len(s)]
<1> DEFINE m == Message(f)
           p == w \o r
<1>0. w \o r = s \o Message(f) /\ Len(s) <= Len(w)
  BY DEF Split
<1>1. /\ m \in Seq(Cell) /\ Len(m) = Size(f) /\ Size(f) \in Nat
      /\ \A j \in 1..Size(f) : m[j] = [id |-> f.id, len |-> f.len, at |-> j]
  BY MessageCells, FrameSize
<1> HIDE DEF m
<1>2. Len(s) \in Nat /\ Len(w) \in Nat /\ Len(r) \in Nat
  BY LenProperties
<1>3. /\ Len(p) = Len(w) + Len(r)
      /\ \A i \in 1..(Len(w) + Len(r)) : p[i] = IF i <= Len(w) THEN w[i] ELSE r[i - Len(w)]
  BY ConcatProperties
<1>4. /\ Len(p) = Len(s) + Len(m)
      /\ \A i \in 1..(Len(s) + Len(m)) : p[i] = IF i <= Len(s) THEN s[i] ELSE m[i - Len(s)]
  <2>1. p = s \o m
    BY <1>0 DEF m
  <2> HIDE DEF p
  <2> QED BY <1>1, <2>1, ConcatProperties
<1> HIDE DEF p
<1>5. Len(w) + Len(r) = Len(s) + Size(f)
  BY <1>1, <1>3, <1>4
<1>6. ASSUME NEW i \in 1..Len(s) PROVE w[i] = s[i]
  <2>1. i \in 1..(Len(w) + Len(r)) /\ i \in 1..(Len(s) + Len(m)) /\ i <= Len(w) /\ i <= Len(s)
    BY <1>0, <1>1, <1>2, <1>5
  <2> QED BY <1>3, <1>4, <2>1
<1>7. ASSUME NEW i \in 1..(Len(w) + Len(r)), i > Len(s)
      PROVE  p[i] = [id |-> f.id, len |-> f.len, at |-> i - Len(s)]
  <2>1. i \in 1..(Len(s) + Len(m)) /\ ~(i <= Len(s)) /\ i - Len(s) \in 1..Size(f)
    BY <1>1, <1>2, <1>5, <1>7
  <2>2. p[i] = m[i - Len(s)]
    BY <1>4, <2>1
  <2> QED BY <1>1, <2>1, <2>2
<1>8. ASSUME NEW i \in 1..Len(w), i > Len(s)
      PROVE  w[i] = [id |-> f.id, len |-> f.len, at |-> i - Len(s)]
  <2>1. i \in 1..(Len(w) + Len(r)) /\ i <= Len(w)
    BY <1>2
  <2> QED BY <1>3, <1>7, <1>8, <2>1
<1>9. ASSUME NEW i \in 1..Len(r)
      PROVE  r[i] = [id |-> f.id, len |-> f.len, at |-> Len(w) + i - Len(s)]
  <2>1. PICK k \in Nat : k = Len(w) + i
    BY <1>2
  <2>2. k \in 1..(Len(w) + Len(r)) /\ ~(k <= Len(w)) /\ k - Len(w) = i /\ k > Len(s)
    BY <1>0, <1>2, <2>1
  <2> QED BY <1>3, <1>7, <2>1, <2>2
<1> QED BY <1>2, <1>5, <1>6, <1>8, <1>9

\* The frame is handed over when nothing of the pipe is left.
LEMMA HitAtTheEnd ==
    ASSUME NEW f \in Frames, NEW w \in Seq(Cell), NEW r \in Seq(Cell), Carried(w, w \o r, f)
    PROVE  Hit(w, f) <=> r = <<>>
<1>1. PICK s \in Seq(Cell) : Whole(s, f.id - 1) /\ w \o r = s \o Message(f) /\ Len(s) <= Len(w)
  BY DEF Carried
<1>2. /\ Len(s) \in Nat /\ Len(w) \in Nat /\ Len(r) \in Nat
      /\ Len(w) + Len(r) = Len(s) + Size(f)
      /\ \A i \in 1..Len(s) : w[i] = s[i]
      /\ \A i \in 1..Len(w) : i > Len(s) =>
           w[i] = [id |-> f.id, len |-> f.len, at |-> i - Len(s)]
  BY <1>1, FrameCells, ZenonT(40), SMTT(30) DEF Split
<1>3. Size(f) \in Nat /\ Size(f) > 0 /\ f.id \in Nat
  BY FrameSize
<1>4. r = <<>> <=> Len(r) = 0
  BY EmptySeq
<1>5. w = <<>> <=> Len(w) = 0
  BY EmptySeq
<1>6. CASE Len(w) = Len(s)
  <2>1. Len(r) # 0
    BY <1>2, <1>3, <1>6
  <2>2. ASSUME w # <<>> PROVE w[Len(w)].id # f.id
    <3>1. Len(s) \in 1..Len(s) /\ s # <<>>
      BY <1>2, <1>5, <1>6, <2>2, EmptySeq
    <3>2. s[Len(s)].id <= f.id - 1 /\ w[Len(w)] = s[Len(s)]
      BY <1>1, <1>2, <1>6, <3>1 DEF Whole
    <3>3. s[Len(s)].id \in Nat
      BY <3>1, ElementOfSeq, CellTypes
    <3> QED BY <1>3, <3>2, <3>3
  <2> QED BY <1>4, <2>1, <2>2 DEF Hit
<1>7. CASE Len(w) > Len(s)
  <2>1. PICK n \in Nat, k \in Nat, e \in Nat : n = Len(w) /\ k = Len(s) /\ e = Len(r)
    BY <1>2
  <2>2. n > k /\ n \in 1..n
    BY <1>2, <1>7, <2>1
  <2>3. w[n] = [id |-> f.id, len |-> f.len, at |-> n - k]
    BY <1>2, <2>1, <2>2, Zenon
  <2>4. w[n].id = f.id /\ w[n].at = n - k
    BY <2>3
  <2>5. n + e = k + Size(f)
    BY <1>2, <2>1
  <2>6. n - k = Size(f) <=> e = 0
    BY <1>3, <2>5
  <2>7. w # <<>>
    BY <1>5, <2>1, <2>2
  <2> QED BY <1>4, <2>1, <2>4, <2>6, <2>7 DEF Hit
<1> QED BY <1>1, <1>2, <1>6, <1>7

\* Cells handed over bring the frame or none.
LEMMA FrameHanded ==
    ASSUME NEW f \in Frames, NEW w \in Seq(Cell), NEW c \in Seq(Cell), NEW r \in Seq(Cell),
           c # <<>>, Carried(w, w \o (c \o r), f)
    PROVE  /\ ~Hit(w, f) /\ Carried(w \o c, w \o (c \o r), f)
           /\ Hit(w \o c, f) => FramesOn(w \o c) = Append(FramesOn(w), f)
           /\ ~Hit(w \o c, f) => FramesOn(w \o c) = FramesOn(w)
<1>1. PICK s \in Seq(Cell) : /\ Whole(s, f.id - 1) /\ w \o (c \o r) = s \o Message(f)
                             /\ Len(s) <= Len(w)
  BY DEF Carried
<1>2. PICK v \in Seq(Cell) : v = c \o r
  BY Closed
<1>3. PICK x \in Seq(Cell) : x = w \o c
  BY Closed
<1>4. /\ Len(w) \in Nat /\ Len(c) \in Nat \ {0} /\ Len(r) \in Nat /\ Len(s) \in Nat
      /\ Len(v) = Len(c) + Len(r) /\ Len(x) = Len(w) + Len(c)
  BY <1>2, <1>3, Closed, EmptySeq, LenProperties
<1>5. w \o v = s \o Message(f) /\ x \o r = s \o Message(f)
  <2>1. (w \o c) \o r = w \o (c \o r)
    BY Assoc, SMTT(30), ZenonT(30)
  <2> QED BY <1>1, <1>2, <1>3, <2>1, Zenon
<1>6. Carried(x, x \o r, f) /\ w \o (c \o r) = x \o r
  <2>1. Len(s) <= Len(x)
    BY <1>1, <1>4
  <2>2. w \o (c \o r) = x \o r
    BY <1>1, <1>5
  <2> QED BY <1>1, <1>5, <2>1, <2>2 DEF Carried
<1>7. ~Hit(w, f)
  <2>1. v # <<>>
    BY <1>4, EmptySeq
  <2>2. Carried(w, w \o v, f)
    BY <1>2
  <2> QED BY <2>1, <2>2, HitAtTheEnd
<1>8. /\ Len(w) + Len(v) = Len(s) + Size(f)
      /\ \A i \in 1..Len(v) :
            v[i] = [id |-> f.id, len |-> f.len, at |-> Len(w) + i - Len(s)]
  <2>1. Split(w, v, s, f)
    BY <1>1, <1>5 DEF Split
  <2> QED BY <2>1, FrameCells
<1>9. ASSUME NEW i \in 1..Len(c)
      PROVE  c[i] = [id |-> f.id, len |-> f.len, at |-> Len(w) + i - Len(s)]
  <2>1. v[i] = c[i] /\ i \in 1..Len(v)
    BY <1>2, <1>4, ConcatProperties
  <2> QED BY <1>8, <2>1
<1>10. ASSUME NEW i \in 1..Len(c) PROVE Ends(c[i]) <=> (i = Len(c) /\ r = <<>>)
  <2>1. Ends(c[i]) <=> Len(w) + i - Len(s) = Size(f)
    <3>1. PICK a : a = Len(w) + i - Len(s)
      OBVIOUS
    <3>2. c[i] = [id |-> f.id, len |-> f.len, at |-> a]
      BY <1>9, <3>1
    <3>3. c[i].at = a /\ c[i].len = f.len
      BY <3>2
    <3> QED BY <3>1, <3>3 DEF Ends, Size
  <2>2. Size(f) \in Nat
    BY FrameSize
  <2>3. r = <<>> <=> Len(r) = 0
    BY EmptySeq
  <2>4. Len(w) + i - Len(s) = Size(f) <=> (i = Len(c) /\ Len(r) = 0)
    <3>1. PICK n \in Nat, k \in Nat, e \in Nat, b \in Nat :
            n = Len(w) /\ k = Len(s) /\ e = Len(r) /\ b = Len(c)
      BY <1>4
    <3>2. i \in 1..b /\ n + (b + e) = k + Size(f)
      BY <1>4, <1>8, <3>1
    <3>3. n + i - k = Size(f) <=> (i = b /\ e = 0)
      BY <2>2, <3>2
    <3> QED BY <3>1, <3>3, Zenon
  <2> QED BY <2>1, <2>3, <2>4
<1>11. Hit(x, f) <=> r = <<>>
  BY <1>6, HitAtTheEnd
<1>12. /\ \A i \in 1..(Len(c) - 1) : ~Ends(c[i])
       /\ Ends(c[Len(c)]) <=> r = <<>>
       /\ FrameOf(c[Len(c)]) = f
  <2>1. Len(c) \in 1..Len(c) /\ \A i \in 1..(Len(c) - 1) : i \in 1..Len(c) /\ i # Len(c)
    BY <1>4
  <2>2. FrameOf(c[Len(c)]) = [id |-> f.id, len |-> f.len]
    <3>1. PICK i \in 1..Len(c) : i = Len(c)
      BY <2>1
    <3>2. PICK a : a = Len(w) + i - Len(s)
      OBVIOUS
    <3>3. c[i] = [id |-> f.id, len |-> f.len, at |-> a]
      BY <1>9, <3>2
    <3>4. c[i].id = f.id /\ c[i].len = f.len
      BY <3>3
    <3> QED BY <3>1, <3>4 DEF FrameOf
  <2>3. f = [id |-> f.id, len |-> f.len]
    BY DEF Frames
  <2> QED BY <1>10, <2>1, <2>2, <2>3
<1>13. FramesOn(x) = IF Ends(c[Len(c)]) THEN Append(FramesOn(w), FrameOf(c[Len(c)])) ELSE FramesOn(w)
  BY <1>3, <1>12, FramesExtended
<1> QED BY <1>3, <1>6, <1>7, <1>11, <1>12, <1>13
-----------------------------------------------------------------------------
(* The frame sender *)

AttemptInv ==
    /\ pc \in Writing => Carried(wire[stream], Pipe, frame)
    /\ pc = "idle" /\ stream # 0 => buffer = <<>>

LEMMA CarriedPrimed == Carried(wire'[stream'], Pipe', frame') => Carried(wire[stream], Pipe, frame)'
BY DEF Carried, Whole, WellFormed, Follows, Size, Message, Header, Body, CellsOf

\* What a step leaves alone when nothing reaches the kernel.
LEMMA SameDelivered == wire' = wire => Delivered' = Delivered
<1> SUFFICES ASSUME wire' = wire PROVE Delivered' = Delivered
  OBVIOUS
<1>1. \A w : (FramesOn(w))' = FramesOn(w)
  BY DEF FramesOn, FrameOf, Size
<1> QED BY <1>1 DEF Delivered, FramesOn, FrameOf, Size

LEMMA DeliveredIsFlat ==
    ASSUME TypeOK
    PROVE  /\ Delivered = Flat([k \in 1..Len(wire) |-> FramesOn(wire[k])])
           /\ [k \in 1..Len(wire) |-> FramesOn(wire[k])] \in Seq(Seq(Frames))
           /\ Len([k \in 1..Len(wire) |-> FramesOn(wire[k])]) = Len(wire)
<1> DEFINE ss == [k \in 1..Len(wire) |-> FramesOn(wire[k])]
<1>1. Len(wire) \in Nat /\ DOMAIN wire = 1..Len(wire) /\ \A k \in 1..Len(wire) : wire[k] \in Seq(Cell)
  BY Typed
<1>2. \A k \in 1..Len(wire) : FramesOn(wire[k]) \in Seq(Frames)
  BY <1>1, FramesTyped
<1>3. ss \in Seq(Seq(Frames)) /\ Len(ss) = Len(wire)
  <2>1. ss \in [1..Len(wire) -> Seq(Frames)]
    BY <1>2
  <2>2. ss \in Seq(Seq(Frames))
    BY <1>1, <2>1, SeqDef
  <2> HIDE DEF ss
  <2> QED BY <1>1, <2>1, <2>2, LenProperties
<1>4. Delivered = FlattenSeq(ss)
  BY <1>1, Zenon DEF Delivered
<1>5. FlattenSeq(ss) = Flat(ss)
  <2> HIDE DEF ss
  <2> QED BY DEF FlattenSeq, Flat
<1> QED BY <1>3, <1>4, <1>5

\* A new connection brings nothing.
LEMMA DeliveredOnNew ==
    ASSUME TypeOK, TypeOK', wire' = Append(wire, <<>>)
    PROVE  Delivered' = Delivered
<1> DEFINE ss == [k \in 1..Len(wire) |-> FramesOn(wire[k])]
           tt == [k \in 1..Len(wire') |-> FramesOn(wire'[k])]
<1>1. Delivered = Flat(ss) /\ ss \in Seq(Seq(Frames)) /\ Len(ss) = Len(wire)
  BY DeliveredIsFlat
<1>2. Delivered' = Flat(tt)
  <2>1. Len(wire') \in Nat /\ DOMAIN wire' = 1..Len(wire')
    BY LenProperties DEF TypeOK
  <2>2. Delivered' = FlattenSeq(tt)
    BY <2>1 DEF Delivered, FramesOn, FrameOf, Size
  <2> HIDE DEF tt
  <2> QED BY <2>2 DEF FlattenSeq, Flat
<1>3. tt = Append(ss, <<>>)
  <2>1. /\ Len(wire) \in Nat /\ Len(wire') = Len(wire) + 1 /\ wire'[Len(wire) + 1] = <<>>
        /\ \A k \in 1..Len(wire) : wire'[k] = wire[k]
    BY AppendProperties, LenProperties DEF TypeOK
  <2>2. tt[Len(wire) + 1] = <<>> /\ \A k \in 1..Len(wire) : tt[k] = ss[k]
    BY <2>1, NoFramesYet
  <2>3. DOMAIN tt = 1..(Len(wire) + 1)
    BY <2>1
  <2>4. Append(ss, <<>>) = [k \in 1..(Len(wire) + 1) |-> IF k = Len(wire) + 1 THEN <<>> ELSE ss[k]]
    <3> HIDE DEF ss
    <3>1. <<>> \in Seq(Frames) /\ ss \in Seq(Seq(Frames)) /\ Len(ss) = Len(wire)
      BY <1>1, EmptySeq
    <3>2. /\ Append(ss, <<>>) \in Seq(Seq(Frames)) /\ Len(Append(ss, <<>>)) = Len(wire) + 1
          /\ \A k \in 1..Len(wire) : Append(ss, <<>>)[k] = ss[k]
          /\ Append(ss, <<>>)[Len(wire) + 1] = <<>>
      BY <3>1, AppendProperties
    <3>3. PICK u : u = Append(ss, <<>>)
      OBVIOUS
    <3>4. u = [k \in 1..(Len(wire) + 1) |-> u[k]]
      BY <3>2, <3>3, LenProperties
    <3>5. \A k \in 1..(Len(wire) + 1) : u[k] = IF k = Len(wire) + 1 THEN <<>> ELSE ss[k]
      <4>1. \A k \in 1..(Len(wire) + 1) : k = Len(wire) + 1 \/ k \in 1..Len(wire)
        BY <2>1
      <4> QED BY <3>2, <3>3, <4>1
    <3> QED BY <3>3, <3>4, <3>5
  <2> HIDE DEF ss
  <2>5. \A k \in 1..(Len(wire) + 1) : tt[k] = IF k = Len(wire) + 1 THEN <<>> ELSE ss[k]
    <3>1. \A k \in 1..(Len(wire) + 1) : k = Len(wire) + 1 \/ k \in 1..Len(wire)
      BY <2>1
    <3> HIDE DEF tt
    <3> QED BY <2>1, <2>2, <3>1
  <2>6. tt = [k \in 1..(Len(wire) + 1) |-> tt[k]]
    BY <2>1
  <2> HIDE DEF tt
  <2> QED BY <2>4, <2>5, <2>6
<1>4. Flat(Append(ss, <<>>)) = Flat(ss) \o <<>>
  <2> HIDE DEF ss
  <2> QED BY <1>1, EmptySeq, FlattenAppended
<1>5. Flat(ss) \in Seq(Frames)
  <2> HIDE DEF ss
  <2>1. \A s, t \in Seq(Frames) : s \o t \in Seq(Frames)
    BY ConcatProperties
  <2>2. <<>> \in Seq(Frames) /\ Seq(Frames) \subseteq Seq(Frames)
    BY EmptySeq
  <2> QED BY <1>1, <2>1, <2>2, FlattenClosed
<1> HIDE DEF ss, tt
<1> QED BY <1>1, <1>2, <1>3, <1>4, <1>5, ConcatEmptySeq

\* A frame that ends on the live connection is the next one delivered.
LEMMA DeliveredOnLive ==
    ASSUME TypeOK, TypeOK', stream # 0, NEW c \in Seq(Cell), Handed(c)
    PROVE  /\ FramesOn(wire[stream] \o c) = FramesOn(wire[stream]) => Delivered' = Delivered
           /\ \A f \in Frames : FramesOn(wire[stream] \o c) = Append(FramesOn(wire[stream]), f)
                                  => Delivered' = Append(Delivered, f)
<1> DEFINE ss == [k \in 1..Len(wire) |-> FramesOn(wire[k])]
           tt == [k \in 1..Len(wire) |-> FramesOn(wire'[k])]
<1>1. Delivered = Flat(ss) /\ ss \in Seq(Seq(Frames)) /\ Len(ss) = Len(wire)
  BY DeliveredIsFlat
<1>2. /\ Len(wire') = Len(wire) /\ wire'[stream] = wire[stream] \o c
      /\ \A k \in 1..Len(wire) : k # stream => wire'[k] = wire[k]
      /\ stream \in 1..Len(wire) /\ stream = Len(wire) /\ Len(wire) \in Nat
  BY HandedTyped, Typed
<1>3. Delivered' = Flat(tt) /\ tt \in Seq(Seq(Frames)) /\ Len(tt) = Len(wire)
  <2>1. DOMAIN wire' = 1..Len(wire') /\ \A k \in 1..Len(wire) : wire'[k] \in Seq(Cell)
    BY <1>2, LenProperties, ElementOfSeq DEF TypeOK
  <2>2. Delivered' = FlattenSeq(tt)
    BY <1>2, <2>1 DEF Delivered, FramesOn, FrameOf, Size
  <2>3. tt \in [1..Len(wire) -> Seq(Frames)]
    BY <2>1, FramesTyped
  <2>4. tt \in Seq(Seq(Frames))
    BY <1>2, <2>3, SeqDef
  <2> HIDE DEF tt
  <2>5. Len(tt) = Len(wire)
    BY <1>2, <2>3, <2>4, LenProperties
  <2>6. FlattenSeq(tt) = Flat(tt)
    BY DEF FlattenSeq, Flat
  <2> QED BY <2>2, <2>4, <2>5, <2>6
<1>4. /\ \A k \in 1..Len(wire) : k # stream => tt[k] = ss[k]
      /\ tt[stream] = FramesOn(wire[stream] \o c) /\ ss[stream] = FramesOn(wire[stream])
  BY <1>2
<1>5. ASSUME FramesOn(wire[stream] \o c) = FramesOn(wire[stream]) PROVE Delivered' = Delivered
  <2>1. \A k \in 1..Len(wire) : tt[k] = ss[k]
    <3> HIDE DEF ss, tt
    <3> QED BY <1>4, <1>5
  <2>2. ss = tt
    BY <2>1
  <2> HIDE DEF ss, tt
  <2> QED BY <1>1, <1>3, <2>2
<1>6. ASSUME NEW f \in Frames, FramesOn(wire[stream] \o c) = Append(FramesOn(wire[stream]), f)
      PROVE  Delivered' = Append(Delivered, f)
  <2>1. ss # <<>>
    <3> HIDE DEF ss
    <3> QED BY <1>1, <1>2, EmptySeq
  <2>2. FramesOn(wire[stream]) \in Seq(Frames)
    <3>1. wire[stream] \in Seq(Cell)
      BY <1>2, Typed
    <3> QED BY <3>1, FramesTyped
  <2> HIDE DEF ss, tt
  <2>3. <<f>> \in Seq(Frames) /\ \A s \in Seq(Frames) : Append(s, f) = s \o <<f>>
    BY AppendIsConcat
  <2>4. tt[Len(ss)] = ss[Len(ss)] \o <<f>>
    BY <1>1, <1>2, <1>4, <1>6, <2>2, <2>3
  <2>5. \A k \in 1..(Len(ss) - 1) : tt[k] = ss[k]
    <3>1. \A k \in 1..(Len(ss) - 1) : k \in 1..Len(wire) /\ k # stream
      BY <1>1, <1>2
    <3> QED BY <1>4, <3>1
  <2>6. Extends(tt, ss, <<f>>, Frames)
    BY <1>1, <1>3, <2>1, <2>3, <2>4, <2>5 DEF Extends
  <2>7. Flat(tt) = Flat(ss) \o <<f>>
    <3>1. PICK x : x = <<f>>
      OBVIOUS
    <3>2. Extends(tt, ss, x, Frames)
      BY <2>6, <3>1
    <3>3. Flat(tt) = Flat(ss) \o x
      BY <3>2, FlattenExtended
    <3> QED BY <3>1, <3>3
  <2>8. Flat(ss) \in Seq(Frames)
    <3>1. \A s, t \in Seq(Frames) : s \o t \in Seq(Frames)
      BY ConcatProperties
    <3>2. <<>> \in Seq(Frames) /\ Seq(Frames) \subseteq Seq(Frames)
      BY EmptySeq
    <3> QED BY <1>1, <3>1, <3>2, FlattenClosed
  <2> QED BY <1>1, <1>3, <2>3, <2>7, <2>8
<1> QED BY <1>5, <1>6

LEMMA Stutter ==
    Promised!Next \/ UNCHANGED <<Attempt, Reached, Delivered, last, Open>>
      => [Promised!Next]_(Promised!vars)
BY DEF Promised!vars

\* Reached and Open are formulas: to be equivalent is to be equal.
LEMMA SameTruth ==
    /\ (Reached' <=> Reached) => Reached' = Reached
    /\ (Open' <=> Open) => Open' = Open
<1>1. Reached \in BOOLEAN /\ Reached' \in BOOLEAN
  BY DEF Reached
<1>2. Open \in BOOLEAN /\ Open' \in BOOLEAN
  BY DEF Open
<1> QED BY <1>1, <1>2

LEMMA Unmoved ==
    ASSUME Attempt' = Attempt, Reached' <=> Reached, Delivered' = Delivered, last' = last, Open' <=> Open
    PROVE  [Promised!Next]_(Promised!vars)
BY SameTruth, Stutter, Zenon

LEMMA Begins ==
    ASSUME NEW f, Attempt = NoFrame, Attempt' = f, ~Reached, ~Reached', Open, Open',
           Delivered' = Delivered, last' = last
    PROVE  Promised!Begin(f)
BY SameTruth, Zenon DEF Promised!Begin

\* Reached is about the live connection and the frame being sent.
LEMMA ReachedIsHit ==
    ASSUME TypeOK
    PROVE  Reached <=> (pc \in Writing /\ Hit(wire[stream], frame))
BY DEF Reached, Hit, Last

\* The step of an attempt that hands c over.
LEMMA HandsOver ==
    ASSUME TransportInv, TransportInv', AttemptInv, pc \in Writing, Pipe' = Pipe,
           UNCHANGED <<stream, frame, pc, last>>,
           NEW c \in Seq(Cell), c # <<>>, Handed(c),
           NEW r \in Seq(Cell), Pipe = wire[stream] \o (c \o r)
    PROVE  AttemptInv' /\ [Promised!Next]_(Promised!vars)
<1>1. TypeOK /\ TypeOK' /\ stream # 0 /\ wire[stream] \in Seq(Cell)
      /\ frame \in Frames /\ pc \in Sending
  BY Typed DEF TransportInv, Writing, Sending
<1>2. wire'[stream] = wire[stream] \o c /\ wire'[stream] \in Seq(Cell)
  BY <1>1, HandedTyped, Closed
<1>3. Carried(wire[stream], wire[stream] \o (c \o r), frame)
  BY DEF AttemptInv
<1>4. /\ ~Hit(wire[stream], frame) /\ Carried(wire[stream] \o c, wire[stream] \o (c \o r), frame)
      /\ Hit(wire[stream] \o c, frame)
           => FramesOn(wire[stream] \o c) = Append(FramesOn(wire[stream]), frame)
      /\ ~Hit(wire[stream] \o c, frame) => FramesOn(wire[stream] \o c) = FramesOn(wire[stream])
  BY <1>1, <1>3, FrameHanded
<1>5. AttemptInv'
  <2>1. Carried(wire'[stream'], Pipe', frame')
    BY <1>2, <1>4
  <2>2. pc' # "idle"
    BY DEF Writing
  <2> QED BY <2>1, <2>2, CarriedPrimed DEF AttemptInv
<1>6. ~Reached /\ (Reached' <=> Hit(wire[stream] \o c, frame))
  <2>1. ~Reached
    BY <1>1, <1>4, ReachedIsHit
  <2>2. Reached' <=> Hit(wire'[stream], frame)
    BY <1>1 DEF Reached, Hit, Last, Size
  <2> QED BY <1>2, <2>1, <2>2
<1>7. Attempt' = Attempt /\ Attempt = frame /\ (Open' <=> Open) /\ last' = last
  BY <1>1 DEF Attempt, Open
<1>8. frame # NoFrame
  BY <1>1 DEF Frames, NoFrame
<1>9. CASE Hit(wire[stream] \o c, frame)
  <2>1. Delivered' = Append(Delivered, frame)
    BY <1>1, <1>4, <1>9, DeliveredOnLive
  <2>2. Promised!Deliver
    BY <1>6, <1>7, <1>8, <1>9, <2>1 DEF Promised!Deliver
  <2> QED BY <1>5, <2>2, Stutter DEF Promised!Next
<1>10. CASE ~Hit(wire[stream] \o c, frame)
  <2>1. Delivered' = Delivered
    BY <1>1, <1>4, <1>10, DeliveredOnLive
  <2> QED BY <1>5, <1>6, <1>7, <1>10, <2>1, Unmoved
<1> QED BY <1>9, <1>10

LEMMA KernelTakesMaps ==
    ASSUME TransportInv, AttemptInv, NEW n \in 1..BufferSize, KernelTakes(n)
    PROVE  AttemptInv' /\ [Promised!Next]_(Promised!vars)
<1> DEFINE c == SubSeq(buffer, 1, n)
           b == SubSeq(buffer, n + 1, Len(buffer))
<1>1. /\ pc \in Writing /\ n <= Len(buffer) /\ Handed(c) /\ UNCHANGED <<stream, rest, frame, pc, last, calls>>
  BY DEF KernelTakes
<1>2. TransportInv' /\ Pipe' = Pipe
  BY KernelTakesStep
<1>3. /\ buffer \in Seq(Cell) /\ wire[stream] \in Seq(Cell) /\ Ahead \in Seq(Cell)
      /\ n \in Nat \ {0} /\ n \in 0..Len(buffer)
  BY <1>1, Typed, AheadTyped, TransportAssumption DEF TransportInv
<1>4. c \in Seq(Cell) /\ b \in Seq(Cell) /\ c \o b = buffer
  BY <1>3, SplitSeq
<1>5. c # <<>>
  <2>1. Len(c) = n
    BY <1>3, SubSeqProperties
  <2> HIDE DEF c
  <2> QED BY <1>3, <2>1, EmptySeq
<1> HIDE DEF c, b
<1>6. PICK r \in Seq(Cell) : r = b \o Ahead
  BY <1>3, <1>4, Closed
<1>7. Pipe = wire[stream] \o (c \o r)
  <2>1. c \o r = buffer \o Ahead
    <3>1. c \in Seq(Cell) /\ b \in Seq(Cell) /\ Ahead \in Seq(Cell)
      BY <1>3, <1>4
    <3>2. (c \o b) \o Ahead = c \o (b \o Ahead)
      BY <3>1, Assoc, Zenon
    <3> QED BY <1>4, <1>6, <3>2, Zenon
  <2>2. (wire[stream] \o buffer) \o Ahead = wire[stream] \o (buffer \o Ahead)
    BY <1>3, Assoc
  <2> QED BY <2>1, <2>2 DEF Pipe
<1> QED BY <1>1, <1>2, <1>4, <1>5, <1>6, <1>7, HandsOver

LEMMA KernelTakesDirectlyMaps ==
    ASSUME TransportInv, AttemptInv, NEW n \in Nat \ {0}, KernelTakesDirectly(n)
    PROVE  AttemptInv' /\ [Promised!Next]_(Promised!vars)
<1> DEFINE c == SubSeq(rest, 1, n)
           b == SubSeq(rest, n + 1, Len(rest))
           more == IF pc = "header" THEN Body(frame) ELSE <<>>
<1>1. /\ pc \in Writing /\ n <= Len(rest) /\ Handed(c) /\ buffer = <<>>
      /\ UNCHANGED <<stream, buffer, frame, pc, last, calls>>
  BY DEF KernelTakesDirectly
<1>2. TransportInv' /\ Pipe' = Pipe
  BY KernelTakesDirectlyStep
<1>3. /\ rest \in Seq(Cell) /\ wire[stream] \in Seq(Cell) /\ n \in 0..Len(rest)
  BY <1>1, Typed DEF TransportInv
<1>4. c \in Seq(Cell) /\ b \in Seq(Cell) /\ c \o b = rest
  BY <1>3, SplitSeq
<1>5. c # <<>>
  <2>1. Len(c) = n
    BY <1>3, SubSeqProperties
  <2> HIDE DEF c
  <2> QED BY <2>1, EmptySeq
<1> HIDE DEF c, b
<1>6. more \in Seq(Cell)
  <2>1. pc = "header" => Body(frame) \in Seq(Cell)
    BY MessageCells DEF TransportInv, Sending
  <2> QED BY <2>1, EmptySeq
<1>7. Ahead = rest \o more
  <2>1. rest \o <<>> = rest
    BY <1>3, Unit
  <2> QED BY <2>1 DEF Ahead
<1> HIDE DEF more
<1>8. PICK r \in Seq(Cell) : r = b \o more
  BY <1>4, <1>6, Closed
<1>9. Pipe = wire[stream] \o (c \o r)
  <2>1. c \o r = rest \o more
    BY <1>4, <1>6, <1>8, Assoc, ZenonT(40), SMTT(30)
  <2>2. wire[stream] \o <<>> = wire[stream]
    BY <1>3, Unit
  <2> QED BY <1>1, <1>7, <2>1, <2>2 DEF Pipe
<1> QED BY <1>1, <1>2, <1>4, <1>5, <1>8, <1>9, HandsOver

\* Cells that move along the pipe on this side of the kernel.
LEMMA MovesAlong ==
    ASSUME TransportInv, TransportInv', AttemptInv, pc \in Writing, pc' \in Writing, Pipe' = Pipe,
           UNCHANGED <<stream, frame, wire, last>>
    PROVE  AttemptInv' /\ [Promised!Next]_(Promised!vars)
<1>1. AttemptInv'
  <2>1. Carried(wire'[stream'], Pipe', frame')
    BY DEF AttemptInv
  <2> QED BY <2>1, CarriedPrimed DEF AttemptInv, Writing
<1>2. (Reached' <=> Reached) /\ Delivered' = Delivered
  <2>1. Reached' <=> Reached
    BY DEF Reached, Last, Size
  <2> QED BY <2>1, SameDelivered
<1>3. Attempt' = Attempt /\ (Open' <=> Open)
  BY DEF Attempt, Open, Writing, Sending
<1> QED BY <1>1, <1>2, <1>3, Stutter

LEMMA WritingMaps ==
    ASSUME TransportInv, AttemptInv, WriteIntoBuffer \/ HeaderWritten \/ BodyWritten
    PROVE  AttemptInv' /\ [Promised!Next]_(Promised!vars)
<1>1. CASE WriteIntoBuffer
  <2>1. pc \in Writing /\ UNCHANGED <<stream, frame, pc, wire, last, calls>>
    BY <1>1 DEF WriteIntoBuffer
  <2> QED BY <1>1, <2>1, WriteIntoBufferStep, MovesAlong
<1>2. CASE HeaderWritten
  <2>1. pc = "header" /\ pc' = "body" /\ UNCHANGED <<stream, buffer, frame, wire, last, calls>>
    BY <1>2 DEF HeaderWritten
  <2> QED BY <1>2, <2>1, HeaderWrittenStep, MovesAlong DEF Writing
<1>3. CASE BodyWritten
  <2>1. pc = "body" /\ pc' = "flush" /\ UNCHANGED <<stream, buffer, rest, frame, wire, last, calls>>
    BY <1>3 DEF BodyWritten
  <2> QED BY <1>3, <2>1, BodyWrittenStep, MovesAlong DEF Writing
<1> QED BY <1>1, <1>2, <1>3

\* An attempt begins with nothing of its frame handed over.
LEMMA SendFrameMaps ==
    ASSUME TransportInv, AttemptInv, NEW f \in Frames, SendFrame(f)
    PROVE  AttemptInv' /\ [Promised!Next]_(Promised!vars)
<1>1. /\ pc = "idle" /\ rest = <<>> /\ UNCHANGED <<stream, buffer, wire, last>> /\ frame' = f
      /\ pc' \in {"connect", "header"}
  BY DEF SendFrame, TransportInv, BeginWrite
<1>2. TransportInv'
  BY SendFrameStep
<1>3. Attempt = NoFrame /\ Attempt' = f /\ Open /\ Open' /\ ~Reached
  BY <1>1 DEF Attempt, Open, Reached, Sending, Writing
<1>4. CASE MustDial
  <2>1. pc' = "connect"
    BY <1>4 DEF SendFrame
  <2>2. ~Reached' /\ AttemptInv'
    BY <2>1 DEF Reached, Writing, AttemptInv
  <2>3. Promised!Begin(f)
    BY <1>1, <1>3, <2>2, SameDelivered, Begins
  <2> QED BY <2>2, <2>3, Stutter DEF Promised!Next
<1>5. CASE ~MustDial
  <2>1. pc' = "header" /\ rest' = Header(f) /\ stream # 0
    BY <1>5 DEF SendFrame, MustDial, BeginWrite
  <2>2. f.id = frame.id + 1 /\ frame.id \in Nat
    BY <1>1, <2>1, Typed DEF SendFrame, TransportInv
  <2>3. buffer = <<>> /\ wire[stream] \in Seq(Cell)
    BY <1>1, <2>1, Typed DEF AttemptInv, TransportInv
  <2>4. Pipe = wire[stream] /\ wire[stream] \o <<>> = wire[stream]
    BY <1>1, <2>3, Unit DEF Pipe, Ahead
  <2>5. Pipe' = wire[stream] \o Message(f)
    BY <1>1, <2>1, <2>3, <2>4 DEF Pipe, Ahead, Message
  <2>6. Whole(wire[stream], f.id - 1)
    <3>1. Whole(wire[stream], frame.id)
      BY <1>1, <2>1, <2>4 DEF TransportInv
    <3> QED BY <2>2, <3>1
  <2>7. Carried(wire[stream], wire[stream] \o Message(f), f)
    <3>1. Len(wire[stream]) <= Len(wire[stream])
      BY <2>3, LenProperties
    <3> QED BY <2>3, <2>6, <3>1 DEF Carried
  <2>8. AttemptInv'
    <3>1. Carried(wire'[stream'], Pipe', frame')
      BY <1>1, <2>5, <2>7
    <3> QED BY <2>1, <3>1, CarriedPrimed DEF AttemptInv
  <2>9. ~Hit(wire[stream], f)
    <3>1. Message(f) \in Seq(Cell) /\ Message(f) # <<>>
      BY MessageCells, WholeMessage
    <3> QED BY <2>3, <2>7, <3>1, HitAtTheEnd
  <2>10. ~Reached'
    BY <1>1, <2>9 DEF Reached, Hit, Last, Size
  <2>11. Promised!Begin(f)
    BY <1>1, <1>3, <2>10, SameDelivered, Begins
  <2> QED BY <2>8, <2>11, Stutter DEF Promised!Next
<1> QED BY <1>4, <1>5

LEMMA ConnectedMaps ==
    ASSUME TransportInv, AttemptInv, Connected
    PROVE  AttemptInv' /\ [Promised!Next]_(Promised!vars)
<1>1. /\ pc = "connect" /\ wire' = Append(wire, <<>>)
      /\ stream' = Len(wire) + 1 /\ buffer' = <<>> /\ pc' = "header" /\ rest' = Header(frame)
      /\ UNCHANGED <<frame, last, calls>> /\ frame \in Frames
  BY DEF Connected, BeginWrite, TransportInv, Sending
<1>2. TransportInv'
  BY ConnectedStep
<1>3. wire'[stream'] = <<>>
  <2>1. wire \in Seq(Seq(Cell)) /\ <<>> \in Seq(Cell)
    BY Typed, EmptySeq DEF TransportInv
  <2> QED BY <1>1, <2>1, AppendProperties
<1>4. Delivered' = Delivered
  BY <1>1, <1>2, DeliveredOnNew DEF TransportInv
<1>5. Attempt' = Attempt /\ Open /\ Open' /\ ~Reached /\ ~Reached'
  BY <1>1, <1>3 DEF Attempt, Open, Reached, Sending, Writing
<1>6. AttemptInv'
  <2>1. Message(frame) \in Seq(Cell) /\ frame.id \in Nat
    BY <1>1, MessageCells, FrameSize
  <2>2. Pipe' = <<>> \o Message(frame)
    <3>1. Pipe' = (<<>> \o <<>>) \o Message(frame)
      BY <1>1, <1>3 DEF Pipe, Ahead, Message
    <3>2. <<>> \in Seq(Cell) /\ <<>> \o <<>> = <<>>
      BY Unit
    <3> QED BY <3>1, <3>2
  <2>3. Whole(<<>>, frame.id - 1) /\ <<>> \in Seq(Cell) /\ Len(<<>>) = 0
    BY EmptySeq DEF Whole, WellFormed
  <2>4. Carried(<<>>, <<>> \o Message(frame), frame)
    <3>1. Len(<<>>) <= Len(<<>>)
      BY <2>3
    <3> QED BY <2>3, <3>1 DEF Carried
  <2>5. Carried(wire'[stream'], Pipe', frame')
    BY <1>1, <1>3, <2>2, <2>4
  <2> QED BY <1>1, <2>5, CarriedPrimed DEF AttemptInv
<1> QED BY <1>1, <1>4, <1>5, <1>6, Unmoved

LEMMA SendOkMaps ==
    ASSUME TransportInv, AttemptInv, SendOk
    PROVE  AttemptInv' /\ [Promised!Next]_(Promised!vars)
<1>1. /\ pc = "flush" /\ buffer = <<>> /\ rest = <<>> /\ pc' = "idle" /\ last' = "ok"
      /\ UNCHANGED <<stream, buffer, rest, frame, wire, calls>>
  BY DEF SendOk, Flushed, TransportInv
<1>2. frame \in Frames /\ wire[stream] \in Seq(Cell) /\ <<>> \in Seq(Cell)
  BY <1>1, Typed, EmptySeq DEF TransportInv, Sending, Writing
<1>3. Pipe = wire[stream] \o <<>>
  BY <1>1, <1>2, Unit DEF Pipe, Ahead
<1>4. Hit(wire[stream], frame)
  <2>1. Carried(wire[stream], wire[stream] \o <<>>, frame)
    BY <1>1, <1>3 DEF AttemptInv, Writing
  <2> QED BY <1>2, <2>1, HitAtTheEnd
<1>5. Reached /\ ~Reached'
  BY <1>1, <1>4 DEF Reached, Hit, Last, Writing
<1>6. Attempt # NoFrame /\ Attempt' = NoFrame /\ Open /\ Open'
  BY <1>1, <1>2 DEF Attempt, Open, Sending, Frames, NoFrame
<1>7. Promised!End("ok")
  BY <1>1, <1>5, <1>6, SameDelivered DEF Promised!End
<1>8. AttemptInv'
  BY <1>1 DEF AttemptInv, Writing
<1> QED BY <1>7, <1>8, Stutter DEF Promised!Next

LEMMA EndMaps ==
    ASSUME TransportInv, AttemptInv, ConnectFails \/ SendFails \/ Cancel \/ Close
    PROVE  AttemptInv' /\ [Promised!Next]_(Promised!vars)
<1>1. CASE ConnectFails \/ SendFails
  <2>1. /\ pc \in Sending /\ pc' = "idle" /\ last' = "failed" /\ wire' = wire
        /\ stream' = 0
    BY <1>1 DEF ConnectFails, SendFails, DropStream, Writing, Sending, TransportInv
  <2>2. frame \in Frames
    BY <2>1 DEF TransportInv
  <2>3. Attempt # NoFrame /\ Attempt' = NoFrame /\ Open /\ Open' /\ ~Reached'
    BY <2>1, <2>2 DEF Attempt, Open, Sending, Writing, Reached, Frames, NoFrame
  <2>4. Promised!End("failed")
    BY <2>1, <2>3, SameDelivered DEF Promised!End
  <2>5. AttemptInv'
    BY <2>1 DEF AttemptInv, Writing
  <2> QED BY <2>4, <2>5, Stutter DEF Promised!Next
<1>2. CASE Cancel \/ (Close /\ pc = "idle")
  <2>1. /\ pc \in Sending \cup {"idle"} /\ pc' \in {"cancelled", "closed"}
        /\ last' = last /\ wire' = wire
    BY <1>2 DEF Cancel, Close
  <2>2. Attempt' = NoFrame /\ Open /\ ~Open' /\ ~Reached'
    BY <2>1 DEF Attempt, Open, Sending, Writing, Reached
  <2>3. Promised!Stop
    BY <2>1, <2>2, SameDelivered DEF Promised!Stop
  <2>4. AttemptInv'
    BY <2>1 DEF AttemptInv, Writing
  <2> QED BY <2>3, <2>4, Stutter DEF Promised!Next
<1>3. CASE Close /\ pc = "cancelled"
  <2>1. pc = "cancelled" /\ pc' = "closed" /\ last' = last /\ wire' = wire
    BY <1>3 DEF Close
  <2>2. UNCHANGED <<Attempt, Reached, Delivered, last, Open>>
    BY <2>1, SameDelivered DEF Attempt, Open, Sending, Writing, Reached
  <2>3. AttemptInv'
    BY <2>1 DEF AttemptInv, Writing
  <2> QED BY <2>2, <2>3, Stutter
<1> QED BY <1>1, <1>2, <1>3 DEF Close

LEMMA NextMaps ==
    TransportInv /\ AttemptInv /\ [Next]_vars => AttemptInv' /\ [Promised!Next]_(Promised!vars)
<1> SUFFICES ASSUME TransportInv, AttemptInv, [Next]_vars
             PROVE  AttemptInv' /\ [Promised!Next]_(Promised!vars)
  OBVIOUS
<1>1. CASE UNCHANGED vars
  <2>1. UNCHANGED <<stream, buffer, rest, frame, pc, wire, last>>
    BY <1>1 DEF vars
  <2>2. Ahead' = Ahead
    BY <2>1 DEF Ahead, Body, CellsOf, Size
  <2>3. Pipe' = Pipe
    BY <2>1, <2>2 DEF Pipe
  <2>4. AttemptInv'
    <3>1. pc \in Writing => Carried(wire'[stream'], Pipe', frame')
      BY <2>1, <2>3 DEF AttemptInv
    <3> QED BY <2>1, <3>1, CarriedPrimed DEF AttemptInv
  <2>5. Attempt' = Attempt /\ (Reached' <=> Reached) /\ (Open' <=> Open) /\ Delivered' = Delivered
    BY <2>1, SameDelivered DEF Attempt, Open, Reached, Last, Size
  <2> QED BY <2>1, <2>4, <2>5, Unmoved
<1>2. CASE \E f \in Frames : SendFrame(f)
  BY <1>2, SendFrameMaps
<1>3. CASE Connected
  BY <1>3, ConnectedMaps
<1>4. CASE \E n \in 1..BufferSize : KernelTakes(n)
  BY <1>4, KernelTakesMaps
<1>5. CASE \E n \in 1..(HeaderLen + BufferSize) : KernelTakesDirectly(n)
  <2>1. \A n \in 1..(HeaderLen + BufferSize) : n \in Nat \ {0}
    BY TransportAssumption
  <2> QED BY <1>5, <2>1, KernelTakesDirectlyMaps
<1>6. CASE WriteIntoBuffer \/ HeaderWritten \/ BodyWritten
  BY <1>6, WritingMaps
<1>7. CASE SendOk
  BY <1>7, SendOkMaps
<1>8. CASE ConnectFails \/ SendFails \/ Cancel \/ Close
  BY <1>8, EndMaps
<1> QED BY <1>1, <1>2, <1>3, <1>4, <1>5, <1>6, <1>7, <1>8 DEF Next

LEMMA InitMaps == Init => AttemptInv /\ Promised!Init
<1> SUFFICES ASSUME Init PROVE AttemptInv /\ Promised!Init
  OBVIOUS
<1>1. wire = <<>> /\ pc = "idle" /\ stream = 0 /\ last = "none"
  BY DEF Init
<1>2. Delivered = <<>>
  <2>1. TypeOK
    BY InitInv DEF TransportInv
  <2>2. Len(wire) = 0 /\ [k \in 1..0 |-> FramesOn(wire[k])] = <<>>
    BY <1>1
  <2>3. Delivered = Flat(<<>>)
    BY <2>1, <2>2, DeliveredIsFlat
  <2> QED BY <2>3 DEF Flat
<1>3. AttemptInv
  BY <1>1 DEF AttemptInv, Writing
<1>4. Attempt = NoFrame /\ ~Reached /\ Open
  BY <1>1 DEF Attempt, Reached, Open, Sending, Writing
<1> QED BY <1>1, <1>2, <1>3, <1>4 DEF Promised!Init

\* ImplementsFrameSender: for every length of frame and every size of buffer,
\* whatever fails, times out or is cancelled, Ok means that the kernel has the
\* frame to its last byte, and an attempt hands it over once and whole or not
\* at all.
THEOREM TransportIsFrameSender == Spec => ImplementsFrameSender
<1>1. TransportInv /\ AttemptInv /\ [Next]_vars => AttemptInv' /\ [Promised!Next]_(Promised!vars)
  BY NextMaps
<1> QED BY <1>1, InitMaps, Invariance, PTL DEF Spec, ImplementsFrameSender, Promised!Spec
=============================================================================
