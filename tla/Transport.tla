------------------------------ MODULE Transport ------------------------------
(***************************************************************************)
(* TcpTransport of crates/tell/src/transport.rs: one connection at a time, *)
(* written through a BufWriter, and what of the frames reaches the kernel. *)
(*                                                                         *)
(* Cells stand for bytes as in DiskBuffer.  The worker is the only caller, *)
(* so operations do not interleave; what comes between two awaits of one   *)
(* is an error, a timeout, or that the worker drops the future             *)
(* (worker/mod.rs:306), after which it only closes the transport.          *)
(*                                                                         *)
(*   "idle"      no send under way                                         *)
(*   "connect"   awaiting the connection                                   *)
(*   "header", "body", "flush"   awaiting the writer                       *)
(*   "cancelled" the future of send_frame was dropped                      *)
(*   "closed"    close has been called                                     *)
(***************************************************************************)
EXTENDS Integers, Sequences, SequencesExt

CONSTANTS
    HeaderLen,      \* the four bytes of the length prefix, in cells
    BodyLens,       \* lengths of the frames sent
    BufferSize,     \* capacity of the BufWriter
    MaxSends,       \* bound: calls of send_frame
    MaxDials        \* bound: connections made

ASSUME TransportAssumption ==
    /\ HeaderLen \in Nat \ {0} /\ BodyLens \subseteq Nat \ {0}
    /\ BufferSize \in Nat /\ HeaderLen < BufferSize     \* 4 bytes and 8 KiB
    /\ MaxSends \in Nat /\ MaxDials \in Nat

VARIABLES
    stream,         \* number of the live connection, or 0
    buffer,         \* what its BufWriter holds
    rest,           \* what write_all has still to hand to the writer
    frame,          \* the frame being sent, or sent last
    pc,
    wire,           \* for each connection made, the cells the kernel took
    \* history
    last,           \* how the last send ended
    calls           \* calls of send_frame

vars == <<stream, buffer, rest, frame, pc, wire, last, calls>>

NoFrame == [id |-> 0, len |-> 0]
Frames == [id : 1..MaxSends, len : BodyLens]
Cell == [id : 1..MaxSends, len : BodyLens, at : Nat \ {0}]
Size(f) == HeaderLen + f.len
CellsOf(f, from, to) == [j \in 1..(to - from + 1) |-> [id |-> f.id, len |-> f.len, at |-> from + j - 1]]
Header(f) == CellsOf(f, 1, HeaderLen)
Body(f)   == CellsOf(f, HeaderLen + 1, Size(f))

Sending == {"connect", "header", "body", "flush"}
Writing == {"header", "body", "flush"}

TypeOK ==
    /\ stream \in {0, Len(wire)}
    /\ pc \in Writing => stream # 0
    /\ buffer \in Seq(Cell) /\ Len(buffer) <= BufferSize
    /\ rest \in Seq(Cell)
    /\ frame \in Frames \cup {NoFrame}
    /\ pc \in Sending \cup {"idle", "cancelled", "closed"}
    /\ wire \in Seq(Seq(Cell)) /\ Len(wire) <= MaxDials
    /\ last \in {"none", "ok", "failed"}
    /\ calls \in 0..MaxSends

Init ==
    /\ stream = 0 /\ buffer = <<>> /\ rest = <<>>
    /\ frame = NoFrame
    /\ pc = "idle" /\ wire = <<>>
    /\ last = "none" /\ calls = 0
-----------------------------------------------------------------------------
BeginWrite(f) == pc' = "header" /\ rest' = Header(f)

\* Mutant: ensure_connected takes the stream for live when it is not.
NeverDials == FALSE

\* ensure_connected
MustDial == stream = 0

\* send_frame begins with a frame of its own, or with the one that failed.
\* A live stream is used as it is.
SendFrame(f) ==
    /\ pc = "idle" /\ calls < MaxSends
    /\ \/ f.id = frame.id + 1
       \/ f = frame /\ last = "failed"
    /\ frame' = f
    /\ calls' = calls + 1
    /\ IF MustDial THEN pc' = "connect" /\ UNCHANGED rest ELSE BeginWrite(f)
    /\ UNCHANGED <<stream, buffer, wire, last>>

\* connect succeeds: a new stream under a new BufWriter.
Connected ==
    /\ pc = "connect" /\ Len(wire) < MaxDials
    /\ wire' = Append(wire, <<>>)
    /\ stream' = Len(wire) + 1
    /\ buffer' = <<>>
    /\ BeginWrite(frame)
    /\ UNCHANGED <<frame, last, calls>>

\* connect fails or times out.
ConnectFails ==
    /\ pc = "connect"
    /\ pc' = "idle" /\ last' = "failed"
    /\ UNCHANGED <<stream, buffer, rest, frame, wire, calls>>

(* The BufWriter, as tokio documents it: a write that does not fit makes it
   flush what it holds; one as large as the buffer goes past it. *)
Fits == Len(buffer) + Len(rest) <= BufferSize
Large == Len(rest) >= BufferSize

Handed(cells) == wire' = [wire EXCEPT ![stream] = @ \o cells]

Untook(cells, n) == SubSeq(cells, n + 1, Len(cells))

\* The kernel takes some of the buffer, in flush or to make room.
KernelTakes(n) ==
    /\ pc \in Writing /\ n <= Len(buffer)
    /\ pc = "flush" \/ ~Fits
    /\ Handed(SubSeq(buffer, 1, n))
    /\ buffer' = Untook(buffer, n)
    /\ UNCHANGED <<stream, rest, frame, pc, last, calls>>

\* The kernel takes some of a large write directly.
KernelTakesDirectly(n) ==
    /\ pc \in Writing /\ buffer = <<>> /\ Large /\ n <= Len(rest)
    /\ Handed(SubSeq(rest, 1, n))
    /\ rest' = Untook(rest, n)
    /\ UNCHANGED <<stream, buffer, frame, pc, last, calls>>

WriteIntoBuffer ==
    /\ pc \in Writing /\ rest # <<>> /\ Fits /\ ~Large
    /\ buffer' = buffer \o rest
    /\ rest' = <<>>
    /\ UNCHANGED <<stream, frame, pc, wire, last, calls>>

\* A write_all is done, the next call begins.
HeaderWritten ==
    /\ pc = "header" /\ rest = <<>>
    /\ pc' = "body" /\ rest' = Body(frame)
    /\ UNCHANGED <<stream, buffer, frame, wire, last, calls>>

BodyWritten ==
    /\ pc = "body" /\ rest = <<>>
    /\ pc' = "flush"
    /\ UNCHANGED <<stream, buffer, rest, frame, wire, last, calls>>

\* Mutant: flush is not awaited.
NoFlush == TRUE

Flushed == buffer = <<>>

SendOk ==
    /\ pc = "flush" /\ Flushed
    /\ pc' = "idle"
    /\ last' = "ok"
    /\ UNCHANGED <<stream, buffer, rest, frame, wire, calls>>

\* Mutant: the stream is kept after an error.
KeepStream == buffer' = <<>> /\ UNCHANGED stream

\* The stream is dropped, with what its BufWriter holds.
DropStream == stream' = 0 /\ buffer' = <<>>

\* An I/O error, or network_timeout.
SendFails ==
    /\ pc \in Writing
    /\ DropStream
    /\ rest' = <<>> /\ pc' = "idle" /\ last' = "failed"
    /\ UNCHANGED <<frame, wire, calls>>

\* The worker drops the future at its await.  The stream stays.
Cancel ==
    /\ pc \in Sending
    /\ pc' = "cancelled" /\ rest' = <<>>
    /\ UNCHANGED <<stream, buffer, frame, wire, last, calls>>

\* close: the socket is shut down under the BufWriter, whose contents go.
Close ==
    /\ pc \in {"idle", "cancelled"}
    /\ DropStream
    /\ pc' = "closed"
    /\ UNCHANGED <<rest, frame, wire, last, calls>>

Next ==
    \/ \E f \in Frames : SendFrame(f)
    \/ Connected \/ ConnectFails
    \/ \E n \in 1..BufferSize : KernelTakes(n)
    \/ \E n \in 1..(HeaderLen + BufferSize) : KernelTakesDirectly(n)
    \/ WriteIntoBuffer \/ HeaderWritten \/ BodyWritten
    \/ SendOk \/ SendFails \/ Cancel \/ Close

Spec == Init /\ [][Next]_vars
-----------------------------------------------------------------------------
\* c may follow b in a stream: the next cell of the same frame, or the first
\* of another when b is a frame's last.
Follows(b, c) ==
    \/ c.id = b.id /\ c.len = b.len /\ c.at = b.at + 1
    \/ c.at = 1 /\ b.at = Size(b) /\ c.id > b.id

WellFormed(w) ==
    /\ w # <<>> => w[1].at = 1
    /\ \A i \in 1..(Len(w) - 1) : Follows(w[i], w[i + 1])

\* What a connection carries is whole frames, one after the other, in the
\* order of the calls and none twice, and only its last may be cut off: a
\* peer that follows the length prefixes never loses its place, whatever
\* failed or was cut short before.
StreamIsFrames == \A k \in DOMAIN wire : WellFormed(wire[k])

-----------------------------------------------------------------------------
(***************************************************************************)
(* The sender this transport implements.  A frame is delivered when the    *)
(* kernel took its last cell, wherever send_frame stands then.             *)
(***************************************************************************)
FrameOf(c) == [id |-> c.id, len |-> c.len]

\* The frames that end on a connection, cell by cell.
FramesOn(w) ==
    LET upTo[q \in Nat] ==
          IF q = 0 THEN <<>>
          ELSE IF q <= Len(w) /\ w[q].at = Size(w[q])
               THEN Append(upTo[q - 1], FrameOf(w[q]))
               ELSE upTo[q - 1]
    IN  upTo[Len(w)]

Delivered == FlattenSeq([k \in DOMAIN wire |-> FramesOn(wire[k])])

Attempt == IF pc \in Sending THEN frame ELSE NoFrame

Reached ==
    pc \in Writing /\ wire[stream] # <<>>
        /\ Last(wire[stream]).id = frame.id /\ Last(wire[stream]).at = Size(frame)

Open == pc \notin {"cancelled", "closed"}

Promised == INSTANCE FrameSender WITH
    Frame <- Frames,
    attempt <- Attempt, reached <- Reached, delivered <- Delivered,
    outcome <- last, open <- Open

\* What the worker may take a send for.  Ok means that the kernel has the frame
\* to its last byte, and that none of it waits in a buffer that close or a
\* failure would drop; an attempt never hands over two copies, and nothing is
\* handed over outside of one, so a peer hears a frame at most as often as it
\* was attempted, in the order of the attempts.
ImplementsFrameSender == Promised!Spec
=============================================================================
