-------------------------- MODULE DiskBufferProofs --------------------------
(***************************************************************************)
(* Proofs about DiskBuffer, for every value of its constants.              *)
(*                                                                         *)
(* Layers of inductive invariants, each resting on Typed:                  *)
(*                                                                         *)
(*   Typed    types, the control state, and read_pos <= write_pos: holds   *)
(*            whatever crashes, tears or fails                             *)
(*   ReaderAtReadPos   holds unless a read may fail                        *)
(*   Resent   how often what the file still holds was handed out: holds    *)
(*            whatever crashes, tears or fails                             *)
(*   Sound    how the file is framed and where the positions stand in it:  *)
(*            holds unless a crash tears a frame or comes between the two  *)
(*            files, or a write, a reopen or a cursor update fails         *)
(*                                                                         *)
(* The last is what MildFailures says.  With it the buffer loses no frame  *)
(* and hands out no rubbish: a crash does not tear a frame and does not    *)
(* come between the replacement of the file and that of the cursor, and    *)
(* the I/O errors are failures to write the replacement file or, but for   *)
(* that same moment, the cursor file.  The run compact_crash shows why the *)
(* moment is excluded.                                                     *)
(*                                                                         *)
(* From Sound it also follows that the buffer implements FrameLog, step by *)
(* step, which needs to know where an eviction's scan stands: Scanning.    *)
(***************************************************************************)
EXTENDS DiskBuffer, SequenceTheorems, InductionLemmas, TLAPS

-----------------------------------------------------------------------------
(* Types and control *)

\* What an operation that has begun remembers.
ControlOK ==
    /\ pending # None => written < MaxFrames
    /\ pc \in {"evict", "write"} => pending # None
    /\ pc = "idle" => pending = None
    /\ ~up => pc = "idle"

Typed == TypeOK /\ ControlOK /\ NoUnderflow

LEMMA ConstantTypes ==
    /\ HeaderLen \in Nat /\ HeaderLen > 0
    /\ BodyLens \subseteq Nat /\ \A len \in BodyLens : len <= MaxFrameLen
    /\ MaxFrameLen \in Nat /\ MaxBytes \in Nat
    /\ MaxFrames \in Nat /\ MaxCrashes \in Nat /\ MaxFaults \in Nat
BY LengthAssumption, BoundAssumption

\* A frame is a sequence of Size(len) cells.
LEMMA FrameCellsType ==
    ASSUME NEW id \in Ids, NEW len \in BodyLens
    PROVE  /\ Size(len) \in Nat /\ Size(len) > 0
           /\ FrameCells(id, len) \in Seq(CellType)
           /\ Len(FrameCells(id, len)) = Size(len)
<1>1. Size(len) \in Nat /\ Size(len) > 0
  BY LengthAssumption DEF Size
<1>2. FrameCells(id, len) \in [1..Size(len) -> CellType]
  BY <1>1 DEF FrameCells, CellType
<1>3. FrameCells(id, len) \in Seq(CellType)
  BY <1>1, <1>2, IsASeq DEF FrameCells
<1>4. Len(FrameCells(id, len)) = Size(len)
  BY <1>1, <1>2, <1>3, LenProperties
<1> QED BY <1>1, <1>3, <1>4

LEMMA PrefixOfFrameType ==
    ASSUME NEW id \in Ids, NEW len \in BodyLens, NEW k \in 0..Size(len),
           NEW w \in Seq(CellType)
    PROVE  w \o SubSeq(FrameCells(id, len), 1, k) \in Seq(CellType)
<1>1. SubSeq(FrameCells(id, len), 1, k) \in Seq(CellType)
  BY FrameCellsType, SubSeqProperties
<1> QED BY <1>1, ConcatProperties

LEMMA CellsTyped ==
    ASSUME TypeOK, NEW q \in 1..Len(wal)
    PROVE  wal[q].id \in Ids /\ wal[q].len \in BodyLens /\ wal[q].at \in Nat
<1>1. wal[q] \in CellType
  BY ElementOfSeq DEF TypeOK
<1> QED BY <1>1 DEF CellType

\* The lengths read from a length prefix are lengths.
LEMMA HeaderLensType ==
    ASSUME TypeOK, NEW p \in Nat
    PROVE  HeaderLens(p) \subseteq Nat
<1>1. CASE p + HeaderLen <= Len(wal)
  <2>1. p + 1 \in 1..Len(wal)
    BY <1>1, LengthAssumption DEF TypeOK
  <2>2. wal[p + 1] \in CellType
    BY <2>1, ElementOfSeq DEF TypeOK
  <2>3. wal[p + 1].len \in Nat
    BY <2>2, ConstantTypes DEF CellType
  <2> QED BY <2>3, LengthAssumption DEF HeaderLens
<1>2. CASE ~(p + HeaderLen <= Len(wal))
  BY <1>2, ConstantTypes DEF HeaderLens, TypeOK
<1> QED BY <1>1, <1>2

LEMMA SizeType == ASSUME NEW len \in Nat PROVE Size(len) \in Nat /\ Size(len) > 0
BY LengthAssumption DEF Size

LEMMA InitTyped == Init => Typed
<1> SUFFICES ASSUME Init PROVE Typed
  OBVIOUS
<1>1. wal \in Seq(CellType)
  BY DEF Init
<1>2. taken \in [Ids -> Nat]
  BY DEF Init
<1>3. 0 \in 0..MaxFrames /\ 0 \in 0..MaxCrashes /\ 0 \in 0..MaxFaults
  BY ConstantTypes
<1>4. TypeOK
  BY <1>1, <1>2, <1>3 DEF Init, TypeOK, PCs
<1> QED BY <1>4 DEF Init, Typed, ControlOK, NoUnderflow

\* What a dead process leaves in memory is well typed.
LEMMA ForgetTyped ==
    Forget => /\ up' \in BOOLEAN
              /\ write_pos' = 0 /\ read_pos' = 0 /\ persisted_pos' = 0
              /\ reader' = None /\ pc' = "idle" /\ pc' \in PCs
              /\ pending' = None /\ freed' = 0
BY DEF Forget, Return, PCs

LEMMA NextTyped == Typed /\ [Next]_vars => Typed'
<1> SUFFICES ASSUME Typed, [Next]_vars PROVE Typed'
  OBVIOUS
<1> USE ConstantTypes DEF Typed, ControlOK, NoUnderflow
<1>1. CASE Open
  <2>1. ResumePos \in Nat /\ ResumePos <= Len(wal) /\ Len(wal) \in Nat
    BY DEF TypeOK, ResumePos, MinOf
  <2> QED BY <1>1, <2>1 DEF Open, PersistCursor, TypeOK, control, history, bounds
<1>2. CASE Close
  <2>1. cursor' \in Nat /\ faults' \in 0..MaxFaults
    BY <1>2 DEF Close, LastPersist, Fault, TypeOK
  <2> QED BY <1>2, <2>1, ForgetTyped DEF Close, TypeOK, history
<1>3. CASE Crash
  <2>1. wal' \in Seq(CellType) /\ written' \in 0..MaxFrames
    <3>1. CASE pc = "write"
      <4>1. pending \in BodyLens /\ written + 1 \in Ids
        BY <3>1 DEF TypeOK, Ids
      <4>2. (IF Tearing THEN 0..Size(pending) ELSE {0, Size(pending)}) \subseteq 0..Size(pending)
        BY <4>1, FrameCellsType
      <4>3. PICK k \in 0..Size(pending) :
              /\ wal' = wal \o SubSeq(FrameCells(written + 1, pending), 1, k)
              /\ written' = written + 1
        BY <1>3, <3>1, <4>2 DEF Crash
      <4> QED BY <4>1, <4>3, PrefixOfFrameType DEF TypeOK, Ids
    <3>2. CASE pc # "write"
      BY <1>3, <3>2 DEF Crash, TypeOK
    <3> QED BY <3>1, <3>2
  <2> QED BY <1>3, <2>1, ForgetTyped DEF Crash, TypeOK
<1>4. ASSUME NEW len \in BodyLens, AppendStart(len) PROVE Typed'
  BY <1>4 DEF AppendStart, TypeOK, PCs, None, disk, memory, history, bounds
<1>5. CASE EvictScan
  <2>1. PICK len \in HeaderLens(read_pos + freed) : freed' = freed + Size(len)
    BY <1>5 DEF EvictScan
  <2>2. read_pos + freed \in Nat
    BY DEF TypeOK
  <2>3. len \in Nat
    BY <2>1, <2>2, HeaderLensType
  <2>4. Size(len) \in Nat
    BY <2>3, SizeType
  <2>5. freed' \in Nat
    BY <2>1, <2>4 DEF TypeOK
  <2> QED BY <1>5, <2>5 DEF EvictScan, TypeOK, disk, memory, history, bounds
<1>6. CASE EvictPersist
  <2>1. EvictTo \in Nat /\ EvictTo <= write_pos
    BY DEF TypeOK, EvictTo, MinOf
  <2>2. evicted' \subseteq Ids
    <3>1. \A q \in 1..Len(wal) : wal[q].id \in Ids
      BY CellsTyped
    <3>2. IdsBetween(read_pos, EvictTo) \subseteq Ids
      BY <3>1, Zenon DEF IdsBetween
    <3> QED BY <1>6, <3>2 DEF EvictPersist, TypeOK
  <2>3. CASE PersistCursor(EvictTo) /\ MaybeCompact(EvictTo, write_pos)
             /\ freed' = 0 /\ UNCHANGED <<pending, faults>>
    BY <1>6, <2>1, <2>2, <2>3
       DEF EvictPersist, DropReader, PersistCursor, MaybeCompact, AfterCompact, TypeOK, PCs
  <2>4. CASE Fault("persist") /\ Return /\ UNCHANGED <<cursor, persisted_pos>>
    BY <1>6, <2>1, <2>2, <2>4 DEF EvictPersist, DropReader, Fault, Return, TypeOK, PCs
  <2> QED BY <1>6, <2>3, <2>4 DEF EvictPersist
<1>7. CASE EvictReadFails
  BY <1>7 DEF EvictReadFails, Fault, Return, TypeOK, PCs, disk, memory, history
<1>8. CASE WriteFrame
  <2>1. pending \in BodyLens /\ written + 1 \in Ids
    BY <1>8 DEF WriteFrame, TypeOK, Ids
  <2>2. wal' \in Seq(CellType)
    BY <1>8, <2>1, FrameCellsType, ConcatProperties DEF WriteFrame, TypeOK
  <2>3. Size(pending) \in Nat
    BY <2>1, FrameCellsType
  <2> QED BY <1>8, <2>1, <2>2, <2>3, SMTT(30), ZenonT(30) DEF WriteFrame, Return, TypeOK, PCs, Ids, bounds
<1>9. CASE WriteFails
  <2>1. pending \in BodyLens /\ written + 1 \in Ids
    BY <1>9 DEF WriteFails, TypeOK, Ids
  <2>2. wal' \in Seq(CellType)
    BY <1>9, <2>1, PrefixOfFrameType DEF WriteFails, TypeOK
  <2> QED BY <1>9, <2>1, <2>2 DEF WriteFails, Fault, Return, TypeOK, PCs, Ids, memory
<1>10. CASE DrainFrame
  <2>1. ReaderPos \in Nat
    BY DEF ReaderPos, TypeOK, None
  <2>2. PICK len \in HeaderLens(ReaderPos) :
          /\ read_pos + Size(len) <= write_pos
          /\ ReaderPos + Size(len) <= Len(wal)
          /\ read_pos' = read_pos + Size(len)
          /\ reader' = ReaderPos + Size(len)
          /\ \/ taken' = [taken EXCEPT ![wal[ReaderPos + 1].id] = @ + 1] /\ UNCHANGED junk
             \/ junk' = TRUE /\ UNCHANGED taken
    BY <1>10 DEF DrainFrame
  <2>3. Size(len) \in Nat /\ Size(len) > 0
    BY <2>1, HeaderLensType, SizeType
  <2>4. taken' \in [Ids -> Nat]
    <3>1. \A f \in Ids : taken[f] \in Nat /\ taken[f] + 1 \in Nat
      BY DEF TypeOK
    <3> QED BY <2>2, <3>1 DEF TypeOK
  <2>5. junk' \in BOOLEAN
    BY <2>2 DEF TypeOK
  <2> QED BY <1>10, <2>1, <2>2, <2>3, <2>4, <2>5 DEF DrainFrame, TypeOK, disk, control, bounds
<1>11. CASE DrainSkips
  BY <1>11 DEF DrainSkips, DrainMayRead, ResetToEnd, DropReader, PersistCursor, Fault,
               TypeOK, control, history
<1>12. CASE DrainReadFails
  <2>1. ReaderPos \in Nat
    BY DEF ReaderPos, TypeOK, None
  <2>2. reader' \in Nat
    <3>1. PICK last : reader' \in ReaderPos..last
      BY <1>12 DEF DrainReadFails
    <3> QED BY <2>1, <3>1
  <2> QED BY <1>12, <2>2 DEF DrainReadFails, Fault, TypeOK, disk, control, history
<1>13. CASE Commit
  BY <1>13 DEF Commit, PersistCursor, MaybeCompact, AfterCompact, Fault, TypeOK, PCs, history
<1>14. CASE CompactRename
  <2>1. wal' \in Seq(CellType)
    BY <1>14, SubSeqProperties DEF CompactRename, TypeOK
  <2> QED BY <1>14, <2>1 DEF CompactRename, Remaining, DropReader, TypeOK, PCs, history, bounds
<1>15. CASE CompactTruncate
  BY <1>15, EmptySeq DEF CompactTruncate, DropReader, TypeOK, PCs, history, bounds
<1>16. CASE CompactFails
  BY <1>16 DEF CompactFails, Fault, Return, TypeOK, PCs, disk, history
<1>17. CASE CompactReopenFails
  <2>1. wal' \in Seq(CellType)
    BY <1>17, SubSeqProperties DEF CompactReopenFails, TypeOK
  <2> QED BY <1>17, <2>1 DEF CompactReopenFails, DropReader, Fault, Return, TypeOK, PCs, history
<1>18. CASE CompactPersist
  BY <1>18 DEF CompactPersist, PersistCursor, AfterCompact, Fault, Return, TypeOK, PCs, history
<1>19. CASE UNCHANGED vars
  BY <1>19 DEF vars, TypeOK
<1> QED BY <1>1, <1>2, <1>3, <1>4, <1>5, <1>6, <1>7, <1>8, <1>9, <1>10, <1>11, <1>12,
           <1>13, <1>14, <1>15, <1>16, <1>17, <1>18, <1>19 DEF Next

LEMMA AlwaysTyped == Spec => []Typed
BY InitTyped, NextTyped, PTL DEF Spec

\* TypeOK: whatever fails, every variable keeps its type.
THEOREM TypesHold == Spec => []TypeOK
BY AlwaysTyped, PTL DEF Typed

\* NoUnderflow: the unguarded u64 subtractions of evict_if_needed and compact
\* never wrap, whatever the two files hold and whatever has failed.
THEOREM SubtractionsHold == Spec => []NoUnderflow
BY AlwaysTyped, PTL DEF Typed
-----------------------------------------------------------------------------
(* The reader *)

LEMMA NextReader ==
    ASSUME "read" \notin Faults, Typed, ReaderAtReadPos, [Next]_vars
    PROVE  ReaderAtReadPos'
<1> USE DEF ReaderAtReadPos
<1>1. CASE DrainFrame
  <2>1. ReaderPos = read_pos
    BY DEF ReaderPos
  <2> QED BY <1>1, <2>1 DEF DrainFrame
<1>2. CASE CompactFails
  BY <1>2 DEF CompactFails
<1>3. CASE DrainReadFails
  BY <1>3 DEF DrainReadFails, Fault
<1>4. CASE \/ Open \/ Close \/ Crash \/ EvictPersist \/ DrainSkips
           \/ CompactRename \/ CompactTruncate \/ CompactReopenFails
  BY <1>4 DEF Open, Close, Crash, Forget, EvictPersist, DrainSkips, ResetToEnd,
              CompactRename, CompactTruncate, CompactReopenFails, DropReader
<1>5. CASE \/ \E len \in BodyLens : AppendStart(len)
           \/ EvictScan \/ EvictReadFails \/ WriteFrame \/ WriteFails
           \/ Commit \/ CompactPersist \/ UNCHANGED vars
  BY <1>5 DEF AppendStart, EvictScan, EvictReadFails, WriteFrame, WriteFails, Commit,
              CompactPersist, memory, vars
<1> QED BY <1>1, <1>2, <1>3, <1>4, <1>5 DEF Next

\* ReaderAtReadPos: every operation that moves read_pos or rewrites the file
\* drops the reader or moves it along.  Only a read that fails half way
\* (finding read_error) can part the two.
THEOREM ReaderStaysAtReadPos ==
    ASSUME "read" \notin Faults
    PROVE  Spec => []ReaderAtReadPos
<1>1. Init => ReaderAtReadPos
  BY DEF Init, ReaderAtReadPos
<1>2. Typed /\ ReaderAtReadPos /\ [Next]_vars => ReaderAtReadPos'
  BY NextReader
<1> QED BY <1>1, <1>2, AlwaysTyped, PTL DEF Spec

-----------------------------------------------------------------------------
\* How the world may fail for the buffer to lose nothing.
MildFailures ==
    /\ Faults \subseteq {"persist", "rewrite"}
    /\ "recursor" \notin CrashPoints
    /\ Tearing = FALSE

-----------------------------------------------------------------------------
(* How frames lie in a file *)

Files == Seq(CellType)

\* Every cell belongs to a frame that is there as a whole.
Framed(w) ==
    \A i \in 1..Len(w) :
        /\ w[i].at >= 1 /\ w[i].at <= Size(w[i].len) /\ w[i].at <= i
        /\ WholeFrameAt(w, i - w[i].at, w[i])

\* Offset p is where a frame starts or the file ends.
Boundary(w, p) == p \in 0..Len(w) /\ (p < Len(w) => w[p + 1].at = 1)

\* Frame f is in file w, whole, at offset `from` or later.
Stored(w, f, from) ==
    \E p \in from..(Len(w) - 1) : w[p + 1].id = f /\ WholeFrameAt(w, p, w[p + 1])

LEMMA FileCells ==
    ASSUME NEW w \in Files, NEW i \in 1..Len(w)
    PROVE  /\ w[i].id \in Ids /\ w[i].len \in BodyLens /\ w[i].at \in Nat
           /\ Size(w[i].len) \in Nat /\ Size(w[i].len) > 0
<1>1. w[i] \in CellType
  BY ElementOfSeq DEF Files
<1>2. w[i].id \in Ids /\ w[i].len \in BodyLens /\ w[i].at \in Nat
  BY <1>1 DEF CellType
<1> QED BY <1>2, FrameCellsType

\* The cells of a whole frame.
LEMMA WholeCells ==
    ASSUME NEW w, NEW p, NEW c, WholeFrameAt(w, p, c), NEW j \in 1..Size(c.len)
    PROVE  w[p + j].id = c.id /\ w[p + j].len = c.len /\ w[p + j].at = j
<1>1. w[p + j] = [id |-> c.id, len |-> c.len, at |-> j]
  BY DEF WholeFrameAt
<1> QED BY <1>1

LEMMA FrameOfCell ==
    ASSUME NEW w, Framed(w), NEW i \in 1..Len(w)
    PROVE  /\ w[i].at >= 1 /\ w[i].at <= Size(w[i].len) /\ w[i].at <= i
           /\ WholeFrameAt(w, i - w[i].at, w[i])
BY DEF Framed

\* At a boundary before the end of the file stands a whole frame.
LEMMA FrameAtBoundary ==
    ASSUME NEW w \in Files, Framed(w), NEW p, Boundary(w, p), p < Len(w)
    PROVE  /\ p \in Nat /\ p + 1 \in 1..Len(w)
           /\ WholeFrameAt(w, p, w[p + 1])
           /\ p + Size(w[p + 1].len) <= Len(w)
<1>1. Len(w) \in Nat /\ p \in Nat /\ p + 1 \in 1..Len(w) /\ w[p + 1].at = 1
  BY DEF Boundary, Files
<1>2. WholeFrameAt(w, (p + 1) - w[p + 1].at, w[p + 1])
  BY <1>1 DEF Framed
<1>3. (p + 1) - w[p + 1].at = p
  BY <1>1
<1>4. WholeFrameAt(w, p, w[p + 1])
  BY <1>2, <1>3
<1> QED BY <1>1, <1>4 DEF WholeFrameAt

\* A frame ends at a boundary.
LEMMA BoundaryAfterFrame ==
    ASSUME NEW w \in Files, Framed(w), NEW p, Boundary(w, p), p < Len(w)
    PROVE  Boundary(w, p + Size(w[p + 1].len))
<1> DEFINE c == w[p + 1]
           s == Size(c.len)
           n == p + s + 1
           d == w[n]
<1>1. /\ p \in Nat /\ p + 1 \in 1..Len(w) /\ Len(w) \in Nat
      /\ WholeFrameAt(w, p, c) /\ p + s <= Len(w)
  BY FrameAtBoundary DEF Files
<1>2. s \in Nat /\ s > 0
  BY <1>1, FileCells
<1>3. ASSUME p + s < Len(w) PROVE d.at = 1
  <2>1. n \in 1..Len(w)
    BY <1>1, <1>2, <1>3
  <2> HIDE DEF c, s, n, d
  <2>0. d.at \in Nat /\ Size(d.len) \in Nat
    BY <2>1, FileCells DEF d
  <2>2. /\ d.at >= 1 /\ d.at <= Size(d.len)
        /\ WholeFrameAt(w, n - d.at, d)
    BY <2>1, FrameOfCell DEF d
  <2>3. SUFFICES ASSUME d.at > 1 PROVE FALSE
    BY <2>0, <2>2
  <2>4. d.at - 1 \in 1..Size(d.len) /\ (n - d.at) + (d.at - 1) = p + s
    BY <1>1, <1>2, <2>0, <2>2, <2>3 DEF n
  <2>5. w[p + s].len = d.len /\ w[p + s].at = d.at - 1
    BY <2>2, <2>4, WholeCells
  <2>6. w[p + s].len = c.len /\ w[p + s].at = s
    BY <1>1, <1>2, WholeCells DEF s
  <2>7. Size(d.len) = s
    BY <2>5, <2>6 DEF s
  <2> QED BY <1>2, <2>0, <2>2, <2>5, <2>6, <2>7
<1> QED BY <1>1, <1>2, <1>3 DEF Boundary

\* Where a whole frame stands is a boundary.
LEMMA WholeFrameAtBoundary ==
    ASSUME NEW w \in Files, NEW p \in Nat, p < Len(w), WholeFrameAt(w, p, w[p + 1])
    PROVE  Boundary(w, p)
<1>1. Len(w) \in Nat /\ p + 1 \in 1..Len(w)
  BY DEF Files
<1>2. 1 \in 1..Size(w[p + 1].len)
  BY <1>1, FileCells
<1>3. w[p + 1].at = 1
  BY <1>2, WholeCells
<1> QED BY <1>1, <1>3 DEF Boundary

\* No boundary lies inside a frame.
LEMMA FramesDisjoint ==
    ASSUME NEW w \in Files, Framed(w), NEW p, Boundary(w, p),
           NEW q, Boundary(w, q), p < q
    PROVE  p + Size(w[p + 1].len) <= q
<1> DEFINE s == Size(w[p + 1].len)
<1>1. Len(w) \in Nat /\ p \in Nat /\ q \in Nat /\ q <= Len(w) /\ p < Len(w)
  BY DEF Boundary, Files
<1>2. WholeFrameAt(w, p, w[p + 1]) /\ p + 1 \in 1..Len(w) /\ p + s <= Len(w)
  BY <1>1, FrameAtBoundary
<1>3. s \in Nat
  BY <1>2, FileCells
<1>4. SUFFICES ASSUME q < p + s PROVE FALSE
  BY <1>1, <1>3
<1>5. (q + 1) - p \in 1..s /\ p + ((q + 1) - p) = q + 1 /\ q < Len(w)
  <2> HIDE DEF s
  <2> QED BY <1>1, <1>2, <1>3, <1>4
<1>6. w[q + 1].at = (q + 1) - p
  BY <1>2, <1>5, WholeCells
<1>7. w[q + 1].at = 1
  BY <1>5 DEF Boundary
<1> QED BY <1>1, <1>6, <1>7

\* A whole frame stays whole in a file that agrees on its cells, moved by d.
LEMMA WholeFrameMoves ==
    ASSUME NEW w \in Files, NEW v \in Files, NEW p \in Nat, NEW q \in Nat, NEW c,
           Size(c.len) \in Nat, WholeFrameAt(w, p, c), q + Size(c.len) <= Len(v),
           \A j \in 1..Size(c.len) : v[q + j] = w[p + j]
    PROVE  WholeFrameAt(v, q, c)
BY DEF WholeFrameAt

\* A file that grows by a frame keeps its frames, its boundaries and what is
\* stored in it.
LEMMA AppendFrame ==
    ASSUME NEW w \in Files, Framed(w), NEW id \in Ids, NEW len \in BodyLens
    PROVE  LET v == w \o FrameCells(id, len) IN
           /\ v \in Files /\ Len(v) = Len(w) + Size(len)
           /\ Framed(v)
           /\ \A p : Boundary(w, p) => Boundary(v, p)
           /\ \A f, from : from \in Nat /\ Stored(w, f, from) => Stored(v, f, from)
           /\ \A from \in 0..Len(w) : Stored(v, id, from)
<1> DEFINE v == w \o FrameCells(id, len)
           s == Size(len)
<1>1. s \in Nat /\ s > 0 /\ FrameCells(id, len) \in Files /\ Len(FrameCells(id, len)) = s
  BY FrameCellsType DEF Files
<1>2. Len(w) \in Nat
  BY DEF Files
<1>3. v \in Files /\ Len(v) = Len(w) + s
  BY <1>1, ConcatProperties DEF Files
<1>4. \A i \in 1..Len(w) : v[i] = w[i]
  BY <1>1, <1>2, ConcatProperties DEF Files
<1>5. \A j \in 1..s : v[Len(w) + j] = [id |-> id, len |-> len, at |-> j]
  <2>1. ASSUME NEW j \in 1..s PROVE v[Len(w) + j] = FrameCells(id, len)[j]
    BY <1>1, <1>2, ConcatProperties DEF Files
  <2> QED BY <2>1 DEF FrameCells
<1> HIDE DEF v
<1>6. ASSUME NEW p \in Nat, NEW c, Size(c.len) \in Nat, WholeFrameAt(w, p, c)
      PROVE  WholeFrameAt(v, p, c)
  <2>1. p + Size(c.len) <= Len(w)
    BY <1>6 DEF WholeFrameAt
  <2>2. \A j \in 1..Size(c.len) : v[p + j] = w[p + j]
    BY <1>2, <1>4, <1>6, <2>1
  <2>3. p + Size(c.len) <= Len(v)
    BY <1>1, <1>2, <1>3, <1>6, <2>1
  <2> QED BY <1>3, <1>6, <2>2, <2>3, WholeFrameMoves
<1>7. ASSUME NEW c, c.id = id, c.len = len
      PROVE  WholeFrameAt(v, Len(w), c)
  BY <1>3, <1>5, <1>7 DEF WholeFrameAt
<1>8. ASSUME NEW i \in 1..Len(v)
      PROVE  /\ v[i].at >= 1 /\ v[i].at <= Size(v[i].len) /\ v[i].at <= i
             /\ WholeFrameAt(v, i - v[i].at, v[i])
  <2>1. CASE i <= Len(w)
    <3>1. i \in 1..Len(w) /\ v[i] = w[i]
      BY <1>2, <1>4, <2>1
    <3>2. /\ w[i].at >= 1 /\ w[i].at <= Size(w[i].len) /\ w[i].at <= i
          /\ WholeFrameAt(w, i - w[i].at, w[i])
      BY <3>1, FrameOfCell
    <3>3. i - w[i].at \in Nat /\ Size(w[i].len) \in Nat
      BY <3>1, <3>2, FileCells
    <3> QED BY <1>6, <3>1, <3>2, <3>3
  <2>2. CASE i > Len(w)
    <3>1. i - Len(w) \in 1..s /\ Len(w) + (i - Len(w)) = i
      BY <1>1, <1>2, <1>3, <2>2
    <3>2. v[i] = [id |-> id, len |-> len, at |-> i - Len(w)]
      BY <1>5, <3>1
    <3>3. v[i].id = id /\ v[i].len = len /\ v[i].at = i - Len(w)
      BY <3>2
    <3>4. i - v[i].at = Len(w)
      BY <1>2, <3>3
    <3>5. WholeFrameAt(v, i - v[i].at, v[i])
      BY <1>7, <3>3, <3>4
    <3> QED BY <1>1, <1>2, <3>1, <3>3, <3>5
  <2> QED BY <1>2, <2>1, <2>2
<1>9. ASSUME NEW p, Boundary(w, p) PROVE Boundary(v, p)
  <2>1. p \in 0..Len(w) /\ p \in 0..Len(v)
    BY <1>1, <1>2, <1>3, <1>9 DEF Boundary
  <2>2. CASE p < Len(w)
    BY <1>2, <1>4, <1>9, <2>1, <2>2 DEF Boundary
  <2>3. CASE p = Len(w)
    <3>1. v[p + 1] = [id |-> id, len |-> len, at |-> 1]
      BY <1>1, <1>5, <2>3
    <3> QED BY <2>1, <3>1 DEF Boundary
  <2> QED BY <1>2, <2>1, <2>2, <2>3
<1>10. ASSUME NEW f, NEW from, from \in Nat, Stored(w, f, from) PROVE Stored(v, f, from)
  <2>1. PICK p \in from..(Len(w) - 1) : w[p + 1].id = f /\ WholeFrameAt(w, p, w[p + 1])
    BY <1>10 DEF Stored
  <2>2. p \in Nat /\ p + 1 \in 1..Len(w) /\ v[p + 1] = w[p + 1]
    BY <1>2, <1>4, <1>10, <2>1
  <2>3. WholeFrameAt(v, p, v[p + 1])
    BY <1>6, <2>1, <2>2, FileCells
  <2>4. p \in from..(Len(v) - 1)
    BY <1>1, <1>2, <1>3, <1>10, <2>1
  <2> QED BY <2>1, <2>2, <2>3, <2>4 DEF Stored
<1>11. ASSUME NEW from \in 0..Len(w) PROVE Stored(v, id, from)
  <2>1. v[Len(w) + 1] = [id |-> id, len |-> len, at |-> 1]
    BY <1>1, <1>5
  <2>2. v[Len(w) + 1].id = id /\ v[Len(w) + 1].len = len
    BY <2>1
  <2>3. WholeFrameAt(v, Len(w), v[Len(w) + 1])
    BY <1>7, <2>2
  <2>4. Len(w) \in from..(Len(v) - 1)
    BY <1>1, <1>2, <1>3, <1>11
  <2> QED BY <2>2, <2>3, <2>4 DEF Stored
<1>12. Framed(v)
  BY <1>8 DEF Framed
<1> QED BY <1>3, <1>9, <1>10, <1>11, <1>12 DEF v

\* What follows a boundary is a file of its own.
LEMMA SuffixFromBoundary ==
    ASSUME NEW w \in Files, Framed(w), NEW a, Boundary(w, a)
    PROVE  LET v == SubSeq(w, a + 1, Len(w)) IN
           /\ v \in Files /\ Len(v) = Len(w) - a
           /\ Framed(v)
           /\ Boundary(v, 0)
           /\ \A f : Stored(w, f, a) => Stored(v, f, 0)
<1> DEFINE v == SubSeq(w, a + 1, Len(w))
<1>1. Len(w) \in Nat /\ a \in Nat /\ a <= Len(w)
  BY DEF Boundary, Files
<1>2. \A i \in a + 1..Len(w) : w[i] \in CellType
  BY <1>1, ElementOfSeq DEF Files
<1>3. v \in Files /\ Len(v) = Len(w) - a
  BY <1>1, <1>2, SubSeqProperties DEF Files
<1>4. \A i \in 1..Len(v) : v[i] = w[a + i]
  BY <1>1, <1>2, <1>3, SubSeqProperties
<1> HIDE DEF v
<1>5. ASSUME NEW p \in Nat, NEW c, Size(c.len) \in Nat, WholeFrameAt(w, p, c), a <= p
      PROVE  WholeFrameAt(v, p - a, c)
  <2>1. p + Size(c.len) <= Len(w)
    BY <1>5 DEF WholeFrameAt
  <2>2. p - a \in Nat /\ (p - a) + Size(c.len) <= Len(v)
    BY <1>1, <1>3, <1>5, <2>1
  <2>3. ASSUME NEW j \in 1..Size(c.len) PROVE v[(p - a) + j] = w[p + j]
    <3>1. (p - a) + j \in 1..Len(v) /\ a + ((p - a) + j) = p + j
      BY <1>1, <1>3, <1>5, <2>2
    <3> QED BY <1>4, <3>1
  <2> QED BY <1>3, <1>5, <2>2, <2>3, WholeFrameMoves
<1>6. ASSUME NEW i \in 1..Len(v)
      PROVE  /\ v[i].at >= 1 /\ v[i].at <= Size(v[i].len) /\ v[i].at <= i
             /\ WholeFrameAt(v, i - v[i].at, v[i])
  <2> DEFINE n == a + i
  <2>1. n \in 1..Len(w) /\ v[i] = w[n] /\ n \in Nat /\ i \in Nat
    BY <1>1, <1>3, <1>4
  <2>2. w[n].at \in Nat /\ Size(w[n].len) \in Nat
    BY <2>1, FileCells
  <2>3. /\ w[n].at >= 1 /\ w[n].at <= Size(w[n].len) /\ w[n].at <= n
        /\ WholeFrameAt(w, n - w[n].at, w[n])
    <3> HIDE DEF n
    <3> QED BY <2>1, FrameOfCell
  <2>4. w[n].at <= i
    <3>1. SUFFICES ASSUME i < w[n].at PROVE FALSE
      BY <2>1, <2>2
    <3> DEFINE p == n - w[n].at
    <3>2. p \in Nat /\ p < a
      BY <1>1, <2>1, <2>2, <2>3, <3>1
    <3>3. (a + 1) - p \in 1..Size(w[n].len) /\ p + ((a + 1) - p) = a + 1 /\ (a + 1) - p > 1
      <4>1. (a + 1) - p <= w[n].at
        BY <1>1, <2>1, <2>2
      <4> HIDE DEF p, n
      <4> QED BY <1>1, <2>2, <2>3, <3>2, <4>1
    <3>4. w[a + 1].at = (a + 1) - p
      <4> HIDE DEF p
      <4>1. WholeFrameAt(w, p, w[n])
        BY <2>3 DEF p
      <4> QED BY <3>3, <4>1, WholeCells
    <3>5. a < Len(w)
      BY <1>1, <2>1
    <3> QED BY <3>3, <3>4, <3>5 DEF Boundary
  <2>5. n - w[n].at \in Nat /\ a <= n - w[n].at /\ (n - w[n].at) - a = i - w[n].at
    BY <1>1, <2>1, <2>2, <2>4, SMTT(30), ZenonT(30)
  <2>6. WholeFrameAt(v, i - w[n].at, w[n])
    BY <1>5, <2>2, <2>3, <2>5
  <2> QED BY <2>1, <2>3, <2>4, <2>6
<1>7. Boundary(v, 0)
  BY <1>1, <1>3, <1>4 DEF Boundary
<1>8. ASSUME NEW f, Stored(w, f, a) PROVE Stored(v, f, 0)
  <2>1. PICK p \in a..(Len(w) - 1) : w[p + 1].id = f /\ WholeFrameAt(w, p, w[p + 1])
    BY <1>8 DEF Stored
  <2>2. /\ p \in Nat /\ a <= p /\ p + 1 \in 1..Len(w)
        /\ (p - a) + 1 \in 1..Len(v) /\ a + ((p - a) + 1) = p + 1
        /\ p - a \in 0..(Len(v) - 1)
    BY <1>1, <1>3, <2>1
  <2>3. v[(p - a) + 1] = w[p + 1]
    BY <1>4, <2>2
  <2>4. WholeFrameAt(v, p - a, w[p + 1])
    BY <1>5, <2>1, <2>2, FileCells
  <2> QED BY <2>1, <2>2, <2>3, <2>4 DEF Stored
<1>9. Framed(v)
  BY <1>6 DEF Framed
<1> QED BY <1>3, <1>7, <1>8, <1>9 DEF v
-----------------------------------------------------------------------------
(* The inductive invariant *)

\* The positions in memory and the cursor file are where frames start, and
\* the cursor file is never ahead of what was handed out.
PositionsSound ==
    /\ pc # "idle" => up
    /\ up => Boundary(wal, read_pos) /\ write_pos = Len(wal)
    /\ pc # "recursor" => Boundary(wal, cursor)
    /\ up /\ pc # "recursor" => cursor <= read_pos
    /\ pc = "evict" => Boundary(wal, read_pos + freed)

\* NothingLost, with the file as a parameter.
Kept == \A f \in acked : taken[f] > 0 \/ f \in evicted \/ Stored(wal, f, ReadFrom)

Sound ==
    /\ Framed(wal)
    /\ PositionsSound
    /\ Kept
    /\ OnlyWholeFrames
    /\ ReaderAtReadPos

LEMMA KeptIsNothingLost == TypeOK /\ Kept => NothingLost
BY DEF TypeOK, Kept, NothingLost, StoredFrom, Stored, Taken, ReadFrom

LEMMA WalIsFile == TypeOK => wal \in Files /\ Len(wal) \in Nat
BY DEF TypeOK, Files

\* A read at a boundary finds the length of the frame there.
LEMMA HeaderAtBoundary ==
    ASSUME TypeOK, Framed(wal), NEW p, Boundary(wal, p)
    PROVE  /\ p < Len(wal) => HeaderLens(p) = {wal[p + 1].len}
           /\ p >= Len(wal) => HeaderLens(p) = {}
<1>1. wal \in Files /\ Len(wal) \in Nat /\ p \in Nat
  BY WalIsFile DEF Boundary
<1>2. ASSUME p >= Len(wal) PROVE HeaderLens(p) = {}
  BY <1>1, <1>2, ConstantTypes DEF HeaderLens
<1>3. ASSUME p < Len(wal) PROVE HeaderLens(p) = {wal[p + 1].len}
  <2>1. /\ WholeFrameAt(wal, p, wal[p + 1]) /\ p + 1 \in 1..Len(wal)
        /\ p + Size(wal[p + 1].len) <= Len(wal)
    BY <1>1, <1>3, FrameAtBoundary
  <2>2. wal[p + 1].len \in Nat
    BY <1>1, <2>1, FileCells, ConstantTypes
  <2>3. p + HeaderLen <= Len(wal)
    BY <1>1, <2>1, <2>2, ConstantTypes DEF Size
  <2>4. 1..HeaderLen \subseteq 1..Size(wal[p + 1].len)
    BY <2>2, ConstantTypes DEF Size
  <2>5. IntactHeader(p)
    BY <2>1, <2>4 DEF IntactHeader, WholeFrameAt
  <2> QED BY <1>1, <2>3, <2>5, ConstantTypes DEF HeaderLens
<1> QED BY <1>2, <1>3

\* What is stored before the place where reading goes on from is passed by.
LEMMA StoredBeyond ==
    ASSUME NEW w \in Files, Framed(w), NEW a, Boundary(w, a), NEW b, Boundary(w, b),
           a <= b, NEW f, Stored(w, f, a)
    PROVE  \/ Stored(w, f, b)
           \/ \E p \in a..(b - 1) :
                /\ Boundary(w, p) /\ p < Len(w) /\ w[p + 1].id = f
                /\ p + Size(w[p + 1].len) <= b
<1>1. Len(w) \in Nat /\ a \in Nat /\ b \in Nat
  BY DEF Boundary, Files
<1>2. PICK p \in a..(Len(w) - 1) : w[p + 1].id = f /\ WholeFrameAt(w, p, w[p + 1])
  BY DEF Stored
<1>3. p \in Nat /\ p < Len(w)
  BY <1>1, <1>2
<1>4. Boundary(w, p)
  BY <1>2, <1>3, WholeFrameAtBoundary
<1>5. CASE b <= p
  BY <1>1, <1>2, <1>5 DEF Stored
<1>6. CASE p < b
  <2>1. p + Size(w[p + 1].len) <= b
    BY <1>4, <1>6, FramesDisjoint
  <2> QED BY <1>1, <1>2, <1>3, <1>4, <1>6, <2>1
<1> QED BY <1>1, <1>3, <1>5, <1>6

LEMMA StoredEarlier ==
    ASSUME NEW w \in Files, NEW a \in Nat, NEW b \in Nat, a <= b, NEW f, Stored(w, f, b)
    PROVE  Stored(w, f, a)
BY DEF Stored, Files

LEMMA InitSound == Init => Sound
<1> SUFFICES ASSUME Init PROVE Sound
  OBVIOUS
<1>1. wal = <<>> /\ Len(wal) = 0
  BY DEF Init
<1> QED BY <1>1 DEF Init, Sound, Framed, PositionsSound, Boundary, Kept, OnlyWholeFrames, ReaderAtReadPos

\* What every step below starts from.
LEMMA SoundFacts ==
    ASSUME Typed, Sound
    PROVE  /\ wal \in Files /\ Len(wal) \in Nat /\ Framed(wal)
           /\ read_pos \in Nat /\ cursor \in Nat /\ freed \in Nat
           /\ up => Boundary(wal, read_pos) /\ read_pos <= Len(wal) /\ write_pos = Len(wal)
           /\ pc # "recursor" => Boundary(wal, cursor) /\ cursor <= Len(wal)
           /\ pc # "idle" => up
BY WalIsFile DEF Typed, TypeOK, Sound, PositionsSound, Boundary

\* A step that changes neither file, nor a position, nor what is kept.
LEMMA QuietStep ==
    ASSUME Sound, UNCHANGED <<disk, up, write_pos, read_pos>>,
           UNCHANGED <<acked, evicted, taken, junk>>,
           pc' # "idle" => up,
           pc' = "evict" => Boundary(wal, read_pos + freed)',
           pc = "recursor" => pc' = "recursor",
           ReaderAtReadPos'
    PROVE  Sound'
<1>1. PositionsSound'
  BY DEF Sound, PositionsSound, Boundary, disk
<1>2. Framed(wal)' /\ Kept' /\ OnlyWholeFrames'
  BY DEF Sound, Framed, WholeFrameAt, Kept, Stored, ReadFrom, OnlyWholeFrames, disk
<1> QED BY <1>1, <1>2 DEF Sound

LEMMA OpenSound == Typed /\ Sound /\ Open => Sound'
<1> SUFFICES ASSUME Typed, Sound, Open PROVE Sound'
  OBVIOUS
<1>1. /\ wal' = wal /\ up' = TRUE /\ ~up /\ pc = "idle" /\ pc' = pc
      /\ UNCHANGED <<acked, evicted, taken, junk>> /\ reader' = None
  BY DEF Open, control, history, Sound, PositionsSound
<1>2. ResumePos = cursor /\ Boundary(wal, cursor) /\ cursor \in Nat
  BY <1>1, SoundFacts DEF ResumePos, MinOf
<1>3. read_pos' = cursor /\ cursor' = cursor /\ write_pos' = Len(wal)
  BY <1>2 DEF Open, PersistCursor
<1>4. PositionsSound'
  BY <1>1, <1>2, <1>3 DEF PositionsSound
<1>5. Kept'
  BY <1>1, <1>3 DEF Sound, Kept, ReadFrom
<1> QED BY <1>1, <1>4, <1>5 DEF Sound, OnlyWholeFrames, ReaderAtReadPos

LEMMA CloseSound == MildFailures /\ Typed /\ Sound /\ Close => Sound'
<1> SUFFICES ASSUME MildFailures, Typed, Sound, Close PROVE Sound'
  OBVIOUS
<1>1. /\ wal' = wal /\ up' = FALSE /\ up /\ pc = "idle" /\ pc' = "idle"
      /\ UNCHANGED <<acked, evicted, taken, junk>> /\ reader' = None
  BY DEF Close, Forget, Return, history
<1>2. cursor' \in {read_pos, cursor}
  BY DEF Close, LastPersist
<1>3. /\ wal \in Files /\ cursor \in Nat /\ read_pos \in Nat /\ cursor <= read_pos
      /\ Boundary(wal, cursor) /\ Boundary(wal, read_pos)
  BY <1>1, SoundFacts DEF Sound, PositionsSound
<1>4. PositionsSound'
  BY <1>1, <1>2, <1>3 DEF PositionsSound
<1>5. Kept'
  <2> SUFFICES ASSUME NEW f \in acked, ~(taken[f] > 0), f \notin evicted
               PROVE  Stored(wal, f, cursor')
    BY <1>1 DEF Kept, ReadFrom
  <2>1. Stored(wal, f, read_pos)
    BY <1>1 DEF Sound, Kept, ReadFrom
  <2> QED BY <1>2, <1>3, <2>1, StoredEarlier
<1> QED BY <1>1, <1>4, <1>5 DEF Sound, OnlyWholeFrames, ReaderAtReadPos

\* The file of a process that dies is the old one, or that with one more frame.
LEMMA CrashFile ==
    ASSUME MildFailures, Typed, Crash
    PROVE  \/ wal' = wal
           \/ /\ pc = "write" /\ written + 1 \in Ids /\ pending \in BodyLens
              /\ wal' = wal \o FrameCells(written + 1, pending)
<1>1. CASE pc = "write"
  <2>1. written + 1 \in Ids /\ pending \in BodyLens
    BY <1>1, ConstantTypes DEF Typed, TypeOK, ControlOK, Ids
  <2> DEFINE g == FrameCells(written + 1, pending)
  <2>2. PICK k \in {0, Size(pending)} : wal' = wal \o SubSeq(g, 1, k)
    BY <1>1 DEF Crash, MildFailures
  <2>3. g \in Files /\ Len(g) = Size(pending)
    BY <2>1, FrameCellsType DEF Files
  <2> HIDE DEF g
  <2>4. SubSeq(g, 1, 0) = <<>> /\ SubSeq(g, 1, Len(g)) = g
    BY <2>3, SubSeqEmpty, SubSeqFull DEF Files
  <2>5. wal \o <<>> = wal
    BY WalIsFile, ConcatEmptySeq DEF Typed, Files
  <2> QED BY <1>1, <2>1, <2>2, <2>3, <2>4, <2>5 DEF g
<1>2. CASE pc # "write"
  BY <1>2 DEF Crash
<1> QED BY <1>1, <1>2

LEMMA CrashSound == MildFailures /\ Typed /\ Sound /\ Crash => Sound'
<1> SUFFICES ASSUME MildFailures, Typed, Sound, Crash PROVE Sound'
  OBVIOUS
<1>1. /\ up' = FALSE /\ up /\ pc # "recursor" /\ pc' = "idle" /\ cursor' = cursor
      /\ UNCHANGED <<acked, evicted, taken, junk>> /\ reader' = None
  BY DEF Crash, Forget, Return, MildFailures
<1>2. /\ wal \in Files /\ Framed(wal) /\ Boundary(wal, cursor)
      /\ cursor \in Nat /\ read_pos \in Nat /\ cursor <= read_pos
  BY <1>1, SoundFacts DEF Sound, PositionsSound
<1>3. /\ Framed(wal') /\ Boundary(wal', cursor)
      /\ \A f, from : from \in Nat /\ Stored(wal, f, from) => Stored(wal', f, from)
  <2>1. CASE wal' = wal
    BY <1>2, <2>1
  <2>2. CASE /\ pc = "write" /\ written + 1 \in Ids /\ pending \in BodyLens
             /\ wal' = wal \o FrameCells(written + 1, pending)
    BY <1>2, <2>2, AppendFrame
  <2> QED BY <2>1, <2>2, CrashFile
<1>4. PositionsSound'
  BY <1>1, <1>3 DEF PositionsSound
<1>5. Kept'
  <2> SUFFICES ASSUME NEW f \in acked, ~(taken[f] > 0), f \notin evicted
               PROVE  Stored(wal', f, cursor)
    BY <1>1 DEF Kept, ReadFrom
  <2>1. Stored(wal, f, read_pos)
    BY <1>1 DEF Sound, Kept, ReadFrom
  <2>2. Stored(wal, f, cursor)
    BY <1>2, <2>1, StoredEarlier
  <2> QED BY <1>2, <1>3, <2>2
<1> QED BY <1>1, <1>3, <1>4, <1>5 DEF Sound, OnlyWholeFrames, ReaderAtReadPos

\* The scan goes from boundary to boundary.
LEMMA EvictScanSound == Typed /\ Sound /\ EvictScan => Sound'
<1> SUFFICES ASSUME Typed, Sound, EvictScan PROVE Sound'
  OBVIOUS
<1> DEFINE p == read_pos + freed
<1>1. pc = "evict" /\ Boundary(wal, p) /\ wal \in Files /\ Framed(wal) /\ up
  BY SoundFacts DEF EvictScan, Sound, PositionsSound
<1>2. PICK len \in HeaderLens(p) : freed' = freed + Size(len)
  BY DEF EvictScan
<1>3. p < Len(wal) /\ len = wal[p + 1].len
  BY <1>1, <1>2, SoundFacts, HeaderAtBoundary DEF Typed
<1>4. p + Size(len) = read_pos + freed'
  <2>1. Size(len) \in Nat
    BY <1>1, <1>3, FrameAtBoundary, FileCells
  <2> QED BY <1>2, <2>1, SoundFacts
<1>5. Boundary(wal, read_pos + freed')
  <2>1. Boundary(wal, p + Size(wal[p + 1].len))
    BY <1>1, <1>3, BoundaryAfterFrame
  <2> QED BY <1>3, <1>4, <2>1
<1> QED BY <1>1, <1>5, QuietStep
        DEF EvictScan, Sound, ReaderAtReadPos, disk, memory, history

\* What eviction skips is what it gives up.
LEMMA EvictPersistSound == MildFailures /\ Typed /\ Sound /\ EvictPersist => Sound'
<1> SUFFICES ASSUME MildFailures, Typed, Sound, EvictPersist PROVE Sound'
  OBVIOUS
<1>1. /\ pc = "evict" /\ up /\ wal \in Files /\ Framed(wal) /\ Len(wal) \in Nat
      /\ read_pos \in Nat /\ freed \in Nat /\ write_pos = Len(wal)
      /\ Boundary(wal, read_pos) /\ Boundary(wal, read_pos + freed)
  BY SoundFacts DEF EvictPersist, Sound, PositionsSound
<1>2. EvictTo = read_pos + freed
  BY <1>1 DEF EvictTo, MinOf, Boundary
<1>3. /\ read_pos' = EvictTo /\ cursor' \in {EvictTo, cursor} /\ reader' = None
      /\ wal' = wal /\ up' = up /\ write_pos' = write_pos
      /\ pc' \in {"compact", "idle", "write"}
      /\ UNCHANGED <<acked, taken, junk>>
      /\ evicted' = evicted \cup IdsBetween(read_pos, EvictTo)
  BY DEF EvictPersist, DropReader, PersistCursor, MaybeCompact, AfterCompact, Return
<1>4. /\ EvictTo \in Nat /\ Boundary(wal, EvictTo) /\ read_pos <= EvictTo
      /\ Boundary(wal, cursor') /\ cursor' <= EvictTo
  BY <1>1, <1>2, <1>3, SoundFacts DEF Sound, PositionsSound
<1>5. PositionsSound'
  BY <1>1, <1>3, <1>4 DEF PositionsSound
<1>6. Kept'
  <2> SUFFICES ASSUME NEW f \in acked, ~(taken[f] > 0), f \notin evicted'
               PROVE  Stored(wal, f, EvictTo)
    BY <1>1, <1>3 DEF Kept, ReadFrom
  <2>1. Stored(wal, f, read_pos)
    BY <1>1, <1>3 DEF Sound, Kept, ReadFrom
  <2>2. SUFFICES ASSUME NEW p \in read_pos..(EvictTo - 1),
                        Boundary(wal, p), p < Len(wal), wal[p + 1].id = f,
                        p + Size(wal[p + 1].len) <= EvictTo
                 PROVE  FALSE
    BY <1>1, <1>4, <2>1, StoredBeyond
  <2> DEFINE z == Size(wal[p + 1].len)
             q == p + z
  <2>3. WholeFrameAt(wal, p, wal[p + 1]) /\ p + 1 \in 1..Len(wal) /\ q <= Len(wal) /\ p \in Nat
    BY <1>1, <2>2, FrameAtBoundary
  <2>4. z \in Nat /\ z > 0
    BY <1>1, <2>3, FileCells
  <2>5. wal[q].id = f /\ wal[q].len = wal[p + 1].len /\ wal[q].at = z
    BY <2>2, <2>3, <2>4, WholeCells
  <2>6. q \in 1..Len(wal) /\ q > read_pos /\ q <= EvictTo
    BY <1>1, <1>4, <2>2, <2>3, <2>4
  <2>7. f \in IdsBetween(read_pos, EvictTo)
    <3> HIDE DEF q
    <3> QED BY <2>5, <2>6 DEF IdsBetween
  <2> QED BY <1>3, <2>7
<1> QED BY <1>1, <1>3, <1>5, <1>6 DEF Sound, OnlyWholeFrames, ReaderAtReadPos

LEMMA WriteFrameSound == Typed /\ Sound /\ WriteFrame => Sound'
<1> SUFFICES ASSUME Typed, Sound, WriteFrame PROVE Sound'
  OBVIOUS
<1> DEFINE id == written + 1
<1>1. id \in Ids /\ pending \in BodyLens
  BY ConstantTypes DEF WriteFrame, Typed, TypeOK, ControlOK, Ids
<1>2. /\ pc = "write" /\ up /\ wal \in Files /\ Framed(wal) /\ Len(wal) \in Nat
      /\ write_pos = Len(wal) /\ read_pos \in Nat /\ read_pos <= Len(wal) /\ cursor \in Nat
      /\ cursor <= read_pos /\ Boundary(wal, read_pos) /\ Boundary(wal, cursor)
  BY SoundFacts DEF WriteFrame, Sound, PositionsSound
<1>3. /\ wal' = wal \o FrameCells(id, pending) /\ write_pos' = write_pos + Size(pending)
      /\ acked' = acked \cup {id} /\ pc' = "idle" /\ up' = up /\ read_pos' = read_pos
      /\ UNCHANGED <<cursor, reader, evicted, taken, junk>>
  BY DEF WriteFrame, Return
<1>4. /\ Len(wal') = Len(wal) + Size(pending) /\ Framed(wal')
      /\ Boundary(wal', read_pos) /\ Boundary(wal', cursor)
      /\ \A f : Stored(wal, f, read_pos) => Stored(wal', f, read_pos)
      /\ Stored(wal', id, read_pos)
  <2> HIDE DEF id
  <2>1. read_pos \in 0..Len(wal)
    BY <1>2
  <2> QED BY <1>1, <1>2, <1>3, <2>1, AppendFrame
<1>5. PositionsSound'
  BY <1>2, <1>3, <1>4 DEF PositionsSound
<1>6. Kept'
  <2> SUFFICES ASSUME NEW f \in acked', ~(taken[f] > 0), f \notin evicted
               PROVE  Stored(wal', f, read_pos)
    BY <1>2, <1>3 DEF Kept, ReadFrom
  <2>1. CASE f = id
    BY <1>4, <2>1
  <2>2. CASE f \in acked
    BY <1>2, <1>4, <2>2 DEF Sound, Kept, ReadFrom
  <2> QED BY <1>3, <2>1, <2>2
<1> QED BY <1>3, <1>4, <1>5, <1>6 DEF Sound, OnlyWholeFrames, ReaderAtReadPos

\* drain_next never has to skip.
LEMMA DrainNeverSkips == Typed /\ Sound => ~DrainSkips
<1> SUFFICES ASSUME Typed, Sound, DrainSkips PROVE FALSE
  OBVIOUS
<1>1. /\ up /\ wal \in Files /\ Framed(wal) /\ Boundary(wal, read_pos)
      /\ read_pos < Len(wal) /\ write_pos = Len(wal) /\ ReaderPos = read_pos
  BY SoundFacts DEF DrainSkips, DrainMayRead, Sound, PositionsSound, ReaderAtReadPos, ReaderPos
<1>2. HeaderLens(read_pos) = {wal[read_pos + 1].len}
  BY <1>1, HeaderAtBoundary DEF Typed
<1>3. wal[read_pos + 1].len <= MaxFrameLen /\ read_pos + Size(wal[read_pos + 1].len) <= Len(wal)
  BY <1>1, FrameAtBoundary, FileCells, ConstantTypes
<1>4. read_pos \in Nat /\ Len(wal) \in Nat /\ wal[read_pos + 1].len \in Nat
      /\ Size(wal[read_pos + 1].len) \in Nat
  BY <1>1, FrameAtBoundary, FileCells, SoundFacts, ConstantTypes
<1> QED BY <1>1, <1>2, <1>3, <1>4, ConstantTypes, SMTT(30), ZenonT(30) DEF DrainSkips

\* The frame at read_pos is handed out; the others stay.
LEMMA DrainFrameSound == Typed /\ Sound /\ DrainFrame => Sound'
<1> SUFFICES ASSUME Typed, Sound, DrainFrame PROVE Sound'
  OBVIOUS
<1> DEFINE c == wal[read_pos + 1]
           b == read_pos + Size(c.len)
<1>1. /\ up /\ pc = "idle" /\ wal \in Files /\ Framed(wal) /\ Boundary(wal, read_pos)
      /\ read_pos < Len(wal) /\ write_pos = Len(wal) /\ ReaderPos = read_pos
      /\ read_pos \in Nat /\ Len(wal) \in Nat
      /\ cursor <= read_pos /\ Boundary(wal, cursor) /\ cursor \in Nat
  BY SoundFacts DEF DrainFrame, DrainMayRead, Sound, PositionsSound, ReaderAtReadPos, ReaderPos
<1>2. HeaderLens(read_pos) = {c.len}
  BY <1>1, HeaderAtBoundary DEF Typed
<1>3. WholeFrameAt(wal, read_pos, c) /\ Boundary(wal, read_pos + Size(c.len)) /\ read_pos + 1 \in 1..Len(wal)
  BY <1>1, FrameAtBoundary, BoundaryAfterFrame
<1>4. Size(c.len) \in Nat /\ c.id \in Ids
  BY <1>1, <1>3, FileCells
<1>5. /\ read_pos' = read_pos + Size(c.len) /\ reader' = read_pos'
      /\ taken' = [taken EXCEPT ![c.id] = @ + 1] /\ junk' = junk
      /\ wal' = wal /\ cursor' = cursor /\ up' = up /\ write_pos' = write_pos /\ pc' = pc
      /\ UNCHANGED <<acked, evicted>>
  BY <1>1, <1>2, <1>3 DEF DrainFrame, disk, control
<1>6. PositionsSound'
  BY <1>1, <1>3, <1>4, <1>5 DEF PositionsSound
<1>7. Kept'
  <2> SUFFICES ASSUME NEW f \in acked, ~(taken'[f] > 0), f \notin evicted
               PROVE  Stored(wal, f, b)
    BY <1>1, <1>5 DEF Kept, ReadFrom
  <2>1. taken \in [Ids -> Nat] /\ f \in Ids
    BY DEF Typed, TypeOK
  <2>2. f # c.id /\ ~(taken[f] > 0)
    <3>1. taken[c.id] \in Nat /\ taken'[c.id] = taken[c.id] + 1
      BY <1>4, <1>5, <2>1
    <3>2. f # c.id
      BY <3>1
    <3> QED BY <1>5, <2>1, <3>2
  <2>3. Stored(wal, f, read_pos)
    BY <1>1, <2>2 DEF Sound, Kept, ReadFrom
  <2>4. SUFFICES ASSUME NEW p \in read_pos..(b - 1),
                        Boundary(wal, p), p < Len(wal), wal[p + 1].id = f
                 PROVE  FALSE
    <3>1. Boundary(wal, b) /\ read_pos <= b
      BY <1>1, <1>3, <1>4
    <3> HIDE DEF b
    <3> QED BY <1>1, <2>3, <3>1, StoredBeyond
  <2>5. CASE p = read_pos
    BY <2>2, <2>4, <2>5
  <2>6. CASE p > read_pos
    <3>1. read_pos + Size(c.len) <= p
      BY <1>1, <2>4, <2>6, FramesDisjoint
    <3> QED BY <1>1, <1>4, <2>4, <3>1
  <2> QED BY <1>1, <2>4, <2>5, <2>6
<1> QED BY <1>1, <1>5, <1>6, <1>7 DEF Sound, OnlyWholeFrames, ReaderAtReadPos

LEMMA CommitSound == MildFailures /\ Typed /\ Sound /\ Commit => Sound'
<1> SUFFICES ASSUME MildFailures, Typed, Sound, Commit PROVE Sound'
  OBVIOUS
<1>1. /\ up /\ Boundary(wal, read_pos) /\ write_pos = Len(wal) /\ read_pos \in Nat
  BY SoundFacts DEF Commit
<1>2. /\ cursor' \in {read_pos, cursor} /\ pc = "idle" /\ pc' \in {"compact", "idle", "write"}
      /\ UNCHANGED <<wal, up, write_pos, read_pos, reader, acked, evicted, taken, junk>>
  BY DEF Commit, PersistCursor, MaybeCompact, AfterCompact, history
<1>3. PositionsSound'
  <2>1. Boundary(wal, cursor') /\ cursor' <= read_pos
    BY <1>1, <1>2, SoundFacts DEF Sound, PositionsSound
  <2> QED BY <1>1, <1>2, <2>1 DEF PositionsSound
<1>4. Kept'
  BY <1>1, <1>2 DEF Sound, Kept, ReadFrom
<1> QED BY <1>2, <1>3, <1>4 DEF Sound, OnlyWholeFrames, ReaderAtReadPos

\* The unread frames are all that the new file needs.
LEMMA CompactRenameSound == Typed /\ Sound /\ CompactRename => Sound'
<1> SUFFICES ASSUME Typed, Sound, CompactRename PROVE Sound'
  OBVIOUS
<1>1. /\ up /\ wal \in Files /\ Framed(wal) /\ Boundary(wal, read_pos)
      /\ write_pos = Len(wal) /\ read_pos \in Nat /\ Len(wal) \in Nat
  BY SoundFacts DEF CompactRename
<1>2. /\ wal' = SubSeq(wal, read_pos + 1, Len(wal)) /\ write_pos' = Len(wal) - read_pos
      /\ read_pos' = 0 /\ reader' = None /\ pc' = "recursor" /\ up' = up
      /\ UNCHANGED <<acked, evicted, taken, junk>>
  BY <1>1 DEF CompactRename, Remaining, DropReader, history
<1>3. /\ Len(wal') = Len(wal) - read_pos /\ Framed(wal') /\ Boundary(wal', 0)
      /\ \A f : Stored(wal, f, read_pos) => Stored(wal', f, 0)
  BY <1>1, <1>2, SuffixFromBoundary
<1>4. PositionsSound'
  BY <1>1, <1>2, <1>3 DEF PositionsSound
<1>5. Kept'
  BY <1>1, <1>2, <1>3 DEF Sound, Kept, ReadFrom
<1> QED BY <1>2, <1>3, <1>4, <1>5 DEF Sound, OnlyWholeFrames, ReaderAtReadPos

\* Nothing is stored from the end of the file on.
LEMMA CompactTruncateSound == Typed /\ Sound /\ CompactTruncate => Sound'
<1> SUFFICES ASSUME Typed, Sound, CompactTruncate PROVE Sound'
  OBVIOUS
<1>1. /\ up /\ write_pos = Len(wal) /\ read_pos >= Len(wal)
      /\ read_pos \in Nat /\ Len(wal) \in Nat
  BY SoundFacts DEF CompactTruncate
<1>2. /\ wal' = <<>> /\ Len(wal') = 0 /\ write_pos' = 0
      /\ read_pos' = 0 /\ reader' = None /\ pc' = "recursor" /\ up' = up
      /\ UNCHANGED <<acked, evicted, taken, junk>>
  BY DEF CompactTruncate, DropReader, history
<1>3. Framed(wal') /\ Boundary(wal', 0)
  BY <1>2 DEF Framed, Boundary
<1>4. \A f : ~Stored(wal, f, read_pos)
  BY <1>1 DEF Stored
<1>5. PositionsSound'
  BY <1>1, <1>2, <1>3 DEF PositionsSound
<1>6. Kept'
  BY <1>1, <1>2, <1>4 DEF Sound, Kept, ReadFrom
<1> QED BY <1>2, <1>3, <1>5, <1>6 DEF Sound, OnlyWholeFrames, ReaderAtReadPos

LEMMA CompactPersistSound == MildFailures /\ Typed /\ Sound /\ CompactPersist => Sound'
<1> SUFFICES ASSUME MildFailures, Typed, Sound, CompactPersist PROVE Sound'
  OBVIOUS
<1>1. /\ up /\ Boundary(wal, read_pos) /\ write_pos = Len(wal) /\ read_pos \in Nat
  BY SoundFacts DEF CompactPersist
<1>2. /\ cursor' = read_pos /\ pc' \in {"idle", "write"}
      /\ UNCHANGED <<wal, up, write_pos, read_pos, reader, acked, evicted, taken, junk>>
  BY DEF CompactPersist, PersistCursor, AfterCompact, Fault, MildFailures, history
<1>3. PositionsSound'
  BY <1>1, <1>2 DEF PositionsSound
<1>4. Kept'
  BY <1>1, <1>2 DEF Sound, Kept, ReadFrom
<1> QED BY <1>2, <1>3, <1>4 DEF Sound, OnlyWholeFrames, ReaderAtReadPos

LEMMA NextSound == MildFailures /\ Typed /\ Sound /\ [Next]_vars => Sound'
<1> SUFFICES ASSUME MildFailures, Typed, Sound, [Next]_vars PROVE Sound'
  OBVIOUS
<1>1. CASE \E len \in BodyLens : AppendStart(len)
  <2>1. PICK len \in BodyLens : AppendStart(len)
    BY <1>1
  <2>2. up /\ pc = "idle" /\ freed' = 0 /\ pc' \in {"write", "evict"}
    BY <2>1 DEF AppendStart
  <2>3. Boundary(wal, read_pos + 0) /\ read_pos' = read_pos /\ wal' = wal
    BY <2>1, <2>2, SoundFacts DEF AppendStart, disk, memory
  <2> QED BY <2>1, <2>2, <2>3, QuietStep DEF AppendStart, Sound, ReaderAtReadPos, disk, memory, history
<1>2. CASE CompactFails
  <2>1. /\ pc = "compact" /\ pc' = "idle" /\ reader' \in {reader, None}
        /\ UNCHANGED <<disk, up, write_pos, read_pos, acked, evicted, taken, junk>>
    BY <1>2 DEF CompactFails, Return, history
  <2> QED BY <2>1, QuietStep DEF Sound, ReaderAtReadPos
<1>3. CASE EvictReadFails \/ WriteFails \/ DrainReadFails \/ CompactReopenFails
  BY <1>3 DEF EvictReadFails, WriteFails, DrainReadFails, CompactReopenFails, Fault, MildFailures
<1>4. CASE UNCHANGED vars
  <2>1. PositionsSound'
    BY <1>4 DEF vars, Sound, PositionsSound, Boundary
  <2> QED BY <1>4, <2>1 DEF vars, Sound, Framed, WholeFrameAt, Kept, Stored, ReadFrom,
                            OnlyWholeFrames, ReaderAtReadPos
<1>5. CASE Open \/ Close \/ Crash \/ EvictScan \/ EvictPersist \/ WriteFrame
  BY <1>5, OpenSound, CloseSound, CrashSound, EvictScanSound, EvictPersistSound, WriteFrameSound
<1>6. CASE \/ DrainFrame \/ DrainSkips \/ Commit \/ CompactRename \/ CompactTruncate
           \/ CompactPersist
  BY <1>6, DrainFrameSound, DrainNeverSkips, CommitSound, CompactRenameSound,
     CompactTruncateSound, CompactPersistSound
<1> QED BY <1>1, <1>2, <1>3, <1>4, <1>5, <1>6 DEF Next

LEMMA AlwaysSound == ASSUME MildFailures PROVE Spec => []Sound
<1>1. Typed /\ Sound /\ [Next]_vars => Sound'
  BY NextSound
<1> QED BY <1>1, InitSound, AlwaysTyped, PTL DEF Spec

\* NothingLost: until it is handed out or given up to make room, a frame
\* whose append returned Ok is in the file where a drain, or a drain after a
\* crash and a restart, finds it.
THEOREM NoFrameLost == ASSUME MildFailures PROVE Spec => []NothingLost
<1>1. Typed /\ Sound => NothingLost
  BY KeptIsNothingLost DEF Typed, Sound
<1> QED BY <1>1, AlwaysSound, AlwaysTyped, PTL

\* OnlyWholeFrames: what drain_next returns is a frame that was appended, and
\* it never meets a length it has to distrust.
THEOREM NoRubbish == ASSUME MildFailures PROVE Spec => []OnlyWholeFrames
<1>1. Sound => OnlyWholeFrames
  BY DEF Sound
<1> QED BY <1>1, AlwaysSound, PTL
-----------------------------------------------------------------------------
(* The size limit *)

\* An append that has made room has made enough of it, or all there was.
RoomMade ==
    pc \in {"compact", "recursor", "write"} /\ pending # None =>
        Remaining + Size(pending) <= MaxBytes \/ Remaining = 0

LEMMA PendingSize ==
    TypeOK /\ pending # None => pending \in BodyLens /\ Size(pending) \in Nat /\ Size(pending) > 0
BY FrameCellsType, ConstantTypes, SizeType DEF TypeOK

\* The scan ends with enough freed or at the end of the file.
LEMMA EnoughScanned ==
    ASSUME Typed, Sound, pc = "evict", ScanEnds
    PROVE  freed >= MustFree \/ read_pos + freed = Len(wal)
<1>1. PICK p \in Nat : p = read_pos + freed
  BY SoundFacts
<1>2. Boundary(wal, p) /\ wal \in Files /\ Framed(wal) /\ up /\ Len(wal) \in Nat /\ p <= Len(wal)
  BY <1>1, SoundFacts DEF Sound, PositionsSound, Boundary
<1>3. SUFFICES ASSUME p < Len(wal) PROVE freed >= MustFree
  BY <1>1, <1>2
<1>4. HeaderLens(p) = {wal[p + 1].len} /\ wal[p + 1].len \in Nat /\ wal[p + 1].len <= MaxFrameLen
  BY <1>2, <1>3, HeaderAtBoundary, FrameAtBoundary, FileCells, ConstantTypes DEF Typed
<1>5. ~ScanGoesOn
  BY <1>1, <1>4, ConstantTypes DEF ScanEnds
<1>6. MustFree \in Int /\ freed \in Nat
  BY ConstantTypes, PendingSize DEF MustFree, Remaining, Typed, TypeOK, ControlOK
<1> QED BY <1>5, <1>6 DEF ScanGoesOn

\* So an eviction has made room for the frame, or left nothing else unread.
LEMMA EvictMakesRoom ==
    ASSUME MildFailures, Typed, Sound, EvictPersist
    PROVE  RoomMade'
<1> SUFFICES ASSUME pc' # "idle" PROVE Remaining' + Size(pending') <= MaxBytes \/ Remaining' = 0
  BY DEF RoomMade
<1>1. /\ pc = "evict" /\ up /\ wal \in Files /\ Framed(wal) /\ Len(wal) \in Nat
      /\ read_pos \in Nat /\ freed \in Nat /\ write_pos = Len(wal)
      /\ Boundary(wal, read_pos) /\ Boundary(wal, read_pos + freed) /\ pending # None
  BY SoundFacts DEF EvictPersist, Sound, PositionsSound, Typed, ControlOK
<1>2. EvictTo = read_pos + freed /\ read_pos + freed <= write_pos
  BY <1>1 DEF EvictTo, MinOf, Boundary
<1>3. read_pos' = read_pos + freed /\ write_pos' = write_pos /\ pending' = pending
  BY <1>1, <1>2 DEF EvictPersist, Return
<1>4. Remaining' = (write_pos - read_pos) - freed
  BY <1>1, <1>3 DEF Remaining
<1>5. Size(pending) \in Nat
  BY <1>1, PendingSize DEF Typed
<1>6. freed >= MustFree \/ read_pos + freed = Len(wal)
  BY <1>1, EnoughScanned DEF EvictPersist
<1>7. CASE freed >= MustFree
  BY <1>1, <1>3, <1>4, <1>5, <1>7, ConstantTypes DEF MustFree, Remaining
<1>8. CASE read_pos + freed = Len(wal)
  BY <1>1, <1>4, <1>8
<1> QED BY <1>6, <1>7, <1>8

LEMMA NextRoom == MildFailures /\ Typed /\ Sound /\ RoomMade /\ [Next]_vars => RoomMade'
<1> SUFFICES ASSUME MildFailures, Typed, Sound, RoomMade, [Next]_vars PROVE RoomMade'
  OBVIOUS
<1>1. CASE \E len \in BodyLens : AppendStart(len)
  <2>1. PICK len \in BodyLens : AppendStart(len)
    BY <1>1
  <2> QED BY <2>1 DEF AppendStart, RoomMade, Remaining, memory
<1>2. CASE EvictPersist
  BY <1>2, EvictMakesRoom
<1>3. CASE CompactRename
  <2>1. /\ write_pos' = write_pos - read_pos /\ read_pos' = 0 /\ pending' = pending
        /\ pc = "compact"
    BY <1>3 DEF CompactRename, Remaining
  <2>2. Remaining' = Remaining
    BY <2>1 DEF Remaining, Typed, TypeOK
  <2> QED BY <2>1, <2>2 DEF RoomMade
<1>4. CASE CompactTruncate
  BY <1>4 DEF CompactTruncate, RoomMade, Remaining
<1>5. CASE CompactPersist
  <2>1. pc = "recursor" /\ UNCHANGED <<write_pos, read_pos, pending>>
    BY <1>5 DEF CompactPersist, Fault, MildFailures
  <2> QED BY <2>1 DEF RoomMade, Remaining
<1>6. CASE Commit
  <2>1. pending' = pending /\ UNCHANGED <<write_pos, read_pos>> /\ pc = "idle"
    BY <1>6 DEF Commit
  <2>2. pending = None
    BY <2>1 DEF Typed, ControlOK
  <2> QED BY <2>1, <2>2 DEF RoomMade
<1>7. CASE Open \/ Close \/ Crash \/ EvictScan \/ WriteFrame \/ CompactFails
           \/ EvictReadFails \/ WriteFails \/ CompactReopenFails
  BY <1>7 DEF Open, Close, Crash, EvictScan, WriteFrame, CompactFails, EvictReadFails,
              WriteFails, CompactReopenFails, Forget, Return, Fault, MildFailures,
              Sound, PositionsSound, RoomMade, control
<1>8. CASE DrainFrame \/ DrainSkips \/ DrainReadFails
  BY <1>8 DEF DrainFrame, DrainSkips, DrainReadFails, DrainMayRead, ResetToEnd, RoomMade, control
<1>9. CASE UNCHANGED vars
  BY <1>9 DEF vars, RoomMade, Remaining
<1> QED BY <1>1, <1>2, <1>3, <1>4, <1>5, <1>6, <1>7, <1>8, <1>9 DEF Next

LEMMA AlwaysRoom == ASSUME MildFailures PROVE Spec => []RoomMade
<1>1. Init => RoomMade
  BY DEF Init, RoomMade
<1>2. Typed /\ Sound /\ RoomMade /\ [Next]_vars => RoomMade'
  BY NextRoom
<1> QED BY <1>1, <1>2, AlwaysSound, AlwaysTyped, PTL DEF Spec

\* AppendRespectsLimit: after an append, what is unread fits max_bytes or is
\* the one frame that is larger than max_bytes.
THEOREM LimitRespected == ASSUME MildFailures PROVE Spec => AppendRespectsLimit
<1> DEFINE A == acked' # acked =>
                  \/ write_pos' - read_pos' <= MaxBytes
                  \/ write_pos' - read_pos' = Size(pending)
<1>1. Typed /\ RoomMade /\ [Next]_vars => [A]_vars
  <2> SUFFICES ASSUME Typed, RoomMade, Next, acked' # acked
               PROVE  \/ write_pos' - read_pos' <= MaxBytes
                      \/ write_pos' - read_pos' = Size(pending)
    BY DEF vars
  <2>1. WriteFrame
    BY DEF Next, Open, Close, Crash, AppendStart, EvictScan, EvictPersist, EvictReadFails,
           WriteFails, DrainFrame, DrainSkips, ResetToEnd, DrainReadFails, Commit, CompactRename,
           CompactTruncate, CompactFails, CompactReopenFails, CompactPersist, history
  <2>2. pc = "write" /\ pending # None /\ read_pos' = read_pos
        /\ write_pos' = write_pos + Size(pending)
    BY <2>1 DEF WriteFrame, Typed, ControlOK
  <2>3. Remaining + Size(pending) <= MaxBytes \/ Remaining = 0
    BY <2>2 DEF RoomMade
  <2>4. write_pos \in Nat /\ read_pos \in Nat /\ Size(pending) \in Nat
    BY <2>2, PendingSize DEF Typed, TypeOK
  <2> QED BY <2>2, <2>3, <2>4, ConstantTypes DEF Remaining
<1> QED BY <1>1, AlwaysRoom, AlwaysTyped, PTL DEF Spec, AppendRespectsLimit

-----------------------------------------------------------------------------
(* How often a frame is handed out *)

\* Cell c lies before cell d in every file that holds both.
Before(c, d) == c.id < d.id \/ (c.id = d.id /\ c.len = d.len /\ c.at < d.at)

\* What any file holds, whatever failed: parts of frames in the order in
\* which they were written.
InOrder(w, n) ==
    /\ \A q, r \in 1..Len(w) : q < r => Before(w[q], w[r])
    /\ \A q \in 1..Len(w) : w[q].id <= n /\ w[q].at <= Size(w[q].len)

\* A cell of frame f lies beyond the offset p.
Beyond(w, f, p) == \E q \in 1..Len(w) : q > p /\ w[q].id = f

Troubles == crashes + faults

\* A failed read has left the reader elsewhere than at read_pos.
Astray == reader \notin {None, read_pos}

\* What may still be handed out was handed out once less than the bound says.
\* A reader that went astray hands frames out that are read again when it is
\* dropped, so that they must have been handed out once less yet.
Resent ==
    /\ InOrder(wal, written)
    /\ \A f \in Ids : f > written => taken[f] = 0
    /\ reader = None \/ reader >= read_pos
    /\ Astray => Troubles > 0
    /\ \A f \in Ids : /\ taken[f] <= 1 + Troubles
                      /\ Beyond(wal, f, ReadFrom) => taken[f] <= Troubles
                      /\ (Astray /\ Beyond(wal, f, reader)) => taken[f] < Troubles

LEMMA SuffixInOrder ==
    ASSUME NEW w \in Seq(CellType), NEW n \in Nat, InOrder(w, n),
           NEW a \in 0..Len(w), NEW b \in 0..Len(w), a <= b
    PROVE  /\ InOrder(SubSeq(w, a + 1, b), n)
           /\ \A f, p \in Nat : Beyond(SubSeq(w, a + 1, b), f, p) => Beyond(w, f, a)
<1> DEFINE s == SubSeq(w, a + 1, b)
<1>1. Len(w) \in Nat
  OBVIOUS
<1>2. Len(s) = b - a /\ \A q \in 1..(b - a) : s[q] = w[a + q]
  BY <1>1, SubSeqProperties
<1>3. \A q \in 1..(b - a) : a + q \in 1..Len(w) /\ a + q > a
  BY <1>1
<1>4. \A q, r \in 1..(b - a) : q < r => a + q < a + r
  BY <1>1
<1> HIDE DEF s
<1>5. InOrder(s, n)
  BY <1>2, <1>3, <1>4 DEF InOrder
<1>6. ASSUME NEW f \in Nat, NEW p \in Nat, Beyond(s, f, p) PROVE Beyond(w, f, a)
  BY <1>2, <1>3, <1>6 DEF Beyond
<1> QED BY <1>5, <1>6 DEF s

LEMMA AppendInOrder ==
    ASSUME NEW w \in Seq(CellType), NEW n \in Nat, n + 1 \in Ids, InOrder(w, n),
           NEW len \in BodyLens, NEW k \in 0..Size(len)
    PROVE  LET v == w \o SubSeq(FrameCells(n + 1, len), 1, k)
           IN  /\ InOrder(v, n + 1)
               /\ \A f \in Ids, p \in Nat : Beyond(v, f, p) => Beyond(w, f, p) \/ f > n
<1> DEFINE c == SubSeq(FrameCells(n + 1, len), 1, k)
           v == w \o c
<1>1. Size(len) \in Nat /\ FrameCells(n + 1, len) \in Seq(CellType) /\ Len(FrameCells(n + 1, len)) = Size(len)
  BY FrameCellsType
<1>2. c \in Seq(CellType) /\ Len(c) = k /\ \A j \in 1..k : c[j] = [id |-> n + 1, len |-> len, at |-> j]
  <2>1. c \in Seq(CellType) /\ Len(c) = k /\ \A j \in 1..k : c[j] = FrameCells(n + 1, len)[j]
    BY <1>1, SubSeqProperties
  <2>2. \A j \in 1..k : j \in 1..Size(len)
    BY <1>1
  <2> QED BY <2>1, <2>2 DEF FrameCells
<1> HIDE DEF c
<1>3. /\ Len(w) \in Nat /\ Len(v) = Len(w) + k
      /\ \A q \in 1..Len(v) : v[q] = IF q <= Len(w) THEN w[q] ELSE c[q - Len(w)]
  <2>1. Len(v) = Len(w) + Len(c)
        /\ \A q \in 1..(Len(w) + Len(c)) : v[q] = IF q <= Len(w) THEN w[q] ELSE c[q - Len(w)]
    BY <1>2, ConcatProperties
  <2> HIDE DEF v
  <2>2. Len(w) \in Nat /\ Len(c) = k
    BY <1>2
  <2> QED BY <2>1, <2>2
<1>4. ASSUME NEW q \in 1..Len(v)
      PROVE  \/ q \in 1..Len(w) /\ v[q] = w[q] /\ w[q] \in CellType
             \/ q > Len(w) /\ q - Len(w) \in 1..k /\ v[q] = [id |-> n + 1, len |-> len, at |-> q - Len(w)]
  BY <1>1, <1>2, <1>3, ElementOfSeq
<1> HIDE DEF v
<1>5. ASSUME NEW q \in 1..Len(v), NEW r \in 1..Len(v), q < r PROVE Before(v[q], v[r])
  <2>1. CASE r \in 1..Len(w) /\ v[r] = w[r]
    BY <1>3, <1>4, <1>5, <2>1 DEF InOrder
  <2>2. CASE r > Len(w) /\ v[r] = [id |-> n + 1, len |-> len, at |-> r - Len(w)]
    <3>1. CASE q \in 1..Len(w) /\ v[q] = w[q] /\ w[q] \in CellType
      <4>1. w[q].id <= n /\ w[q].id \in Nat
        BY <3>1 DEF InOrder, CellType, Ids
      <4> QED BY <2>2, <3>1, <4>1 DEF Before
    <3>2. CASE q > Len(w) /\ v[q] = [id |-> n + 1, len |-> len, at |-> q - Len(w)]
      BY <1>3, <1>5, <2>2, <3>2 DEF Before
    <3> QED BY <1>4, <3>1, <3>2
  <2> QED BY <1>4, <2>1, <2>2
<1>6. ASSUME NEW q \in 1..Len(v) PROVE v[q].id <= n + 1 /\ v[q].at <= Size(v[q].len)
  <2>1. CASE q \in 1..Len(w) /\ v[q] = w[q] /\ w[q] \in CellType
    BY <2>1 DEF InOrder, CellType, Ids
  <2>2. CASE q - Len(w) \in 1..k /\ v[q] = [id |-> n + 1, len |-> len, at |-> q - Len(w)]
    BY <1>1, <2>2
  <2> QED BY <1>4, <2>1, <2>2
<1>7. ASSUME NEW f \in Ids, NEW p \in Nat, Beyond(v, f, p) PROVE Beyond(w, f, p) \/ f > n
  <2>1. PICK q \in 1..Len(v) : q > p /\ v[q].id = f
    BY <1>7 DEF Beyond
  <2>2. CASE q \in 1..Len(w) /\ v[q] = w[q]
    BY <2>1, <2>2 DEF Beyond
  <2>3. CASE v[q] = [id |-> n + 1, len |-> len, at |-> q - Len(w)]
    BY <2>1, <2>3
  <2> QED BY <1>4, <2>2, <2>3
<1> QED BY <1>5, <1>6, <1>7 DEF InOrder, v, c

\* A step that nothing goes wrong in, and that hands nothing out.
LEMMA Calm ==
    ASSUME Typed, Typed', Resent, InOrder(wal', written'), written' >= written,
           UNCHANGED taken, Troubles' = Troubles,
           reader' = None \/ reader' >= read_pos',
           Astray' => Astray,
           \A f \in Ids : Beyond(wal', f, ReadFrom') => Beyond(wal, f, ReadFrom) \/ f > written,
           \A f \in Ids : (Astray' /\ Beyond(wal', f, reader')) => Beyond(wal, f, reader) \/ f > written
    PROVE  Resent'
<1>1. /\ Troubles \in Nat /\ written \in Nat /\ written' \in Nat
      /\ \A f \in Ids : taken[f] \in Nat /\ f \in Nat
  BY ConstantTypes, SMTT(30), ZenonT(30) DEF Typed, TypeOK, Troubles, Ids
<1>2. \A f \in Ids : f > written' => taken'[f] = 0
  BY <1>1 DEF Resent
<1>3. ASSUME NEW f \in Ids
      PROVE  /\ taken'[f] <= 1 + Troubles'
             /\ Beyond(wal', f, ReadFrom') => taken'[f] <= Troubles'
             /\ (Astray' /\ Beyond(wal', f, reader')) => taken'[f] < Troubles'
  BY <1>1 DEF Resent
<1> QED BY <1>2, <1>3 DEF Resent, InOrder, Beyond

\* A crash or an I/O error.
LEMMA Troubled ==
    ASSUME Typed, Typed', Resent, InOrder(wal', written'), written' >= written,
           UNCHANGED taken, Troubles' = Troubles + 1,
           reader' = None \/ reader' >= read_pos',
           \A f \in Ids : (Astray' /\ Beyond(wal', f, reader')) => Beyond(wal, f, ReadFrom)
    PROVE  Resent'
<1>1. /\ Troubles \in Nat /\ written \in Nat /\ written' \in Nat
      /\ \A f \in Ids : taken[f] \in Nat /\ f \in Nat
  BY ConstantTypes, SMTT(30), ZenonT(30) DEF Typed, TypeOK, Troubles, Ids
<1>2. \A f \in Ids : f > written' => taken'[f] = 0
  BY <1>1 DEF Resent
<1>3. ASSUME NEW f \in Ids
      PROVE  /\ taken'[f] <= 1 + Troubles'
             /\ Beyond(wal', f, ReadFrom') => taken'[f] <= Troubles'
             /\ (Astray' /\ Beyond(wal', f, reader')) => taken'[f] < Troubles'
  BY <1>1 DEF Resent
<1> QED BY <1>1, <1>2, <1>3 DEF Resent, InOrder, Beyond

LEMMA TroublesCount ==
    ASSUME Typed
    PROVE  /\ Troubles \in Nat /\ written \in Nat
           /\ \A f \in Ids : taken[f] \in Nat /\ f \in Nat
BY ConstantTypes DEF Typed, TypeOK, Troubles, Ids

LEMMA InitResent == Init => Resent
<1> SUFFICES ASSUME Init PROVE Resent
  OBVIOUS
<1>1. wal = <<>> /\ written = 0 /\ reader = None /\ crashes = 0 /\ faults = 0 /\ taken = [f \in Ids |-> 0]
  BY DEF Init
<1>2. Len(wal) = 0
  BY <1>1
<1>3. InOrder(wal, written)
  BY <1>2 DEF InOrder
<1> QED BY <1>1, <1>3 DEF Resent, Astray, Troubles

\* Steps that leave the file as it is and take the read position no further
\* back.
LEMMA SameFile ==
    ASSUME Typed, Typed', Resent, UNCHANGED <<wal, written, taken>>,
           ReadFrom' >= ReadFrom \/ ReadFrom' >= Len(wal),
           reader' = None \/ reader' = read_pos' \/ (UNCHANGED <<reader, read_pos>>),
           Troubles' = Troubles \/ (Troubles' = Troubles + 1 /\ up)
    PROVE  Resent'
<1>1. /\ InOrder(wal', written') /\ written' >= written
      /\ reader' = None \/ reader' >= read_pos'
      /\ Astray' => Astray /\ reader' = reader
  BY DEF Resent, Astray, Typed, TypeOK
<1>2. ReadFrom \in Nat /\ ReadFrom' \in Nat /\ Len(wal) \in Nat
  BY DEF ReadFrom, Typed, TypeOK
<1>3. ASSUME NEW f \in Ids, Beyond(wal', f, ReadFrom') PROVE Beyond(wal, f, ReadFrom)
  <2>1. PICK q \in 1..Len(wal) : q > ReadFrom' /\ wal[q].id = f
    BY <1>3 DEF Beyond
  <2>2. q > ReadFrom
    BY <1>2, <2>1
  <2> QED BY <2>1, <2>2 DEF Beyond
<1>4. CASE Troubles' = Troubles
  <2>1. \A f \in Ids : (Astray' /\ Beyond(wal', f, reader')) => Beyond(wal, f, reader) \/ f > written
    BY <1>1
  <2> QED BY <1>1, <1>3, <1>4, <2>1, Calm
<1>5. CASE Troubles' = Troubles + 1 /\ up
  <2>1. ASSUME NEW f \in Ids, Astray', Beyond(wal', f, reader') PROVE Beyond(wal, f, ReadFrom)
    <3>1. reader \in Nat /\ reader >= read_pos /\ read_pos = ReadFrom
      BY <1>1, <1>5, <2>1 DEF Resent, Astray, ReadFrom, Typed, TypeOK
    <3>2. PICK q \in 1..Len(wal) : q > reader /\ wal[q].id = f
      BY <1>1, <2>1 DEF Beyond
    <3>3. q > ReadFrom
      BY <1>2, <3>1, <3>2
    <3> QED BY <3>2, <3>3 DEF Beyond
  <2> QED BY <1>1, <1>5, <2>1, Troubled
<1> QED BY <1>4, <1>5

LEMMA FaultCounts == \A kind : Fault(kind) /\ UNCHANGED crashes /\ Typed => Troubles' = Troubles + 1
BY DEF Fault, Troubles, Typed, TypeOK

LEMMA OpenResent == Typed /\ Typed' /\ Resent /\ Open => Resent'
<1> SUFFICES ASSUME Typed, Typed', Resent, Open PROVE Resent'
  OBVIOUS
<1>1. UNCHANGED <<wal, written, taken>> /\ reader' = None /\ Troubles' = Troubles
  BY DEF Open, history, bounds, Troubles
<1>2. ReadFrom' = ResumePos /\ ReadFrom = cursor
  BY DEF Open, ReadFrom
<1>3. ResumePos >= cursor \/ ResumePos >= Len(wal)
  BY DEF ResumePos, MinOf, Typed, TypeOK
<1> QED BY <1>1, <1>2, <1>3, SameFile

LEMMA CloseResent == Typed /\ Typed' /\ Resent /\ Close => Resent'
<1> SUFFICES ASSUME Typed, Typed', Resent, Close PROVE Resent'
  OBVIOUS
<1>1. UNCHANGED <<wal, written, taken, crashes>> /\ reader' = None /\ up /\ ~up'
  BY DEF Close, Forget, history
<1>2. CASE cursor' = read_pos /\ UNCHANGED faults
  <2>1. ReadFrom' = ReadFrom /\ ReadFrom \in Nat /\ Troubles' = Troubles
    BY <1>1, <1>2 DEF ReadFrom, Troubles, Typed, TypeOK
  <2> QED BY <1>1, <2>1, SameFile
<1>3. CASE Fault("persist") /\ UNCHANGED cursor
  <2>1. Troubles' = Troubles + 1 /\ InOrder(wal', written') /\ written' >= written /\ ~Astray'
    BY <1>1, <1>3, FaultCounts DEF Resent, Astray, Typed, TypeOK
  <2> QED BY <1>1, <2>1, Troubled
<1> QED BY <1>2, <1>3 DEF Close, LastPersist

LEMMA CrashResent == Typed /\ Typed' /\ Resent /\ Crash => Resent'
<1> SUFFICES ASSUME Typed, Typed', Resent, Crash PROVE Resent'
  OBVIOUS
<1>1. UNCHANGED <<taken, faults>> /\ reader' = None /\ Troubles' = Troubles + 1
  BY DEF Crash, Forget, Troubles, Typed, TypeOK
<1>2. InOrder(wal', written') /\ written' >= written
  <2>1. CASE pc = "write"
    <3>1. pending \in BodyLens /\ written + 1 \in Ids /\ wal \in Seq(CellType) /\ written \in Nat
      BY <2>1, ConstantTypes DEF Typed, TypeOK, ControlOK, Ids
    <3>2. (IF Tearing THEN 0..Size(pending) ELSE {0, Size(pending)}) \subseteq 0..Size(pending)
      BY <3>1, FrameCellsType
    <3>3. PICK k \in 0..Size(pending) :
            /\ wal' = wal \o SubSeq(FrameCells(written + 1, pending), 1, k)
            /\ written' = written + 1
      BY <2>1, <3>2 DEF Crash
    <3>4. InOrder(wal, written)
      BY DEF Resent
    <3> QED BY <3>1, <3>3, <3>4, AppendInOrder
  <2>2. CASE pc # "write"
    BY <2>2 DEF Crash, Resent, Typed, TypeOK
  <2> QED BY <2>1, <2>2
<1> QED BY <1>1, <1>2, Troubled DEF Astray

LEMMA EvictPersistResent == Typed /\ Typed' /\ Resent /\ EvictPersist => Resent'
<1> SUFFICES ASSUME Typed, Typed', Resent, EvictPersist PROVE Resent'
  OBVIOUS
<1>1. UNCHANGED <<wal, written, taken, up, crashes>> /\ reader' = None /\ read_pos' = EvictTo /\ up
  BY DEF EvictPersist, DropReader, Typed, ControlOK
<1>2. EvictTo >= read_pos
  BY DEF EvictTo, MinOf, Typed, TypeOK, NoUnderflow
<1>3. ReadFrom' >= ReadFrom
  BY <1>1, <1>2 DEF ReadFrom
<1>4. Troubles' = Troubles \/ Troubles' = Troubles + 1
  <2>1. CASE UNCHANGED faults
    BY <1>1, <2>1 DEF Troubles
  <2>2. CASE Fault("persist")
    BY <1>1, <2>2, FaultCounts
  <2> QED BY <2>1, <2>2 DEF EvictPersist
<1> QED BY <1>1, <1>3, <1>4, SameFile

\* A frame, or part of one, is added to the file.
LEMMA Added ==
    ASSUME Typed, Typed', Resent, pending \in BodyLens, written + 1 \in Ids, up, up',
           UNCHANGED <<taken, reader, read_pos>>, written' = written + 1,
           NEW k \in 0..Size(pending),
           wal' = wal \o SubSeq(FrameCells(written + 1, pending), 1, k),
           Troubles' = Troubles \/ Troubles' = Troubles + 1
    PROVE  Resent'
<1>1. /\ InOrder(wal, written) /\ wal \in Seq(CellType) /\ written \in Nat /\ read_pos \in Nat
      /\ reader' = None \/ reader' >= read_pos'
      /\ reader \in Nat \cup {None}
  BY ConstantTypes DEF Resent, Typed, TypeOK
<1>2. InOrder(wal', written')
      /\ \A f \in Ids, p \in Nat : Beyond(wal', f, p) => Beyond(wal, f, p) \/ f > written
  BY <1>1, AppendInOrder
<1>3. (Astray' <=> Astray) /\ (Astray => reader \in Nat /\ Troubles > 0)
  BY <1>1 DEF Astray, Resent
<1>4. ReadFrom' = read_pos /\ ReadFrom = read_pos
  BY DEF ReadFrom
<1>5. written' >= written
  BY <1>1
<1>6. CASE Troubles' = Troubles
  BY <1>1, <1>2, <1>3, <1>4, <1>5, <1>6, Calm
<1>7. CASE Troubles' = Troubles + 1
  <2>1. ASSUME NEW f \in Ids
        PROVE  /\ Beyond(wal', f, ReadFrom') => taken'[f] <= Troubles'
               /\ (Astray' /\ Beyond(wal', f, reader')) => taken'[f] < Troubles'
               /\ taken'[f] <= 1 + Troubles'
    <3>1. taken[f] \in Nat /\ f \in Nat /\ Troubles \in Nat
      BY TroublesCount
    <3>2. taken[f] <= 1 + Troubles /\ (f > written => taken[f] = 0)
      BY DEF Resent
    <3>3. Beyond(wal, f, reader) => Beyond(wal, f, read_pos) \/ ~Astray
      BY <1>1, <1>3 DEF Beyond, Resent, Astray
    <3>4. Beyond(wal, f, read_pos) => taken[f] <= Troubles
      BY <1>4 DEF Resent
    <3>5. (Astray' /\ Beyond(wal', f, reader')) => Beyond(wal, f, reader) \/ f > written
      BY <1>2, <1>3
    <3> QED BY <1>3, <1>7, <3>1, <3>2, <3>3, <3>4, <3>5
  <2>2. \A f \in Ids : f > written' => taken'[f] = 0
    BY <1>1, TroublesCount DEF Resent
  <2>3. Troubles' > 0
    BY <1>7, TroublesCount
  <2> QED BY <1>1, <1>2, <2>1, <2>2, <2>3 DEF Resent, InOrder, Beyond
<1> QED BY <1>6, <1>7

LEMMA WriteResent == Typed /\ Typed' /\ Resent /\ (WriteFrame \/ WriteFails) => Resent'
<1> SUFFICES ASSUME Typed, Typed', Resent, WriteFrame \/ WriteFails PROVE Resent'
  OBVIOUS
<1>1. /\ pending \in BodyLens /\ written + 1 \in Ids /\ up /\ up'
      /\ UNCHANGED <<taken, reader, read_pos>> /\ written' = written + 1
  BY ConstantTypes DEF WriteFrame, WriteFails, Typed, TypeOK, ControlOK, memory, Ids
<1>2. CASE WriteFrame
  <2>1. Size(pending) \in 0..Size(pending)
        /\ FrameCells(written + 1, pending) = SubSeq(FrameCells(written + 1, pending), 1, Size(pending))
    <3> DEFINE c == FrameCells(written + 1, pending)
    <3>1. c \in Seq(CellType) /\ Len(c) = Size(pending) /\ Size(pending) \in Nat
      BY <1>1, FrameCellsType
    <3> HIDE DEF c
    <3>2. SubSeq(c, 1, Len(c)) = c
      BY <3>1, SubSeqFull
    <3> QED BY <3>1, <3>2 DEF c
  <2>2. Troubles' = Troubles
    BY <1>2 DEF WriteFrame, bounds, Troubles
  <2>3. wal' = wal \o SubSeq(FrameCells(written + 1, pending), 1, Size(pending))
    BY <1>2, <2>1 DEF WriteFrame
  <2> QED BY <1>1, <2>1, <2>2, <2>3, Added
<1>3. CASE WriteFails
  <2>1. PICK k \in 0..Size(pending) : wal' = wal \o SubSeq(FrameCells(written + 1, pending), 1, k)
    BY <1>3 DEF WriteFails
  <2>2. Troubles' = Troubles + 1
    BY <1>3, FaultCounts DEF WriteFails
  <2> QED BY <1>1, <2>1, <2>2, Added
<1> QED BY <1>2, <1>3

LEMMA DrainSkipsResent == Typed /\ Typed' /\ Resent /\ DrainSkips => Resent'
<1> SUFFICES ASSUME Typed, Typed', Resent, DrainSkips PROVE Resent'
  OBVIOUS
<1>1. UNCHANGED <<wal, written, taken, up, crashes>> /\ reader' = None /\ read_pos' = write_pos /\ up
  BY DEF DrainSkips, DrainMayRead, ResetToEnd, DropReader, history
<1>2. ReadFrom' >= ReadFrom
  BY <1>1 DEF ReadFrom, Typed, TypeOK, NoUnderflow
<1>3. Troubles' = Troubles \/ Troubles' = Troubles + 1
  <2>1. CASE UNCHANGED faults
    BY <1>1, <2>1 DEF Troubles
  <2>2. CASE Fault("persist")
    BY <1>1, <2>2, FaultCounts
  <2> QED BY <2>1, <2>2 DEF DrainSkips, ResetToEnd
<1> QED BY <1>1, <1>2, <1>3, SameFile

LEMMA DrainReadFailsResent == Typed /\ Typed' /\ Resent /\ DrainReadFails => Resent'
<1> SUFFICES ASSUME Typed, Typed', Resent, DrainReadFails PROVE Resent'
  OBVIOUS
<1>1. /\ UNCHANGED <<wal, written, taken, up, read_pos, crashes>> /\ up
      /\ Troubles' = Troubles + 1
  BY FaultCounts DEF DrainReadFails, DrainMayRead, disk, history
<1>2. ReaderPos \in Nat /\ read_pos \in Nat /\ ReaderPos >= read_pos
  BY ConstantTypes DEF ReaderPos, Resent, Typed, TypeOK
<1>3. reader' >= read_pos' /\ reader' \in Nat /\ reader' >= ReaderPos
  <2>1. PICK last : reader' \in ReaderPos..last
    BY DEF DrainReadFails
  <2> QED BY <1>1, <1>2, <2>1
<1>4. ASSUME NEW f \in Ids, Beyond(wal', f, reader') PROVE Beyond(wal, f, ReadFrom)
  BY <1>1, <1>2, <1>3, <1>4 DEF Beyond, ReadFrom
<1>5. InOrder(wal', written') /\ written' >= written
  BY <1>1, TroublesCount DEF Resent
<1> QED BY <1>1, <1>3, <1>4, <1>5, Troubled

\* Steps that keep only a stretch of the file beyond the read position.
LEMMA Shortened ==
    ASSUME Typed, Typed', Resent, up, UNCHANGED <<written, taken>>, reader' = None,
           InOrder(wal', written),
           \A f \in Ids : Beyond(wal', f, ReadFrom') => Beyond(wal, f, ReadFrom),
           Troubles' = Troubles \/ Troubles' = Troubles + 1
    PROVE  Resent'
<1>1. InOrder(wal', written') /\ written' >= written /\ ~Astray'
  BY TroublesCount DEF Astray, InOrder
<1>2. CASE Troubles' = Troubles
  BY <1>1, <1>2, Calm
<1>3. CASE Troubles' = Troubles + 1
  BY <1>1, <1>3, Troubled
<1> QED BY <1>2, <1>3

LEMMA CompactResent ==
    Typed /\ Typed' /\ Resent /\ (CompactRename \/ CompactTruncate \/ CompactReopenFails) => Resent'
<1> SUFFICES ASSUME Typed, Typed', Resent, CompactRename \/ CompactTruncate \/ CompactReopenFails
             PROVE  Resent'
  OBVIOUS
<1>1. UNCHANGED <<written, taken, up, crashes>> /\ reader' = None /\ up
  BY DEF CompactRename, CompactTruncate, CompactReopenFails, DropReader, history, bounds, Typed, ControlOK
<1>2. ReadFrom = read_pos /\ ReadFrom' = read_pos' /\ read_pos \in Nat /\ read_pos' \in Nat /\ InOrder(wal, written)
  BY <1>1 DEF ReadFrom, Resent, Typed, TypeOK
<1>3. CASE CompactTruncate
  <2>1. wal' = <<>> /\ Troubles' = Troubles
    BY <1>3 DEF CompactTruncate, bounds, Troubles
  <2>2. Len(wal') = 0
    BY <2>1
  <2>3. InOrder(wal', written) /\ \A f \in Ids : ~Beyond(wal', f, ReadFrom')
    BY <2>2 DEF InOrder, Beyond
  <2> QED BY <1>1, <2>1, <2>3, Shortened
<1>4. CASE CompactRename \/ CompactReopenFails
  <2>1. wal' = SubSeq(wal, read_pos + 1, write_pos) /\ read_pos < write_pos /\ write_pos <= Len(wal)
    BY <1>4 DEF CompactRename, CompactReopenFails
  <2>2. Troubles' = Troubles \/ Troubles' = Troubles + 1
    <3>1. CASE CompactRename
      BY <3>1 DEF CompactRename, bounds, Troubles
    <3>2. CASE CompactReopenFails
      BY <3>2, FaultCounts DEF CompactReopenFails
    <3> QED BY <1>4, <3>1, <3>2
  <2>3. wal \in Seq(CellType) /\ read_pos \in 0..Len(wal) /\ write_pos \in 0..Len(wal) /\ read_pos <= write_pos
        /\ written \in Nat
    BY <2>1, ConstantTypes, SMTT(30), ZenonT(30) DEF Typed, TypeOK
  <2>4. InOrder(wal', written) /\ \A f \in Nat, p \in Nat : Beyond(wal', f, p) => Beyond(wal, f, read_pos)
    BY <1>2, <2>1, <2>3, SuffixInOrder
  <2>5. \A f \in Ids : Beyond(wal', f, ReadFrom') => Beyond(wal, f, ReadFrom)
    BY <1>2, <2>4, TroublesCount
  <2> QED BY <1>1, <2>2, <2>4, <2>5, Shortened
<1> QED BY <1>3, <1>4

\* Nothing of a frame lies beyond its last cell.
LEMMA NothingBeyondFrame ==
    ASSUME Typed, Resent, NEW p \in Nat, p + 1 \in 1..Len(wal), WholeFrameAt(wal, p, wal[p + 1])
    PROVE  ~Beyond(wal, wal[p + 1].id, p + Size(wal[p + 1].len))
<1> DEFINE c == wal[p + 1]
           s == Size(c.len)
<1>1. c.id \in Ids /\ c.len \in BodyLens /\ c.id \in Nat
  BY CellsTyped, ConstantTypes DEF Typed, Ids
<1>2. s \in Nat /\ s > 0
  BY <1>1, FrameCellsType
<1>3. p + s \in 1..Len(wal) /\ wal[p + s] = [id |-> c.id, len |-> c.len, at |-> s]
  <2>1. p + s <= Len(wal) /\ s \in 1..s
    BY <1>2 DEF WholeFrameAt
  <2> QED BY <1>2, <2>1 DEF WholeFrameAt, Typed, TypeOK
<1> HIDE DEF c, s
<1>4. SUFFICES ASSUME Beyond(wal, c.id, p + s) PROVE FALSE
  BY DEF c, s
<1>5. PICK q \in 1..Len(wal) : q > p + s /\ wal[q].id = c.id
  BY <1>4 DEF Beyond
<1>6. wal[q].at \in Nat /\ wal[q].at <= Size(wal[q].len)
  BY CellsTyped DEF Resent, InOrder, Typed
<1>7. Before(wal[p + s], wal[q])
  BY <1>3, <1>5 DEF Resent, InOrder
<1>8. wal[q].len = c.len /\ s < wal[q].at
  BY <1>1, <1>3, <1>5, <1>7 DEF Before
<1> QED BY <1>2, <1>6, <1>8 DEF s

LEMMA DrainFrameResent == Typed /\ Typed' /\ Resent /\ DrainFrame => Resent'
<1> SUFFICES ASSUME Typed, Typed', Resent, DrainFrame PROVE Resent'
  OBVIOUS
<1> DEFINE p == ReaderPos
<1>1. /\ UNCHANGED <<wal, up, written, crashes, faults>> /\ up
      /\ read_pos \in Nat /\ p \in Nat /\ p >= read_pos /\ Len(wal) \in Nat
      /\ reader \in Nat \cup {None} /\ (reader # None => p = reader)
      /\ (reader = None => p = read_pos)
  BY DEF DrainFrame, DrainMayRead, disk, bounds, ReaderPos, Resent, Typed, TypeOK
<1>2. PICK len \in HeaderLens(p) :
        /\ p + Size(len) <= Len(wal)
        /\ read_pos' = read_pos + Size(len) /\ reader' = p + Size(len)
        /\ IF wal[p + 1].len = len /\ WholeFrameAt(wal, p, wal[p + 1])
           THEN taken' = [taken EXCEPT ![wal[p + 1].id] = @ + 1] /\ UNCHANGED junk
           ELSE junk' = TRUE /\ UNCHANGED taken
  BY DEF DrainFrame
<1>3. len \in Nat /\ Size(len) \in Nat /\ Size(len) > 0
  BY <1>1, <1>2, HeaderLensType, SizeType DEF Typed
<1> DEFINE s == Size(len)
<1> HIDE DEF p, s
<1>4. s \in Nat /\ s > 0 /\ p + s <= Len(wal) /\ read_pos' = read_pos + s /\ reader' = p + s
  BY <1>2, <1>3 DEF s
<1>5. /\ reader' >= read_pos' /\ reader' \in Nat /\ (Astray' => Astray /\ reader = p)
      /\ ReadFrom = read_pos /\ ReadFrom' = read_pos + s /\ Troubles' = Troubles
  BY <1>1, <1>4 DEF Astray, ReadFrom, Troubles, None
<1>6. /\ InOrder(wal, written) /\ InOrder(wal', written') /\ written' >= written
  BY <1>1, TroublesCount DEF Resent
<1>7. ASSUME NEW f \in Ids
      PROVE  /\ Beyond(wal', f, ReadFrom') => Beyond(wal, f, read_pos)
             /\ Beyond(wal', f, reader') => Beyond(wal, f, p)
  BY <1>1, <1>4, <1>5 DEF Beyond
<1>8. CASE UNCHANGED taken
  BY <1>5, <1>6, <1>7, <1>8, Calm
<1>9. CASE ~UNCHANGED taken
  <2> DEFINE g == wal[p + 1].id
  <2>1. wal[p + 1].len = len /\ WholeFrameAt(wal, p, wal[p + 1]) /\ taken' = [taken EXCEPT ![g] = @ + 1]
    BY <1>2, <1>9
  <2>2. p + 1 \in 1..Len(wal)
    BY <1>1, <1>4
  <2>3. g \in Ids /\ g <= written /\ Beyond(wal, g, p) /\ Beyond(wal, g, read_pos)
    BY <1>1, <1>6, <2>2, CellsTyped DEF InOrder, Beyond, Typed
  <2>4. ~Beyond(wal, g, p + s)
    BY <1>1, <2>1, <2>2, NothingBeyondFrame DEF s
  <2> HIDE DEF g
  <2>5. taken \in [Ids -> Nat] /\ \A f \in Ids : taken'[f] = IF f = g THEN taken[g] + 1 ELSE taken[f]
    BY <2>1, <2>3 DEF Typed, TypeOK
  <2>6. \A f \in Ids : f > written' => taken'[f] = 0
    BY <1>1, <2>3, <2>5, TroublesCount DEF Resent
  <2>7. ASSUME NEW f \in Ids
        PROVE  /\ taken'[f] <= 1 + Troubles'
               /\ Beyond(wal', f, ReadFrom') => taken'[f] <= Troubles'
               /\ (Astray' /\ Beyond(wal', f, reader')) => taken'[f] < Troubles'
    <3>1. taken[f] \in Nat /\ Troubles \in Nat
      BY TroublesCount
    <3>2. /\ taken[f] <= 1 + Troubles /\ (Beyond(wal, f, read_pos) => taken[f] <= Troubles)
          /\ (Astray /\ Beyond(wal, f, reader)) => taken[f] < Troubles
      BY <1>5 DEF Resent
    <3>3. CASE f # g
      BY <1>5, <1>7, <2>5, <3>1, <3>2, <3>3
    <3>4. CASE f = g
      <4>1. taken'[f] = taken[f] + 1 /\ taken[f] <= Troubles
        BY <2>3, <2>5, <3>2, <3>4
      <4>2. ~Beyond(wal', f, reader')
        BY <1>1, <1>4, <2>4, <3>4
      <4>3. ASSUME Beyond(wal', f, ReadFrom') PROVE Astray /\ Beyond(wal, f, reader)
        <5>1. p # read_pos
          BY <1>1, <1>5, <2>4, <3>4, <4>3
        <5>2. Astray /\ reader = p
          BY <1>1, <5>1 DEF Astray
        <5> QED BY <2>3, <3>4, <5>2
      <4> QED BY <1>5, <3>1, <3>2, <4>1, <4>2, <4>3
    <3> QED BY <3>3, <3>4
  <2> QED BY <1>5, <1>6, <2>6, <2>7, TroublesCount DEF Resent
<1> QED BY <1>8, <1>9

LEMMA NextResent == Typed /\ Typed' /\ Resent /\ [Next]_vars => Resent'
<1> SUFFICES ASSUME Typed, Typed', Resent, [Next]_vars PROVE Resent'
  OBVIOUS
<1>1. CASE \E len \in BodyLens : AppendStart(len)
  BY <1>1, SameFile, TroublesCount
     DEF AppendStart, disk, memory, history, bounds, Troubles, ReadFrom, Typed, TypeOK
<1>2. CASE EvictScan
  BY <1>2, SameFile, TroublesCount
     DEF EvictScan, disk, memory, history, bounds, Troubles, ReadFrom, Typed, TypeOK
<1>3. CASE EvictReadFails
  BY <1>3, SameFile, FaultCounts
     DEF EvictReadFails, disk, memory, history, ReadFrom, Typed, TypeOK, ControlOK
<1>4. CASE Commit
  <2>1. Troubles' = Troubles \/ Troubles' = Troubles + 1
    <3>1. CASE UNCHANGED faults
      BY <1>4, <3>1 DEF Commit, Troubles
    <3>2. CASE Fault("persist")
      BY <1>4, <3>2, FaultCounts DEF Commit
    <3> QED BY <1>4, <3>1, <3>2 DEF Commit
  <2> QED BY <1>4, <2>1, SameFile DEF Commit, history, ReadFrom, Typed, TypeOK
<1>5. CASE CompactFails
  <2>1. Troubles' = Troubles \/ Troubles' = Troubles + 1
    <3>1. CASE UNCHANGED faults
      BY <1>5, <3>1 DEF CompactFails, Troubles
    <3>2. CASE Fault("rewrite")
      BY <1>5, <3>2, FaultCounts DEF CompactFails
    <3> QED BY <1>5, <3>1, <3>2 DEF CompactFails
  <2> QED BY <1>5, <2>1, SameFile
          DEF CompactFails, disk, history, ReadFrom, Typed, TypeOK, ControlOK
<1>6. CASE CompactPersist
  <2>1. Troubles' = Troubles \/ Troubles' = Troubles + 1
    <3>1. CASE UNCHANGED faults
      BY <1>6, <3>1 DEF CompactPersist, Troubles
    <3>2. CASE Fault("recursor")
      BY <1>6, <3>2, FaultCounts DEF CompactPersist
    <3> QED BY <1>6, <3>1, <3>2 DEF CompactPersist
  <2> QED BY <1>6, <2>1, SameFile DEF CompactPersist, history, ReadFrom, Typed, TypeOK, ControlOK
<1>7. CASE UNCHANGED vars
  BY <1>7, SameFile DEF vars, Troubles, ReadFrom, Typed, TypeOK
<1> QED
  BY <1>1, <1>2, <1>3, <1>4, <1>5, <1>6, <1>7, OpenResent, CloseResent, CrashResent, EvictPersistResent,
     WriteResent, DrainFrameResent, DrainSkipsResent, DrainReadFailsResent, CompactResent
  DEF Next

\* Whatever crashes, tears or fails, a frame is handed out once, and once more
\* for each crash or I/O error.
THEOREM ResendsExplained == Spec => []ResentOnlyAfterTrouble
<1>1. Typed /\ Resent => ResentOnlyAfterTrouble
  <2> SUFFICES ASSUME Typed, Resent, NEW f \in Ids PROVE taken[f] <= 1 + crashes + faults
    BY DEF ResentOnlyAfterTrouble
  <2> QED BY DEF Resent, Troubles, Typed, TypeOK
<1>2. Typed /\ Resent /\ [Next]_vars => (Typed /\ Resent)'
  BY NextTyped, NextResent
<1> QED BY InitTyped, InitResent, <1>1, <1>2, PTL DEF Spec

-----------------------------------------------------------------------------
(* The frames a file holds *)

WholeFrames == [id : Ids, len : BodyLens]

\* The last cell of a frame.
Ends(c) == c.at = Size(c.len)
FrameOf(c) == [id |-> c.id, len |-> c.len]

LEMMA FrameOfType == ASSUME NEW w \in Files, NEW i \in 1..Len(w) PROVE FrameOf(w[i]) \in WholeFrames
BY FileCells DEF FrameOf, WholeFrames

\* FramesBetween reads the file cell by cell.
LEMMA FramesRecursion ==
    ASSUME NEW w \in Files, NEW a \in Nat
    PROVE  /\ \A q \in Nat : FramesBetween(w, a, q) \in Seq(WholeFrames)
           /\ \A q \in Nat : q <= a => FramesBetween(w, a, q) = <<>>
           /\ \A q \in a..(Len(w) - 1) :
                FramesBetween(w, a, q + 1) =
                  IF Ends(w[q + 1]) THEN Append(FramesBetween(w, a, q), FrameOf(w[q + 1]))
                  ELSE FramesBetween(w, a, q)
<1> DEFINE S == Seq(WholeFrames)
           Next1(q, s) == IF q <= a THEN <<>>
                          ELSE IF q <= Len(w) /\ Ends(w[q]) THEN Append(s, FrameOf(w[q])) ELSE s
           step == [x \in Nat \X S |-> Next1(x[1] + 1, x[2])]
<1>1. Len(w) \in Nat
  BY DEF Files
<1>2. ASSUME NEW q \in Nat, q > 0, NEW s \in S PROVE Next1(q, s) \in S
  <2>1. <<>> \in S
    BY EmptySeq
  <2>2. ASSUME q <= Len(w) PROVE Append(s, FrameOf(w[q])) \in S
    <3>1. FrameOf(w[q]) \in WholeFrames
      BY <1>1, <1>2, <2>2, FrameOfType
    <3> QED BY <1>2, <3>1, AppendProperties
  <2> QED BY <1>2, <2>1, <2>2
<1>3. \E f : f \in [Nat -> S] /\ f = [q \in Nat |-> IF q <= a THEN <<>> ELSE Next1(q, f[q - 1])]
  <2>1. step \in Steps(S) /\ <<>> \in S
    <3>1. \A x \in Nat \X S : x[1] + 1 \in Nat /\ x[1] + 1 > 0 /\ x[2] \in S
      <4> HIDE DEF S
      <4> QED OBVIOUS
    <3>2. \A x \in Nat \X S : Next1(x[1] + 1, x[2]) \in S
      <4> HIDE DEF S, Next1
      <4> QED BY <1>2, <3>1
    <3> HIDE DEF Next1
    <3> QED BY <3>2, EmptySeq DEF Steps
  <2> HIDE DEF S, Next1
  <2>2. PICK f : Recursive(f, S, <<>>, step)
    <3> HIDE DEF step
    <3> QED BY <2>1, PrimitiveRecursion
  <2>3. f \in [Nat -> S] /\ f[0] = <<>> /\ \A n \in Nat : f[n + 1] = step[<<n, f[n]>>]
    BY <2>2 DEF Recursive
  <2>4. ASSUME NEW n \in Nat PROVE f[n + 1] = Next1(n + 1, f[n])
    <3>1. f[n] \in S /\ <<n, f[n]>> \in Nat \X S /\ <<n, f[n]>>[1] = n /\ <<n, f[n]>>[2] = f[n]
      BY <2>3
    <3> QED BY <2>3, <3>1
  <2>5. ASSUME NEW q \in Nat PROVE f[q] = IF q <= a THEN <<>> ELSE Next1(q, f[q - 1])
    <3>1. CASE q = 0
      BY <2>3, <3>1
    <3>2. CASE q # 0
      <4>1. q - 1 \in Nat /\ (q - 1) + 1 = q
        BY <3>2
      <4>2. f[q] = Next1(q, f[q - 1])
        BY <2>4, <4>1
      <4> QED BY <4>2 DEF Next1
    <3> QED BY <3>1, <3>2
  <2>6. f = [q \in Nat |-> IF q <= a THEN <<>> ELSE Next1(q, f[q - 1])]
    BY <2>3, <2>5
  <2> QED BY <2>3, <2>6
<1> DEFINE upTo[q \in Nat] ==
             IF q <= a THEN <<>>
             ELSE IF q <= Len(w) /\ w[q].at = Size(w[q].len)
                  THEN Append(upTo[q - 1], [id |-> w[q].id, len |-> w[q].len])
                  ELSE upTo[q - 1]
<1>4. upTo = [q \in Nat |-> IF q <= a THEN <<>>
             ELSE IF q <= Len(w) /\ w[q].at = Size(w[q].len)
                  THEN Append(upTo[q - 1], [id |-> w[q].id, len |-> w[q].len])
                  ELSE upTo[q - 1]]
  <2>1. PICK f : f = [q \in Nat |-> IF q <= a THEN <<>> ELSE Next1(q, f[q - 1])]
    BY <1>3
  <2>2. f = [q \in Nat |-> IF q <= a THEN <<>>
             ELSE IF q <= Len(w) /\ w[q].at = Size(w[q].len)
                  THEN Append(f[q - 1], [id |-> w[q].id, len |-> w[q].len])
                  ELSE f[q - 1]]
    BY <2>1 DEF Ends, FrameOf
  <2> QED BY <2>2, Zenon DEF upTo
<1>5. \A b : FramesBetween(w, a, b) = upTo[b]
  BY Zenon DEF FramesBetween, upTo
<1> HIDE DEF upTo
<1>6. \A q \in Nat : upTo[q] = IF q <= a THEN <<>>
             ELSE IF q <= Len(w) /\ Ends(w[q])
                  THEN Append(upTo[q - 1], FrameOf(w[q]))
                  ELSE upTo[q - 1]
  BY <1>4, Zenon DEF Ends, FrameOf
<1>7. \A q \in Nat : q <= a => upTo[q] = <<>>
  BY <1>6
<1>8. ASSUME NEW q \in a..(Len(w) - 1)
      PROVE  upTo[q + 1] = IF Ends(w[q + 1]) THEN Append(upTo[q], FrameOf(w[q + 1])) ELSE upTo[q]
  <2>1. q + 1 \in Nat /\ (q + 1) - 1 = q /\ ~(q + 1 <= a) /\ q + 1 <= Len(w)
    BY <1>1
  <2> QED BY <1>6, <2>1
<1>9. \A q \in Nat : upTo[q] \in S
  <2> DEFINE T == {q \in Nat : upTo[q] \in S}
  <2>1. 0 \in T
    <3>1. 0 \in Nat /\ 0 <= a /\ <<>> \in S
      BY EmptySeq
    <3>2. upTo[0] = <<>>
      BY <1>7, <3>1
    <3> HIDE DEF S
    <3> QED BY <3>1, <3>2
  <2>2. ASSUME NEW q \in Nat, q \in T PROVE q + 1 \in T
    <3>1. q + 1 \in Nat /\ (q + 1) - 1 = q /\ upTo[q] \in S
      BY <2>2
    <3>2. upTo[q + 1] = <<>> \/ upTo[q + 1] = Next1(q + 1, upTo[q])
      BY <1>6, <3>1
    <3>3. <<>> \in S /\ Next1(q + 1, upTo[q]) \in S
      <4>1. q + 1 > 0
        OBVIOUS
      <4> HIDE DEF Next1
      <4> QED BY <1>2, <3>1, <4>1, EmptySeq
    <3> QED BY <3>1, <3>2, <3>3
  <2>3. Nat \subseteq T
    <3> HIDE DEF T
    <3> QED BY <2>1, <2>2, Induction
  <2> QED BY <2>3
<1> QED BY <1>5, <1>7, <1>8, <1>9

LEMMA ConcatAppend ==
    ASSUME NEW S, NEW s \in Seq(S), NEW t \in Seq(S), NEW e \in S
    PROVE  s \o Append(t, e) = Append(s \o t, e)
<1>1. /\ <<e>> \in Seq(S) /\ s \o t \in Seq(S) /\ Append(t, e) = t \o <<e>>
      /\ Append(s \o t, e) = (s \o t) \o <<e>>
  <2>1. s \o t \in Seq(S)
    BY ConcatProperties
  <2>2. Append(t, e) = t \o <<e>> /\ Append(s \o t, e) = (s \o t) \o <<e>>
    BY <2>1, AppendIsConcat
  <2>3. <<e>> \in Seq(S)
    OBVIOUS
  <2> QED BY <2>1, <2>2, <2>3
<1>2. (s \o t) \o <<e>> = s \o (t \o <<e>>)
  BY <1>1, ConcatAssociative
<1> QED BY <1>1, <1>2, Zenon

\* Reading on is reading what comes next.
LEMMA FramesSplit ==
    ASSUME NEW w \in Files, NEW a \in Nat, NEW b \in Nat, NEW c \in Nat,
           a <= b, b <= c, c <= Len(w)
    PROVE  FramesBetween(w, a, c) = FramesBetween(w, a, b) \o FramesBetween(w, b, c)
<1> DEFINE F(x, y) == FramesBetween(w, x, y)
           T == {n \in Nat : b + n <= Len(w) => F(a, b + n) = F(a, b) \o F(b, b + n)}
<1>1. Len(w) \in Nat
  BY DEF Files
<1>2. F(a, b) \in Seq(WholeFrames) /\ \A n \in Nat : F(b, b + n) \in Seq(WholeFrames)
  <2>1. \A n \in Nat : b + n \in Nat
    OBVIOUS
  <2>2. \A q \in Nat : F(a, q) \in Seq(WholeFrames) /\ F(b, q) \in Seq(WholeFrames)
    BY FramesRecursion
  <2> HIDE DEF F
  <2> QED BY <2>1, <2>2
<1>3. 0 \in T
  <2>1. F(b, b) = <<>>
    BY FramesRecursion
  <2>2. F(a, b) \o <<>> = F(a, b)
    BY <1>2, ConcatEmptySeq
  <2>3. b + 0 = b
    OBVIOUS
  <2> HIDE DEF F
  <2> QED BY <2>1, <2>2, <2>3
<1>4. ASSUME NEW n \in Nat, n \in T PROVE n + 1 \in T
  <2> SUFFICES ASSUME b + (n + 1) <= Len(w) PROVE F(a, b + (n + 1)) = F(a, b) \o F(b, b + (n + 1))
    OBVIOUS
  <2>1. PICK q \in Nat : q = b + n
    OBVIOUS
  <2>2. q \in a..(Len(w) - 1) /\ q \in b..(Len(w) - 1) /\ b + (n + 1) = q + 1 /\ q + 1 \in 1..Len(w)
        /\ b + n <= Len(w)
    BY <1>1, <2>1
  <2>3. F(a, q + 1) = IF Ends(w[q + 1]) THEN Append(F(a, q), FrameOf(w[q + 1])) ELSE F(a, q)
    BY <2>2, FramesRecursion
  <2>4. F(b, q + 1) = IF Ends(w[q + 1]) THEN Append(F(b, q), FrameOf(w[q + 1])) ELSE F(b, q)
    BY <2>2, FramesRecursion
  <2>5. F(a, q) = F(a, b) \o F(b, q)
    BY <1>4, <2>1, <2>2
  <2>6. FrameOf(w[q + 1]) \in WholeFrames /\ F(b, q) \in Seq(WholeFrames)
    BY <1>2, <2>1, <2>2, FrameOfType
  <2> HIDE DEF F, T
  <2>7. F(a, b) \o Append(F(b, q), FrameOf(w[q + 1])) = Append(F(a, b) \o F(b, q), FrameOf(w[q + 1]))
    BY <1>2, <2>6, ConcatAppend, SMTT(30), ZenonT(30)
  <2>8. F(a, q + 1) = F(a, b) \o F(b, q + 1)
    BY <2>3, <2>4, <2>5, <2>7, Zenon
  <2> QED BY <2>2, <2>8
<1>5. Nat \subseteq T
  <2> HIDE DEF T
  <2> QED BY <1>3, <1>4, Induction
<1>6. c - b \in T /\ b + (c - b) = c
  <2> HIDE DEF T
  <2> QED BY <1>5
<1> QED BY <1>6

\* Files that agree on their cells, moved by d, hold the same frames.
LEMMA FramesAgree ==
    ASSUME NEW v \in Files, NEW w \in Files, NEW d \in Nat,
           NEW a \in Nat, NEW b \in Nat, a <= b, b <= Len(v), b + d <= Len(w),
           \A i \in 1..Len(v) : a < i /\ i <= b => v[i] = w[i + d]
    PROVE  FramesBetween(v, a, b) = FramesBetween(w, a + d, b + d)
<1> DEFINE T == {n \in Nat : a + n <= b =>
                   FramesBetween(v, a, a + n) = FramesBetween(w, a + d, (a + n) + d)}
<1>1. Len(v) \in Nat /\ Len(w) \in Nat
  BY DEF Files
<1>2. 0 \in T
  <2>1. FramesBetween(v, a, a) = <<>>
    BY FramesRecursion
  <2>2. PICK e \in Nat : e = a + d
    OBVIOUS
  <2>3. FramesBetween(w, e, e) = <<>> /\ a + 0 = a
    BY FramesRecursion
  <2> QED BY <2>1, <2>2, <2>3
<1>3. ASSUME NEW n \in Nat, n \in T PROVE n + 1 \in T
  <2> SUFFICES ASSUME a + (n + 1) <= b
               PROVE  FramesBetween(v, a, a + (n + 1)) = FramesBetween(w, a + d, (a + (n + 1)) + d)
    OBVIOUS
  <2>1. PICK q \in Nat : q = a + n
    OBVIOUS
  <2>2. PICK r \in Nat : r = q + d
    OBVIOUS
  <2>3. /\ q \in a..(Len(v) - 1) /\ r \in (a + d)..(Len(w) - 1) /\ a + n <= b
        /\ a + (n + 1) = q + 1 /\ (a + (n + 1)) + d = r + 1 /\ (a + n) + d = r /\ (q + 1) + d = r + 1
        /\ q + 1 \in 1..Len(v) /\ a < q + 1 /\ q + 1 <= b
    BY <1>1, <2>1, <2>2
  <2>4. FramesBetween(v, a, q + 1) =
          IF Ends(v[q + 1]) THEN Append(FramesBetween(v, a, q), FrameOf(v[q + 1])) ELSE FramesBetween(v, a, q)
    BY <2>3, FramesRecursion
  <2>e. PICK e \in Nat : e = a + d /\ r \in e..(Len(w) - 1)
    BY <2>3
  <2>5. FramesBetween(w, e, r + 1) =
          IF Ends(w[r + 1]) THEN Append(FramesBetween(w, e, r), FrameOf(w[r + 1]))
          ELSE FramesBetween(w, e, r)
    BY <2>e, FramesRecursion
  <2>6. v[q + 1] = w[r + 1]
    BY <2>3
  <2>7. FramesBetween(v, a, q) = FramesBetween(w, e, r)
    BY <1>3, <2>1, <2>3, <2>e
  <2>8. FramesBetween(v, a, q + 1) = FramesBetween(w, e, r + 1)
    BY <2>4, <2>5, <2>6, <2>7
  <2> QED BY <2>3, <2>8, <2>e
<1>4. Nat \subseteq T
  <2> HIDE DEF T
  <2> QED BY <1>2, <1>3, Induction
<1>5. b - a \in T /\ a + (b - a) = b
  <2> HIDE DEF T
  <2> QED BY <1>4
<1> QED BY <1>5

\* The first cells of a frame are no frame yet.
LEMMA FrameBegun ==
    ASSUME NEW w \in Files, NEW a \in Nat, NEW b \in Nat, a <= b, b <= Len(w),
           \A i \in 1..Len(w) : a < i /\ i <= b => ~Ends(w[i])
    PROVE  FramesBetween(w, a, b) = <<>>
<1> DEFINE T == {n \in Nat : a + n <= b => FramesBetween(w, a, a + n) = <<>>}
<1>1. Len(w) \in Nat
  BY DEF Files
<1>2. 0 \in T
  <2>1. FramesBetween(w, a, a) = <<>> /\ a + 0 = a
    BY FramesRecursion
  <2> QED BY <2>1
<1>3. ASSUME NEW n \in Nat, n \in T PROVE n + 1 \in T
  <2> SUFFICES ASSUME a + (n + 1) <= b PROVE FramesBetween(w, a, a + (n + 1)) = <<>>
    OBVIOUS
  <2>1. PICK q \in Nat : q = a + n
    OBVIOUS
  <2>2. /\ q \in a..(Len(w) - 1) /\ a + n <= b /\ a + (n + 1) = q + 1
        /\ q + 1 \in 1..Len(w) /\ a < q + 1 /\ q + 1 <= b
    BY <1>1, <2>1
  <2>3. FramesBetween(w, a, q + 1) =
          IF Ends(w[q + 1]) THEN Append(FramesBetween(w, a, q), FrameOf(w[q + 1])) ELSE FramesBetween(w, a, q)
    BY <2>2, FramesRecursion
  <2>4. FramesBetween(w, a, q) = <<>>
    BY <1>3, <2>1, <2>2
  <2> QED BY <2>2, <2>3, <2>4
<1>4. Nat \subseteq T
  <2> HIDE DEF T
  <2> QED BY <1>2, <1>3, Induction
<1>5. b - a \in T /\ a + (b - a) = b
  <2> HIDE DEF T
  <2> QED BY <1>4
<1> QED BY <1>5

\* What stands at a boundary is read as one frame.
LEMMA FrameRead ==
    ASSUME NEW w \in Files, Framed(w), NEW p, Boundary(w, p), p < Len(w)
    PROVE  FramesBetween(w, p, p + Size(w[p + 1].len)) = <<FrameOf(w[p + 1])>>
<1> DEFINE c == w[p + 1]
<1>1. PICK s \in Nat : s = Size(c.len) /\ s > 0
  BY FrameAtBoundary, FileCells
<1>2. /\ p \in Nat /\ p + 1 \in 1..Len(w) /\ Len(w) \in Nat
      /\ WholeFrameAt(w, p, c) /\ p + s <= Len(w)
  BY <1>1, FrameAtBoundary DEF Files
<1> HIDE DEF c
<1>3. \A j \in 1..s : w[p + j].id = c.id /\ w[p + j].len = c.len /\ w[p + j].at = j
  BY <1>1, <1>2, WholeCells
<1>4. PICK e \in Nat : e = (p + s) - 1
  BY <1>1, <1>2
<1>5. FramesBetween(w, p, e) = <<>>
  <2>1. ASSUME NEW i \in 1..Len(w), p < i, i <= e PROVE ~Ends(w[i])
    <3>1. i - p \in 1..s /\ p + (i - p) = i /\ i - p # s
      BY <1>2, <1>4, <2>1
    <3>2. w[i].at = i - p /\ w[i].len = c.len
      BY <1>3, <3>1
    <3> QED BY <1>1, <3>1, <3>2 DEF Ends
  <2> QED BY <1>1, <1>2, <1>4, <2>1, FrameBegun
<1>6. e \in p..(Len(w) - 1) /\ e + 1 = p + s /\ s \in 1..s
  BY <1>1, <1>2, <1>4
<1>7. Ends(w[e + 1]) /\ FrameOf(w[e + 1]) = FrameOf(c)
  BY <1>1, <1>3, <1>6 DEF Ends, FrameOf
<1>8. FramesBetween(w, p, e + 1) = Append(<<>>, FrameOf(c))
  BY <1>2, <1>5, <1>6, <1>7, FramesRecursion
<1>9. Append(<<>>, FrameOf(c)) = <<FrameOf(c)>>
  OBVIOUS
<1> QED BY <1>1, <1>6, <1>8, <1>9 DEF c

\* g[n] is what the first n frames take.
Sums(g, fs) ==
    /\ g \in [0..Len(fs) -> Nat] /\ g[0] = 0
    /\ \A n \in 1..Len(fs) : g[n] = g[n - 1] + FrameSize(fs[n])

LEMMA BytesAreSums ==
    ASSUME NEW fs \in Seq(WholeFrames)
    PROVE  \E g : Sums(g, fs) /\ AbstractLog!Bytes(fs) = g[Len(fs)]
<1> DEFINE k == Len(fs)
           step == [p \in Nat \X Int |-> IF p[1] + 1 \in 1..k THEN p[2] + FrameSize(fs[p[1] + 1]) ELSE 0]
<1>1. k \in Nat /\ \A n \in 1..k : FrameSize(fs[n]) \in Nat
  <2>1. k \in Nat /\ \A n \in 1..k : fs[n] \in WholeFrames
    BY LenProperties, ElementOfSeq
  <2>2. \A f \in WholeFrames : FrameSize(f) \in Nat
    <3>1. \A f \in WholeFrames : f.len \in Nat
      BY ConstantTypes DEF WholeFrames
    <3> QED BY <3>1, SizeType DEF FrameSize
  <2> HIDE DEF k
  <2> QED BY <2>1, <2>2
<1>2. step \in [Nat \X Int -> Int]
  BY <1>1
<1>3. PICK f \in [Nat -> Int] : f[0] = 0 /\ \A n \in Nat : f[n + 1] = step[<<n, f[n]>>]
  <2> HIDE DEF step
  <2>1. 0 \in Int
    OBVIOUS
  <2> QED BY <1>2, <2>1, IntegerRecursion
<1>4. ASSUME NEW n \in 1..k PROVE f[n] = f[n - 1] + FrameSize(fs[n])
  <2>1. n - 1 \in Nat /\ (n - 1) + 1 = n /\ f[n - 1] \in Int
    BY <1>1
  <2>2. f[n] = step[<<n - 1, f[n - 1]>>]
    <3> HIDE DEF step
    <3> QED BY <1>3, <2>1
  <2> QED BY <2>1, <2>2
<1> HIDE DEF step
<1> DEFINE h == [n \in 0..k |-> f[n]]
<1>5. h = [n \in 0..k |-> IF n = 0 THEN 0 ELSE h[n - 1] + FrameSize(fs[n])]
  BY <1>1, <1>3, <1>4
<1> DEFINE upTo[n \in 0..k] == IF n = 0 THEN 0 ELSE upTo[n - 1] + FrameSize(fs[n])
<1>6. upTo = [n \in 0..k |-> IF n = 0 THEN 0 ELSE upTo[n - 1] + FrameSize(fs[n])]
  <2> HIDE DEF h, k
  <2>1. \E g : g = [n \in 0..k |-> IF n = 0 THEN 0 ELSE g[n - 1] + FrameSize(fs[n])]
    BY <1>5
  <2> QED BY <2>1, Zenon DEF upTo
<1>7. AbstractLog!Bytes(fs) = upTo[k]
  BY Zenon DEF AbstractLog!Bytes, upTo, k
<1> HIDE DEF upTo
<1>8. upTo[0] = 0 /\ \A n \in 1..k : upTo[n] = upTo[n - 1] + FrameSize(fs[n])
  <2> HIDE DEF k
  <2>1. 0 \in 0..k /\ \A n \in 1..k : n \in 0..k /\ n # 0
    BY <1>1
  <2>2. \A n \in 0..k : upTo[n] = IF n = 0 THEN 0 ELSE upTo[n - 1] + FrameSize(fs[n])
    BY <1>6, Zenon
  <2> QED BY <2>1, <2>2
<1>9. upTo \in [0..k -> Nat]
  <2> DEFINE T == {n \in Nat : n \in 0..k => upTo[n] \in Nat}
  <2>1. 0 \in T
    BY <1>8
  <2>2. ASSUME NEW n \in Nat, n \in T PROVE n + 1 \in T
    <3> SUFFICES ASSUME n + 1 \in 0..k PROVE upTo[n + 1] \in Nat
      OBVIOUS
    <3>1. n \in 0..k /\ n + 1 \in 1..k /\ (n + 1) - 1 = n
      BY <1>1
    <3>2. upTo[n] \in Nat /\ FrameSize(fs[n + 1]) \in Nat
      BY <1>1, <2>2, <3>1
    <3>3. upTo[n + 1] = upTo[n] + FrameSize(fs[n + 1])
      BY <1>8, <3>1
    <3> QED BY <3>2, <3>3
  <2>3. Nat \subseteq T
    <3> HIDE DEF T
    <3> QED BY <2>1, <2>2, Induction
  <2>4. \A n \in 0..k : upTo[n] \in Nat
    BY <2>3
  <2> QED BY <1>6, <2>4
<1> QED BY <1>7, <1>8, <1>9 DEF Sums

LEMMA NoBytes == AbstractLog!Bytes(<<>>) = 0
<1>1. PICK g : Sums(g, <<>>) /\ AbstractLog!Bytes(<<>>) = g[Len(<<>>)]
  BY EmptySeq, BytesAreSums
<1> QED BY <1>1 DEF Sums

LEMMA BytesAppended ==
    ASSUME NEW fs \in Seq(WholeFrames), NEW f \in WholeFrames
    PROVE  /\ AbstractLog!Bytes(Append(fs, f)) = AbstractLog!Bytes(fs) + FrameSize(f)
           /\ AbstractLog!Bytes(fs) \in Nat
<1> DEFINE t == Append(fs, f)
<1>1. /\ t \in Seq(WholeFrames) /\ Len(t) = Len(fs) + 1 /\ Len(fs) \in Nat
      /\ t[Len(fs) + 1] = f /\ \A n \in 1..Len(fs) : t[n] = fs[n]
  BY AppendProperties, LenProperties
<1> HIDE DEF t
<1>2. PICK g : Sums(g, fs) /\ AbstractLog!Bytes(fs) = g[Len(fs)]
  BY BytesAreSums
<1>3. PICK h : Sums(h, t) /\ AbstractLog!Bytes(t) = h[Len(t)]
  BY <1>1, BytesAreSums
<1> DEFINE T == {n \in Nat : n \in 0..Len(fs) => g[n] = h[n]}
<1>4. 0 \in T
  BY <1>2, <1>3 DEF Sums
<1>5. ASSUME NEW n \in Nat, n \in T PROVE n + 1 \in T
  <2> SUFFICES ASSUME n + 1 \in 0..Len(fs) PROVE g[n + 1] = h[n + 1]
    OBVIOUS
  <2>1. n \in 0..Len(fs) /\ n + 1 \in 1..Len(fs) /\ n + 1 \in 1..Len(t) /\ (n + 1) - 1 = n
    BY <1>1
  <2>2. g[n + 1] = g[n] + FrameSize(fs[n + 1]) /\ h[n + 1] = h[n] + FrameSize(t[n + 1])
    BY <1>2, <1>3, <2>1 DEF Sums
  <2> QED BY <1>1, <1>5, <2>1, <2>2
<1>6. Nat \subseteq T
  <2> HIDE DEF T
  <2> QED BY <1>4, <1>5, Induction
<1>7. Len(fs) \in T
  <2> HIDE DEF T
  <2> QED BY <1>1, <1>6
<1>8. g[Len(fs)] = h[Len(fs)] /\ g[Len(fs)] \in Nat
  BY <1>1, <1>2, <1>7 DEF Sums
<1>9. h[Len(t)] = h[Len(fs)] + FrameSize(f)
  <2>1. Len(t) \in 1..Len(t) /\ Len(t) - 1 = Len(fs) /\ t[Len(t)] = f
    BY <1>1
  <2> QED BY <1>3, <2>1 DEF Sums
<1> QED BY <1>2, <1>3, <1>8, <1>9 DEF t

\* A cell is the first of a frame or follows one of its own frame.
LEMMA NextCell ==
    ASSUME NEW w \in Files, Framed(w), NEW q \in Nat, q + 1 <= Len(w), q > 0
    PROVE  IF Ends(w[q]) THEN w[q + 1].at = 1
           ELSE w[q + 1].at = w[q].at + 1 /\ w[q + 1].len = w[q].len
<1> DEFINE c == w[q]
           d == w[q + 1]
<1>1. Len(w) \in Nat /\ q \in 1..Len(w) /\ q + 1 \in 1..Len(w)
  BY DEF Files
<1>2. /\ c.at \in Nat /\ c.at >= 1 /\ c.at <= Size(c.len) /\ c.at <= q /\ Size(c.len) \in Nat
      /\ WholeFrameAt(w, q - c.at, c)
  BY <1>1, FrameOfCell, FileCells
<1>3. /\ d.at \in Nat /\ d.at >= 1 /\ d.at <= Size(d.len) /\ d.at <= q + 1 /\ Size(d.len) \in Nat
      /\ WholeFrameAt(w, (q + 1) - d.at, d)
  BY <1>1, FrameOfCell, FileCells
<1> HIDE DEF c, d
<1>4. CASE ~Ends(c)
  <2>1. c.at + 1 \in 1..Size(c.len) /\ (q - c.at) + (c.at + 1) = q + 1
    BY <1>2, <1>4 DEF Ends
  <2>2. w[q + 1].at = c.at + 1 /\ w[q + 1].len = c.len
    BY <1>2, <2>1, WholeCells
  <2> QED BY <1>4, <2>2 DEF c, d
<1>5. CASE Ends(c)
  <2>1. SUFFICES ASSUME d.at > 1 PROVE FALSE
    BY <1>3, <1>5 DEF c, d
  <2>2. d.at - 1 \in 1..Size(d.len) /\ ((q + 1) - d.at) + (d.at - 1) = q
    BY <1>3, <2>1
  <2>3. w[q].at = d.at - 1 /\ w[q].len = d.len
    BY <1>3, <2>2, WholeCells
  <2>4. d.at - 1 = Size(d.len)
    BY <1>5, <2>3 DEF Ends, c
  <2> QED BY <1>3, <2>4
<1> QED BY <1>4, <1>5

\* What the cells from a boundary to offset q have in excess of whole frames.
LEMMA CellBytes ==
    ASSUME NEW w \in Files, Framed(w), NEW a, Boundary(w, a), NEW b \in Nat, a <= b, b <= Len(w)
    PROVE  AbstractLog!Bytes(FramesBetween(w, a, b))
             = IF b = a \/ Ends(w[b]) THEN b - a ELSE (b - a) - w[b].at
<1> DEFINE B(q) == AbstractLog!Bytes(FramesBetween(w, a, q))
           T == {n \in Nat : a + n <= Len(w) =>
                   B(a + n) = IF n = 0 \/ Ends(w[a + n]) THEN n ELSE n - w[a + n].at}
<1>1. Len(w) \in Nat /\ a \in Nat /\ a <= Len(w)
  BY DEF Files, Boundary
<1>2. 0 \in T
  <2>1. FramesBetween(w, a, a) = <<>> /\ a + 0 = a
    BY <1>1, FramesRecursion
  <2> QED BY <2>1, NoBytes
<1>3. ASSUME NEW n \in Nat, n \in T PROVE n + 1 \in T
  <2> SUFFICES ASSUME a + (n + 1) <= Len(w)
               PROVE  B(a + (n + 1)) = IF Ends(w[a + (n + 1)]) THEN n + 1 ELSE (n + 1) - w[a + (n + 1)].at
    OBVIOUS
  <2>1. PICK q \in Nat : q = a + n
    BY <1>1
  <2>2. /\ a + n <= Len(w) /\ q \in a..(Len(w) - 1) /\ a + (n + 1) = q + 1
        /\ q + 1 \in 1..Len(w) /\ q + 1 <= Len(w) /\ (q # a => q > 0 /\ q \in 1..Len(w))
    BY <1>1, <2>1
  <2>3. FramesBetween(w, a, q + 1) =
          IF Ends(w[q + 1]) THEN Append(FramesBetween(w, a, q), FrameOf(w[q + 1])) ELSE FramesBetween(w, a, q)
    BY <1>1, <2>2, FramesRecursion
  <2>4. FramesBetween(w, a, q) \in Seq(WholeFrames) /\ FrameOf(w[q + 1]) \in WholeFrames
    BY <1>1, <2>2, FramesRecursion, FrameOfType
  <2>5. B(q + 1) = IF Ends(w[q + 1]) THEN B(q) + Size(w[q + 1].len) ELSE B(q)
    <3>1. FrameSize(FrameOf(w[q + 1])) = Size(w[q + 1].len)
      BY DEF FrameSize, FrameOf
    <3> QED BY <2>3, <2>4, <3>1, BytesAppended
  <2>6. B(q) = IF q = a \/ Ends(w[q]) THEN n ELSE n - w[q].at
    BY <1>1, <1>3, <2>1, <2>2
  <2>7. CASE q = a \/ Ends(w[q])
    <3>1. w[q + 1].at = 1
      <4>1. CASE q = a
        BY <1>1, <2>2, <4>1 DEF Boundary
      <4>2. CASE q # a
        BY <2>2, <2>7, <4>2, NextCell
      <4> QED BY <4>1, <4>2
    <3> HIDE DEF B
    <3> QED BY <2>2, <2>5, <2>6, <2>7, <3>1 DEF Ends
  <2>8. CASE ~(q = a \/ Ends(w[q]))
    <3>1. w[q + 1].at = w[q].at + 1 /\ w[q + 1].len = w[q].len
      BY <2>2, <2>8, NextCell
    <3>2. PICK k \in Nat : k = w[q].at
      BY <2>2, <2>8, FileCells
    <3> HIDE DEF B
    <3> QED BY <2>2, <2>5, <2>6, <2>8, <3>1, <3>2, SMTT(30), ZenonT(30) DEF Ends
  <2> QED BY <2>7, <2>8
<1>4. Nat \subseteq T
  <2> HIDE DEF T
  <2> QED BY <1>2, <1>3, Induction
<1>5. b - a \in T /\ a + (b - a) = b /\ (b - a = 0 <=> b = a)
  <2> HIDE DEF T
  <2> QED BY <1>1, <1>4
<1> QED BY <1>5

\* Whole frames take the bytes between their boundaries.
LEMMA BytesBetween ==
    ASSUME NEW w \in Files, Framed(w), NEW a, Boundary(w, a), NEW b, Boundary(w, b), a <= b
    PROVE  AbstractLog!Bytes(FramesBetween(w, a, b)) = b - a
<1>1. Len(w) \in Nat /\ a \in Nat /\ b \in Nat /\ b <= Len(w)
  BY DEF Files, Boundary
<1>2. ASSUME b # a PROVE Ends(w[b])
  <2>1. b > 0 /\ b \in 1..Len(w)
    BY <1>1, <1>2
  <2>2. CASE b < Len(w)
    <3>1. w[b + 1].at = 1 /\ b + 1 <= Len(w)
      BY <1>1, <2>2 DEF Boundary
    <3>2. w[b].at \in Nat /\ w[b].at >= 1
      BY <2>1, FrameOfCell, FileCells
    <3>3. SUFFICES ASSUME ~Ends(w[b]) PROVE FALSE
      OBVIOUS
    <3>4. w[b + 1].at = w[b].at + 1
      BY <1>1, <2>1, <3>1, <3>3, NextCell
    <3> QED BY <3>1, <3>2, <3>4
  <2>3. CASE b = Len(w)
    <3>1. /\ w[b].at \in Nat /\ w[b].at >= 1 /\ w[b].at <= Size(w[b].len) /\ w[b].at <= b
          /\ Size(w[b].len) \in Nat /\ WholeFrameAt(w, b - w[b].at, w[b])
      BY <2>1, FrameOfCell, FileCells
    <3>2. (b - w[b].at) + Size(w[b].len) <= Len(w)
      BY <3>1 DEF WholeFrameAt
    <3> QED BY <1>1, <2>3, <3>1, <3>2 DEF Ends
  <2> QED BY <1>1, <2>2, <2>3
<1>3. AbstractLog!Bytes(FramesBetween(w, a, b)) = IF b = a \/ Ends(w[b]) THEN b - a ELSE (b - a) - w[b].at
  BY <1>1, CellBytes
<1> QED BY <1>2, <1>3

-----------------------------------------------------------------------------
LEMMA ConcatParts ==
    ASSUME NEW S, NEW s \in Seq(S), NEW t \in Seq(S)
    PROVE  /\ AbstractLog!Rest(s \o t, Len(s)) = t
           /\ SubSeq(s \o t, 1, Len(s)) = s
<1> DEFINE u == s \o t
<1>1. /\ u \in Seq(S) /\ Len(s) \in Nat /\ Len(t) \in Nat /\ Len(u) = Len(s) + Len(t)
      /\ \A i \in 1..(Len(s) + Len(t)) : u[i] \in S
      /\ \A i \in 1..Len(s) : u[i] = s[i]
      /\ \A i \in 1..Len(t) : u[Len(s) + i] = t[i]
  <2>1. /\ u \in Seq(S) /\ Len(s) \in Nat /\ Len(t) \in Nat /\ Len(u) = Len(s) + Len(t)
        /\ \A i \in 1..(Len(s) + Len(t)) : u[i] = IF i <= Len(s) THEN s[i] ELSE t[i - Len(s)]
    BY ConcatProperties, LenProperties
  <2> HIDE DEF u
  <2>2. \A i \in 1..Len(u) : u[i] \in S
    BY <2>1, ElementOfSeq
  <2>3. ASSUME NEW i \in 1..Len(t) PROVE u[Len(s) + i] = t[i]
    <3>1. Len(s) + i \in 1..(Len(s) + Len(t)) /\ ~(Len(s) + i <= Len(s)) /\ (Len(s) + i) - Len(s) = i
      BY <2>1
    <3> QED BY <2>1, <3>1
  <2> QED BY <2>1, <2>2, <2>3
<1> HIDE DEF u
<1>2. PICK n \in Nat : n = Len(s)
  BY <1>1
<1>3. PICK m \in Nat : m = Len(t)
  BY <1>1
<1>4. SubSeq(u, n + 1, n + m) = t
  <2> DEFINE v == SubSeq(u, n + 1, n + m)
  <2>1. /\ v \in Seq(S) /\ Len(v) = m /\ \A i \in 1..m : v[i] = u[n + i]
    <3>1. \A i \in (n + 1)..(n + m) : u[i] \in S
      BY <1>1, <1>2, <1>3
    <3>2. /\ v \in Seq(S) /\ Len(v) = IF n + 1 <= n + m THEN (n + m) - (n + 1) + 1 ELSE 0
          /\ \A i \in 1..((n + m) - (n + 1) + 1) : v[i] = u[(n + 1) + i - 1]
      BY <3>1, SubSeqProperties
    <3>3. (n + m) - (n + 1) + 1 = m /\ \A i \in 1..m : (n + 1) + i - 1 = n + i
      OBVIOUS
    <3> HIDE DEF v
    <3> QED BY <3>2, <3>3
  <2> HIDE DEF v
  <2>2. \A i \in 1..Len(v) : v[i] = t[i]
    BY <1>1, <1>2, <1>3, <2>1
  <2>3. v = t
    BY <1>3, <2>1, <2>2, SeqEqual
  <2> QED BY <2>3 DEF v
<1>5. SubSeq(u, 1, n) = s
  <2> DEFINE v == SubSeq(u, 1, n)
  <2>1. v \in Seq(S) /\ Len(v) = n /\ \A i \in 1..n : v[i] = u[i]
    <3>1. \A i \in 1..n : u[i] \in S
      BY <1>1, <1>2
    <3>2. /\ v \in Seq(S) /\ Len(v) = IF 1 <= n THEN n - 1 + 1 ELSE 0
          /\ \A i \in 1..(n - 1 + 1) : v[i] = u[1 + i - 1]
      BY <3>1, SubSeqProperties
    <3>3. n - 1 + 1 = n /\ \A i \in 1..n : 1 + i - 1 = i
      OBVIOUS
    <3> HIDE DEF v
    <3> QED BY <3>2, <3>3
  <2> HIDE DEF v
  <2>2. v = s
    BY <1>1, <1>2, <2>1, SeqEqual
  <2> QED BY <2>2 DEF v
<1>6. AbstractLog!Rest(u, Len(s)) = SubSeq(u, n + 1, n + m)
  BY <1>1, <1>2, <1>3 DEF AbstractLog!Rest
<1> QED BY <1>2, <1>4, <1>5, <1>6 DEF u

-----------------------------------------------------------------------------
(* The scan of an eviction *)

\* The scan is under way because the frame does not fit, and it took the
\* last frame because what it had before did not make enough room.
Scanning ==
    pc = "evict" =>
        /\ Remaining + Size(pending) > MaxBytes
        /\ freed > 0 => \E p \in Nat :
                          /\ read_pos <= p /\ p < Len(wal) /\ Boundary(wal, p)
                          /\ p - read_pos < MustFree
                          /\ p + Size(wal[p + 1].len) = read_pos + freed

LEMMA NextScanning == Typed /\ Sound /\ Scanning /\ [Next]_vars => Scanning'
<1> SUFFICES ASSUME Typed, Sound, Scanning, [Next]_vars, pc' = "evict" PROVE Scanning'
  BY DEF Scanning
<1>1. CASE \E len \in BodyLens : AppendStart(len)
  <2>1. PICK len \in BodyLens : AppendStart(len)
    BY <1>1
  <2>2. /\ ~(Remaining + Size(len) <= MaxBytes) /\ pending' = len /\ freed' = 0
        /\ Remaining' = Remaining
    BY <2>1 DEF AppendStart, memory, Remaining
  <2>3. Remaining \in Int /\ Size(len) \in Int
    BY ConstantTypes, SizeType DEF Remaining, Typed, TypeOK
  <2> QED BY <2>2, <2>3, ConstantTypes DEF Scanning
<1>2. CASE EvictScan
  <2>1. PICK p \in Nat : p = read_pos + freed
    BY SoundFacts
  <2>2. pc = "evict" /\ Boundary(wal, p) /\ wal \in Files /\ Framed(wal) /\ up /\ read_pos <= p
    BY <1>2, <2>1, SoundFacts DEF EvictScan, Sound, PositionsSound
  <2>3. PICK len \in HeaderLens(p) : freed' = freed + Size(len) /\ freed < MustFree
    BY <1>2, <2>1 DEF EvictScan, ScanGoesOn
  <2>4. p < Len(wal) /\ len = wal[p + 1].len /\ Size(len) \in Nat
    <3>1. p < Len(wal) /\ len = wal[p + 1].len
      <4>1. Len(wal) \in Nat
        BY SoundFacts
      <4>2. CASE p >= Len(wal)
        <5>1. HeaderLens(p) = {}
          BY <2>2, <4>2, HeaderAtBoundary DEF Typed
        <5> QED BY <2>3, <5>1
      <4>3. CASE p < Len(wal)
        <5>1. HeaderLens(p) = {wal[p + 1].len}
          BY <2>2, <4>3, HeaderAtBoundary DEF Typed
        <5> QED BY <2>3, <4>3, <5>1
      <4> QED BY <4>1, <4>2, <4>3
    <3>2. Size(wal[p + 1].len) \in Nat
      BY <2>2, <3>1, FrameAtBoundary, FileCells
    <3> QED BY <3>1, <3>2
  <2>5. p + Size(wal[p + 1].len) = read_pos + freed' /\ p - read_pos < MustFree
    BY <2>1, <2>3, <2>4, SoundFacts
  <2>6. UNCHANGED <<wal, read_pos, write_pos, pending>> /\ Remaining' = Remaining /\ MustFree' = MustFree
    BY <1>2 DEF EvictScan, disk, memory, Remaining, MustFree
  <2> QED BY <2>2, <2>4, <2>5, <2>6 DEF Scanning
<1>3. CASE UNCHANGED vars
  <2>1. UNCHANGED <<wal, read_pos, write_pos, pending, freed, pc>> /\ Remaining' = Remaining /\ MustFree' = MustFree
    BY <1>3 DEF vars, Remaining, MustFree
  <2> QED BY <2>1 DEF Scanning
<1>4. CASE \/ Open \/ Close \/ Crash \/ EvictPersist \/ EvictReadFails \/ WriteFrame \/ WriteFails
           \/ DrainFrame \/ DrainSkips \/ DrainReadFails \/ Commit \/ CompactRename
           \/ CompactTruncate \/ CompactFails \/ CompactReopenFails \/ CompactPersist
  <2>1. pc' # "evict"
    <3>1. CASE Open \/ DrainFrame \/ DrainSkips \/ DrainReadFails
      <4>1. pc' = pc /\ pc = "idle"
        BY <3>1 DEF Open, DrainFrame, DrainSkips, DrainReadFails, DrainMayRead, ResetToEnd, control,
                    Typed, ControlOK
      <4> QED BY <4>1
    <3>2. CASE Close \/ Crash \/ EvictReadFails \/ WriteFrame \/ WriteFails \/ CompactFails \/ CompactReopenFails
      BY <3>2 DEF Close, Crash, Forget, EvictReadFails, WriteFrame, WriteFails, CompactFails,
                  CompactReopenFails, Return
    <3>3. CASE EvictPersist \/ Commit \/ CompactPersist \/ CompactRename \/ CompactTruncate
      BY <3>3 DEF EvictPersist, Commit, CompactPersist, CompactRename, CompactTruncate, MaybeCompact,
                  AfterCompact, Return
    <3> QED BY <1>4, <3>1, <3>2, <3>3
  <2> QED BY <2>1
<1> QED BY <1>1, <1>2, <1>3, <1>4 DEF Next

-----------------------------------------------------------------------------
(* The steps of the frame log *)

LEMMA MappingTypes ==
    ASSUME Typed
    PROVE  /\ Unread \in Seq(WholeFrames) /\ Uncommitted \in Seq(WholeFrames)
           /\ pending = None => Arriving = [id |-> 0, len |-> None]
           /\ pending # None => /\ Arriving = [id |-> written + 1, len |-> pending]
                                /\ Arriving \in WholeFrames /\ Arriving # [id |-> 0, len |-> None]
<1>1. /\ wal \in Files /\ Len(wal) \in Nat /\ read_pos \in Nat /\ cursor \in Nat /\ ReadFrom \in Nat
  BY WalIsFile DEF Typed, TypeOK, ReadFrom
<1>2. Unread \in Seq(WholeFrames)
  BY <1>1, FramesRecursion DEF Unread
<1>3. Uncommitted \in Seq(WholeFrames)
  <2>1. FramesBetween(wal, cursor, read_pos) \in Seq(WholeFrames)
    BY <1>1, FramesRecursion
  <2> QED BY <2>1, EmptySeq DEF Uncommitted
<1>4. pending = None => Arriving = [id |-> 0, len |-> None]
  BY DEF Arriving
<1>5. ASSUME pending # None
      PROVE  /\ Arriving = [id |-> written + 1, len |-> pending]
             /\ Arriving \in WholeFrames /\ Arriving # [id |-> 0, len |-> None]
  <2>1. written + 1 \in Ids /\ pending \in BodyLens /\ written + 1 # 0
    BY <1>5, ConstantTypes DEF Typed, TypeOK, ControlOK, Ids
  <2>2. Arriving = [id |-> written + 1, len |-> pending]
    BY <1>5 DEF Arriving
  <2>3. [id |-> written + 1, len |-> pending] # [id |-> 0, len |-> None]
    <3>1. [id |-> written + 1, len |-> pending].id # [id |-> 0, len |-> None].id
      BY <2>1
    <3> QED BY <3>1
  <2> QED BY <2>1, <2>2, <2>3 DEF WholeFrames
<1> QED BY <1>2, <1>3, <1>4, <1>5

\* What a running process has unread and uncommitted.
LEMMA MappingWhenUp ==
    ASSUME Typed, Sound, up
    PROVE  /\ wal \in Files /\ Framed(wal) /\ Len(wal) \in Nat /\ write_pos = Len(wal)
           /\ read_pos \in Nat /\ read_pos <= Len(wal) /\ Boundary(wal, read_pos)
           /\ Unread = FramesBetween(wal, read_pos, Len(wal))
           /\ pc # "recursor" =>
                /\ cursor \in Nat /\ cursor <= read_pos /\ Boundary(wal, cursor)
                /\ Uncommitted = FramesBetween(wal, cursor, read_pos)
                /\ FramesBetween(wal, cursor, Len(wal)) = Uncommitted \o Unread
           /\ pc = "recursor" => Uncommitted = <<>>
<1>1. /\ wal \in Files /\ Framed(wal) /\ Len(wal) \in Nat /\ write_pos = Len(wal)
      /\ read_pos \in Nat /\ read_pos <= Len(wal) /\ Boundary(wal, read_pos)
  BY SoundFacts
<1>2. Unread = FramesBetween(wal, read_pos, Len(wal))
  BY DEF Unread, ReadFrom
<1>3. pc = "recursor" => Uncommitted = <<>>
  BY DEF Uncommitted
<1>4. ASSUME pc # "recursor"
      PROVE  /\ cursor \in Nat /\ cursor <= read_pos /\ Boundary(wal, cursor)
             /\ Uncommitted = FramesBetween(wal, cursor, read_pos)
             /\ FramesBetween(wal, cursor, Len(wal)) = Uncommitted \o Unread
  <2>1. cursor \in Nat /\ cursor <= read_pos /\ Boundary(wal, cursor)
    BY <1>4, SoundFacts DEF Sound, PositionsSound
  <2>2. Uncommitted = FramesBetween(wal, cursor, read_pos)
    BY <1>4 DEF Uncommitted
  <2>3. FramesBetween(wal, cursor, Len(wal))
          = FramesBetween(wal, cursor, read_pos) \o FramesBetween(wal, read_pos, Len(wal))
    <3>1. PICK n \in Nat : n = Len(wal)
      BY <1>1
    <3>2. read_pos <= n /\ n <= Len(wal)
      BY <1>1, <3>1
    <3>3. FramesBetween(wal, cursor, n) = FramesBetween(wal, cursor, read_pos) \o FramesBetween(wal, read_pos, n)
      BY <1>1, <2>1, <3>2, FramesSplit
    <3> QED BY <3>1, <3>3
  <2> QED BY <1>2, <2>1, <2>2, <2>3
<1> QED BY <1>1, <1>2, <1>3, <1>4

LEMMA NothingBetween == \A w \in Files, a \in Nat : FramesBetween(w, a, a) = <<>>
BY FramesRecursion

\* A file with one more frame.
LEMMA FramesWithOneMore ==
    ASSUME NEW w \in Files, Framed(w), NEW id \in Ids, NEW len \in BodyLens
    PROVE  LET v == w \o FrameCells(id, len) IN
           /\ v \in Files /\ Len(v) = Len(w) + Size(len)
           /\ \A a, b \in 0..Len(w) : a <= b => FramesBetween(v, a, b) = FramesBetween(w, a, b)
           /\ \A a \in 0..Len(w) :
                FramesBetween(v, a, Len(v)) =
                  Append(FramesBetween(w, a, Len(w)), [id |-> id, len |-> len])
<1> DEFINE v == w \o FrameCells(id, len)
<1>1. PICK n \in Nat : n = Len(w)
  BY DEF Files
<1>2. PICK s \in Nat : s = Size(len) /\ s > 0
  BY FrameCellsType
<1>3. v \in Files /\ Len(v) = n + s /\ Framed(v) /\ \A p : Boundary(w, p) => Boundary(v, p)
  BY <1>1, <1>2, AppendFrame
<1>4. /\ \A i \in 1..n : v[i] = w[i]
      /\ v[n + 1] = [id |-> id, len |-> len, at |-> 1]
  <2>1. FrameCells(id, len) \in Seq(CellType) /\ Len(FrameCells(id, len)) = s
    BY <1>2, FrameCellsType
  <2>2. \A i \in 1..(n + s) : v[i] = IF i <= n THEN w[i] ELSE FrameCells(id, len)[i - n]
    BY <1>1, <2>1, ConcatProperties DEF Files
  <2>3. FrameCells(id, len)[1] = [id |-> id, len |-> len, at |-> 1]
    BY <1>2 DEF FrameCells
  <2> HIDE DEF v
  <2>4. n + 1 \in 1..(n + s) /\ ~(n + 1 <= n) /\ (n + 1) - n = 1 /\ \A i \in 1..n : i \in 1..(n + s) /\ i <= n
    BY <1>2
  <2> QED BY <2>2, <2>3, <2>4
<1> HIDE DEF v
<1>5. ASSUME NEW a \in 0..Len(w), NEW b \in 0..Len(w), a <= b
      PROVE  FramesBetween(v, a, b) = FramesBetween(w, a, b)
  <2>1. a \in Nat /\ b \in Nat /\ b <= Len(v) /\ b + 0 <= Len(w) /\ a + 0 = a /\ b + 0 = b
    BY <1>1, <1>2, <1>3, <1>5
  <2>2. \A i \in 1..Len(v) : a < i /\ i <= b => v[i] = w[i + 0]
    BY <1>1, <1>3, <1>4, <1>5
  <2>3. FramesBetween(v, a, b) = FramesBetween(w, a + 0, b + 0)
    <3>1. PICK d \in Nat : d = 0
      OBVIOUS
    <3>2. \A i \in 1..Len(v) : a < i /\ i <= b => v[i] = w[i + d]
      BY <2>2, <3>1
    <3>3. b + d <= Len(w)
      BY <2>1, <3>1
    <3>4. FramesBetween(v, a, b) = FramesBetween(w, a + d, b + d)
      BY <1>3, <1>5, <2>1, <3>2, <3>3, FramesAgree
    <3> QED BY <3>1, <3>4
  <2> QED BY <2>1, <2>3
<1>6. ASSUME NEW a \in 0..Len(w)
      PROVE  FramesBetween(v, a, Len(v)) = Append(FramesBetween(w, a, Len(w)), [id |-> id, len |-> len])
  <2>1. a \in Nat /\ a <= n /\ n <= Len(v) /\ n < Len(v) /\ Len(v) \in Nat
    BY <1>1, <1>2, <1>3, <1>6
  <2>2. FramesBetween(v, a, Len(v)) = FramesBetween(v, a, n) \o FramesBetween(v, n, Len(v))
    BY <1>3, <2>1, FramesSplit
  <2>3. FramesBetween(v, a, n) = FramesBetween(w, a, n)
    BY <1>1, <1>5, <2>1
  <2>4. Boundary(v, n)
    <3>1. Boundary(w, n)
      BY <1>1 DEF Boundary
    <3> QED BY <1>3, <3>1
  <2>5. v[n + 1].len = len /\ FrameOf(v[n + 1]) = [id |-> id, len |-> len]
    BY <1>4 DEF FrameOf
  <2>6. FramesBetween(v, n, n + s) = <<[id |-> id, len |-> len]>>
    BY <1>2, <1>3, <2>1, <2>4, <2>5, FrameRead
  <2>7. FramesBetween(w, a, n) \in Seq(WholeFrames) /\ [id |-> id, len |-> len] \in WholeFrames
    BY <2>1, FramesRecursion DEF WholeFrames
  <2>8. Append(FramesBetween(w, a, n), [id |-> id, len |-> len])
          = FramesBetween(w, a, n) \o <<[id |-> id, len |-> len]>>
    BY <2>7, AppendIsConcat
  <2> QED BY <1>1, <1>3, <2>2, <2>3, <2>6, <2>8
<1> QED BY <1>1, <1>2, <1>3, <1>5, <1>6 DEF v

\* How the frame log may step, in terms of what it is mapped to.
LEMMA AbstractStutter ==
    UNCHANGED <<Unread, Uncommitted, Arriving>> => UNCHANGED AbstractLog!vars
BY DEF AbstractLog!vars

LEMMA AbstractCommit ==
    Uncommitted' = <<>> /\ UNCHANGED <<Unread, Arriving>> => AbstractLog!Next
BY DEF AbstractLog!Next, AbstractLog!Commit

LEMMA AbstractTake ==
    ASSUME Unread # <<>>, Unread' = Tail(Unread), Uncommitted' = Append(Uncommitted, Head(Unread)),
           UNCHANGED Arriving
    PROVE  AbstractLog!Next
BY DEF AbstractLog!Next, AbstractLog!Take

LEMMA OpenMaps ==
    Typed /\ Sound /\ Open => UNCHANGED <<Unread, Uncommitted, Arriving>>
<1> SUFFICES ASSUME Typed, Sound, Open PROVE UNCHANGED <<Unread, Uncommitted, Arriving>>
  OBVIOUS
<1>1. /\ wal' = wal /\ up' = TRUE /\ ~up /\ pc = "idle" /\ pc' = pc
      /\ UNCHANGED <<pending, written>> /\ wal \in Files
  BY SoundFacts DEF Open, control, history, Sound, PositionsSound
<1>2. ResumePos = cursor /\ cursor \in Nat
  BY <1>1, SoundFacts DEF ResumePos, MinOf
<1>3. read_pos' = cursor /\ cursor' = cursor
  BY <1>2 DEF Open, PersistCursor
<1>4. Unread' = Unread
  BY <1>1, <1>3 DEF Unread, ReadFrom
<1>5. Uncommitted = <<>> /\ Uncommitted' = <<>>
  BY <1>1, <1>2, <1>3, NothingBetween DEF Uncommitted
<1> QED BY <1>1, <1>4, <1>5 DEF Arriving

LEMMA CloseMaps == MildFailures /\ Typed /\ Sound /\ Close => AbstractLog!Next
<1> SUFFICES ASSUME MildFailures, Typed, Sound, Close PROVE AbstractLog!Next
  OBVIOUS
<1>1. /\ wal' = wal /\ up' = FALSE /\ up /\ pc = "idle" /\ pc' = "idle" /\ pending' = None
      /\ written' = written /\ pending = None
  BY DEF Close, Forget, Return, history, Typed, ControlOK
<1>2. cursor' \in {read_pos, cursor}
  BY DEF Close, LastPersist
<1>3. Arriving' = Arriving /\ Uncommitted' = <<>> /\ Arriving = [id |-> 0, len |-> None]
  BY <1>1 DEF Arriving, Uncommitted
<1>4. Unread' = FramesBetween(wal, cursor', Len(wal))
  BY <1>1 DEF Unread, ReadFrom
<1>5. CASE cursor' = read_pos
  <2>1. Unread' = Unread
    BY <1>1, <1>4, <1>5, MappingWhenUp
  <2> QED BY <1>3, <2>1, AbstractCommit
<1>6. CASE cursor' = cursor
  <2>1. Unread' = Uncommitted \o Unread
    BY <1>1, <1>4, <1>6, MappingWhenUp
  <2> QED BY <1>3, <2>1 DEF AbstractLog!Next, AbstractLog!Crash
<1> QED BY <1>2, <1>5, <1>6

LEMMA CrashMaps == MildFailures /\ Typed /\ Sound /\ Crash => AbstractLog!Next
<1> SUFFICES ASSUME MildFailures, Typed, Sound, Crash PROVE AbstractLog!Next
  OBVIOUS
<1>1. /\ up' = FALSE /\ up /\ pc # "recursor" /\ pc' = "idle" /\ cursor' = cursor /\ pending' = None
  BY DEF Crash, Forget, Return, MildFailures
<1>2. /\ wal \in Files /\ Framed(wal) /\ Len(wal) \in Nat /\ cursor \in 0..Len(wal)
      /\ FramesBetween(wal, cursor, Len(wal)) = Uncommitted \o Unread
  BY <1>1, MappingWhenUp DEF Boundary
<1>3. Uncommitted' = <<>> /\ Arriving' = [id |-> 0, len |-> None]
  BY <1>1 DEF Uncommitted, Arriving
<1>4. Unread' = FramesBetween(wal', cursor, Len(wal'))
  BY <1>1 DEF Unread, ReadFrom
<1>5. CASE wal' = wal
  <2>1. Unread' = Uncommitted \o Unread
    BY <1>2, <1>4, <1>5
  <2> QED BY <1>3, <2>1 DEF AbstractLog!Next, AbstractLog!Crash
<1>6. CASE pc = "write" /\ wal' = wal \o FrameCells(written + 1, pending)
  <2>1. /\ written + 1 \in Ids /\ pending \in BodyLens /\ pending # None
        /\ Arriving = [id |-> written + 1, len |-> pending] /\ Arriving # [id |-> 0, len |-> None]
    BY <1>6, ConstantTypes, MappingTypes DEF Typed, TypeOK, ControlOK, Ids
  <2>2. Unread' = Append(Uncommitted \o Unread, Arriving)
    <3>1. PICK id \in Ids : id = written + 1
      BY <2>1
    <3>2. FramesBetween(wal \o FrameCells(id, pending), cursor, Len(wal \o FrameCells(id, pending)))
            = Append(FramesBetween(wal, cursor, Len(wal)), [id |-> id, len |-> pending])
      BY <1>2, <2>1, FramesWithOneMore
    <3> QED BY <1>2, <1>4, <1>6, <2>1, <3>1, <3>2
  <2> QED BY <1>3, <2>1, <2>2 DEF AbstractLog!Next, AbstractLog!Crash
<1> QED BY <1>5, <1>6, CrashFile

LEMMA AppendStartMaps ==
    ASSUME Typed, Sound, NEW len \in BodyLens, AppendStart(len)
    PROVE  AbstractLog!Next
<1>1. /\ up /\ pc = "idle" /\ written < MaxFrames /\ pending' = len /\ pc' \in {"write", "evict"}
      /\ UNCHANGED <<wal, cursor, up, read_pos, written>> /\ pending = None
  BY DEF AppendStart, disk, memory, history, Typed, ControlOK
<1>2. UNCHANGED <<Unread, Uncommitted>>
  BY <1>1 DEF Unread, ReadFrom, Uncommitted
<1>3. Arriving = [id |-> 0, len |-> None]
  BY <1>1 DEF Arriving
<1>4. Arriving' \in WholeFrames
  <2>1. written + 1 \in Ids /\ len # None
    BY <1>1, ConstantTypes DEF Typed, TypeOK, Ids, None
  <2>2. Arriving' = [id |-> written + 1, len |-> len]
    BY <1>1, <2>1 DEF Arriving
  <2> QED BY <2>1, <2>2 DEF WholeFrames
<1> QED BY <1>2, <1>3, <1>4 DEF AbstractLog!Next, AbstractLog!BeginStore, WholeFrames

LEMMA EvictScanMaps == EvictScan => UNCHANGED <<Unread, Uncommitted, Arriving>>
<1> SUFFICES ASSUME EvictScan PROVE UNCHANGED <<Unread, Uncommitted, Arriving>>
  OBVIOUS
<1>1. UNCHANGED <<wal, cursor, up, read_pos, pc, pending, written>>
  BY DEF EvictScan, disk, memory, history
<1> QED BY <1>1 DEF Unread, ReadFrom, Uncommitted, Arriving

LEMMA WriteFrameMaps == Typed /\ Sound /\ WriteFrame => AbstractLog!Next
<1> SUFFICES ASSUME Typed, Sound, WriteFrame PROVE AbstractLog!Next
  OBVIOUS
<1>1. /\ pc = "write" /\ up /\ pending # None /\ pending \in BodyLens /\ written + 1 \in Ids
  BY SoundFacts, ConstantTypes DEF WriteFrame, Typed, TypeOK, ControlOK, Ids
<1>2. /\ wal' = wal \o FrameCells(written + 1, pending) /\ pc' = "idle" /\ pending' = None
      /\ UNCHANGED <<cursor, up, read_pos>>
  BY DEF WriteFrame, Return
<1>3. /\ Arriving = [id |-> written + 1, len |-> pending] /\ Arriving # [id |-> 0, len |-> None]
      /\ Arriving' = [id |-> 0, len |-> None]
  BY <1>1, <1>2, MappingTypes DEF Arriving
<1>4. /\ wal \in Files /\ Framed(wal) /\ Len(wal) \in Nat
      /\ read_pos \in 0..Len(wal) /\ cursor \in 0..Len(wal) /\ cursor <= read_pos
      /\ Unread = FramesBetween(wal, read_pos, Len(wal))
      /\ Uncommitted = FramesBetween(wal, cursor, read_pos)
  BY <1>1, MappingWhenUp
<1>5. PICK id \in Ids : id = written + 1
  BY <1>1
<1>6. /\ FramesBetween(wal', read_pos, Len(wal')) = Append(Unread, [id |-> id, len |-> pending])
      /\ FramesBetween(wal', cursor, read_pos) = Uncommitted
  BY <1>1, <1>2, <1>4, <1>5, FramesWithOneMore
<1>7. Unread' = Append(Unread, Arriving) /\ Uncommitted' = Uncommitted
  BY <1>1, <1>2, <1>3, <1>5, <1>6 DEF Unread, ReadFrom, Uncommitted
<1> QED BY <1>3, <1>7 DEF AbstractLog!Next, AbstractLog!Store

LEMMA DrainFrameMaps == Typed /\ Sound /\ DrainFrame => AbstractLog!Next
<1> SUFFICES ASSUME Typed, Sound, DrainFrame PROVE AbstractLog!Next
  OBVIOUS
<1>1. /\ up /\ pc = "idle" /\ read_pos < write_pos /\ ReaderPos = read_pos
  BY DEF DrainFrame, DrainMayRead, Sound, ReaderAtReadPos, ReaderPos
<1>2. /\ wal \in Files /\ Framed(wal) /\ Len(wal) \in Nat /\ write_pos = Len(wal)
      /\ read_pos \in Nat /\ read_pos < Len(wal) /\ Boundary(wal, read_pos)
      /\ cursor \in Nat /\ cursor <= read_pos
      /\ Unread = FramesBetween(wal, read_pos, Len(wal))
      /\ Uncommitted = FramesBetween(wal, cursor, read_pos)
  BY <1>1, MappingWhenUp
<1>3. PICK c : c = wal[read_pos + 1]
  OBVIOUS
<1>4. HeaderLens(read_pos) = {c.len}
  BY <1>2, <1>3, HeaderAtBoundary DEF Typed
<1>5. PICK b \in Nat : b = read_pos + Size(c.len) /\ read_pos <= b /\ b <= Len(wal)
  <2>1. Size(c.len) \in Nat /\ read_pos + Size(c.len) <= Len(wal)
    BY <1>2, <1>3, FrameAtBoundary, FileCells
  <2> QED BY <1>2, <2>1
<1>6. FramesBetween(wal, read_pos, b) = <<FrameOf(c)>> /\ FrameOf(c) \in WholeFrames
  BY <1>2, <1>3, <1>5, FrameRead, FrameAtBoundary, FrameOfType
<1>7. /\ read_pos' = b
      /\ UNCHANGED <<wal, cursor, up, pc, pending, written>>
  BY <1>1, <1>4, <1>5 DEF DrainFrame, disk, control
<1>8. PICK rest \in Seq(WholeFrames) : rest = FramesBetween(wal, b, Len(wal))
  BY <1>2, <1>5, FramesRecursion
<1>9. Unread = <<FrameOf(c)>> \o rest
  <2>1. PICK n \in Nat : n = Len(wal)
    BY <1>2
  <2>2. b <= n /\ n <= Len(wal)
    BY <1>5, <2>1
  <2>3. FramesBetween(wal, read_pos, n) = FramesBetween(wal, read_pos, b) \o FramesBetween(wal, b, n)
    BY <1>2, <1>5, <2>2, FramesSplit, SMTT(30), ZenonT(30)
  <2> QED BY <1>2, <1>6, <1>8, <2>1, <2>3
<1>10. FramesBetween(wal, cursor, b) = Uncommitted \o <<FrameOf(c)>>
  <2>1. FramesBetween(wal, cursor, b) = FramesBetween(wal, cursor, read_pos) \o FramesBetween(wal, read_pos, b)
    BY <1>2, <1>5, FramesSplit, ZenonT(40), SMTT(30)
  <2> QED BY <1>2, <1>6, <2>1
<1>11. Unread # <<>> /\ Tail(Unread) = rest /\ Head(Unread) = FrameOf(c)
  BY <1>6, <1>8, <1>9
<1>12. Append(Uncommitted, FrameOf(c)) = Uncommitted \o <<FrameOf(c)>>
  BY <1>6, MappingTypes, AppendIsConcat
<1>13. Unread' = rest /\ Uncommitted' = FramesBetween(wal, cursor, b) /\ Arriving' = Arriving
  BY <1>1, <1>7, <1>8 DEF Unread, ReadFrom, Uncommitted, Arriving
<1> QED BY <1>10, <1>11, <1>12, <1>13, AbstractTake

LEMMA CommitMaps ==
    Typed /\ Sound /\ Commit => AbstractLog!Next \/ UNCHANGED <<Unread, Uncommitted, Arriving>>
<1> SUFFICES ASSUME Typed, Sound, Commit
             PROVE  AbstractLog!Next \/ UNCHANGED <<Unread, Uncommitted, Arriving>>
  OBVIOUS
<1>1. /\ up /\ pc = "idle" /\ wal \in Files /\ read_pos \in Nat
      /\ UNCHANGED <<wal, up, read_pos, pending, written>>
  BY SoundFacts DEF Commit, history
<1>2. Unread' = Unread /\ Arriving' = Arriving
  BY <1>1 DEF Unread, ReadFrom, Arriving
<1>3. CASE PersistCursor(read_pos) /\ MaybeCompact(read_pos, write_pos) /\ UNCHANGED faults
  <2>1. cursor' = read_pos
    BY <1>3 DEF PersistCursor
  <2>2. Uncommitted' = <<>>
    BY <1>1, <2>1, NothingBetween DEF Uncommitted
  <2> QED BY <1>2, <2>2, AbstractCommit
<1>4. CASE UNCHANGED <<cursor, persisted_pos, pc>>
  <2>1. Uncommitted' = Uncommitted
    BY <1>1, <1>4 DEF Uncommitted
  <2> QED BY <1>2, <2>1
<1> QED BY <1>3, <1>4 DEF Commit

LEMMA CompactRenameMaps == Typed /\ Sound /\ CompactRename => AbstractLog!Next
<1> SUFFICES ASSUME Typed, Sound, CompactRename PROVE AbstractLog!Next
  OBVIOUS
<1>1. pc = "compact" /\ up
  BY SoundFacts DEF CompactRename
<1>2. /\ wal \in Files /\ Framed(wal) /\ Len(wal) \in Nat /\ write_pos = Len(wal)
      /\ read_pos \in Nat /\ read_pos <= Len(wal) /\ Boundary(wal, read_pos)
      /\ Unread = FramesBetween(wal, read_pos, Len(wal))
  BY <1>1, MappingWhenUp
<1>3. /\ wal' = SubSeq(wal, read_pos + 1, Len(wal)) /\ read_pos' = 0 /\ pc' = "recursor" /\ up' = up
      /\ UNCHANGED <<pending, written>>
  BY <1>2 DEF CompactRename, history
<1>4. PICK v : v = SubSeq(wal, read_pos + 1, Len(wal))
  OBVIOUS
<1>5. /\ v \in Files /\ Len(v) = Len(wal) - read_pos
  BY <1>2, <1>4, SuffixFromBoundary
<1>6. \A i \in 1..Len(v) : v[i] = wal[i + read_pos]
  <2>1. \A i \in (read_pos + 1)..Len(wal) : wal[i] \in CellType
    BY <1>2, ElementOfSeq DEF Files
  <2>2. \A i \in 1..(Len(wal) - (read_pos + 1) + 1) : v[i] = wal[(read_pos + 1) + i - 1]
    BY <1>2, <1>4, <2>1, SubSeqProperties
  <2>3. /\ Len(wal) - (read_pos + 1) + 1 = Len(v)
        /\ \A i \in 1..Len(v) : (read_pos + 1) + i - 1 = i + read_pos
    BY <1>2, <1>5
  <2> QED BY <2>2, <2>3
<1>7. FramesBetween(v, 0, Len(v)) = FramesBetween(wal, read_pos, Len(wal))
  <2>1. PICK a \in Nat : a = 0
    OBVIOUS
  <2>2. PICK b \in Nat : b = Len(v)
    BY <1>2, <1>5
  <2>3. a <= b /\ b <= Len(v) /\ b + read_pos <= Len(wal) /\ a + read_pos = read_pos /\ b + read_pos = Len(wal)
    BY <1>2, <1>5, <2>1, <2>2
  <2>4. FramesBetween(v, a, b) = FramesBetween(wal, a + read_pos, b + read_pos)
    <3>1. \A i \in 1..Len(v) : a < i /\ i <= b => v[i] = wal[i + read_pos]
      BY <1>6
    <3>2. v \in Files /\ wal \in Files /\ read_pos \in Nat
      BY <1>2, <1>5
    <3>3. a <= b /\ b <= Len(v) /\ b + read_pos <= Len(wal)
      BY <2>3
    <3> QED BY <3>1, <3>2, <3>3, FramesAgree
  <2> QED BY <2>1, <2>2, <2>3, <2>4
<1>8. Unread' = Unread
  BY <1>1, <1>2, <1>3, <1>4, <1>7 DEF Unread, ReadFrom
<1>9. Uncommitted' = <<>> /\ Arriving' = Arriving
  BY <1>3 DEF Uncommitted, Arriving
<1> QED BY <1>8, <1>9, AbstractCommit

LEMMA CompactTruncateMaps == Typed /\ Sound /\ CompactTruncate => AbstractLog!Next
<1> SUFFICES ASSUME Typed, Sound, CompactTruncate PROVE AbstractLog!Next
  OBVIOUS
<1>1. /\ pc = "compact" /\ up /\ read_pos >= write_pos
  BY SoundFacts DEF CompactTruncate
<1>2. /\ wal \in Files /\ Len(wal) \in Nat /\ write_pos = Len(wal)
      /\ read_pos \in Nat /\ read_pos <= Len(wal)
      /\ Unread = FramesBetween(wal, read_pos, Len(wal))
  BY <1>1, MappingWhenUp
<1>3. /\ wal' = <<>> /\ read_pos' = 0 /\ pc' = "recursor" /\ up' = up
      /\ UNCHANGED <<pending, written>>
  BY DEF CompactTruncate, history
<1>4. Unread = <<>>
  <2>1. read_pos = Len(wal)
    BY <1>1, <1>2
  <2> QED BY <1>2, <2>1, NothingBetween
<1>5. Unread' = <<>>
  <2>1. <<>> \in Files /\ Len(<<>>) = 0
    BY EmptySeq DEF Files
  <2>2. FramesBetween(<<>>, 0, 0) = <<>>
    BY <2>1, NothingBetween
  <2> QED BY <1>1, <1>3, <2>1, <2>2 DEF Unread, ReadFrom
<1>6. Uncommitted' = <<>> /\ Arriving' = Arriving
  BY <1>3 DEF Uncommitted, Arriving
<1> QED BY <1>4, <1>5, <1>6, AbstractCommit

LEMMA CompactFailsMaps ==
    Typed /\ Sound /\ CompactFails => AbstractLog!Next \/ UNCHANGED <<Unread, Uncommitted, Arriving>>
<1> SUFFICES ASSUME Typed, Sound, CompactFails
             PROVE  AbstractLog!Next \/ UNCHANGED <<Unread, Uncommitted, Arriving>>
  OBVIOUS
<1>1. /\ pc = "compact" /\ pc' = "idle" /\ pending' = None
      /\ UNCHANGED <<wal, cursor, up, read_pos, written>>
  BY DEF CompactFails, Return, disk, history
<1>2. UNCHANGED <<Unread, Uncommitted>>
  BY <1>1 DEF Unread, ReadFrom, Uncommitted
<1>3. Arriving' = [id |-> 0, len |-> None]
  BY <1>1 DEF Arriving
<1>4. CASE pending = None
  BY <1>1, <1>2, <1>3, <1>4 DEF Arriving
<1>5. CASE pending # None
  <2>1. Arriving # [id |-> 0, len |-> None]
    BY <1>5, MappingTypes
  <2> QED BY <1>2, <1>3, <2>1 DEF AbstractLog!Next, AbstractLog!FailToStore
<1> QED BY <1>4, <1>5

LEMMA CompactPersistMaps ==
    MildFailures /\ Typed /\ Sound /\ CompactPersist => UNCHANGED <<Unread, Uncommitted, Arriving>>
<1> SUFFICES ASSUME MildFailures, Typed, Sound, CompactPersist
             PROVE  UNCHANGED <<Unread, Uncommitted, Arriving>>
  OBVIOUS
<1>1. /\ pc = "recursor" /\ up /\ cursor' = read_pos /\ pc' \in {"idle", "write"}
      /\ UNCHANGED <<wal, up, read_pos, pending, written>>
  BY SoundFacts DEF CompactPersist, PersistCursor, AfterCompact, Fault, MildFailures, history
<1>2. wal \in Files /\ read_pos \in Nat
  BY SoundFacts
<1>3. Uncommitted = <<>> /\ Uncommitted' = <<>>
  BY <1>1, <1>2, NothingBetween DEF Uncommitted
<1> QED BY <1>1, <1>3 DEF Unread, ReadFrom, Arriving

\* Eviction gives up the oldest frames, and no more of them than the new
\* frame needs.
LEMMA EvictPersistMaps ==
    MildFailures /\ Typed /\ Sound /\ Scanning /\ EvictPersist => AbstractLog!Next
<1> SUFFICES ASSUME MildFailures, Typed, Sound, Scanning, EvictPersist PROVE AbstractLog!Next
  OBVIOUS
<1>1. pc = "evict" /\ up /\ ScanEnds /\ pending # None /\ pending \in BodyLens
  BY SoundFacts DEF EvictPersist, Typed, TypeOK, ControlOK
<1>2. /\ wal \in Files /\ Framed(wal) /\ write_pos = Len(wal)
      /\ read_pos \in Nat /\ Boundary(wal, read_pos)
      /\ cursor \in Nat /\ cursor <= read_pos
      /\ Unread = FramesBetween(wal, read_pos, Len(wal))
      /\ Uncommitted = FramesBetween(wal, cursor, read_pos)
  BY <1>1, MappingWhenUp
<1>3. PICK n \in Nat : n = Len(wal) /\ Boundary(wal, n)
  BY <1>1, MappingWhenUp DEF Boundary
<1>4. PICK to \in Nat : to = read_pos + freed /\ Boundary(wal, to) /\ read_pos <= to /\ to <= n
  BY <1>1, <1>3, SoundFacts DEF Sound, PositionsSound, Boundary
<1>5. /\ read_pos' = to /\ cursor' \in {to, cursor}
      /\ UNCHANGED <<wal, up, written>> /\ pc' # "recursor"
      /\ \/ cursor' = to /\ pending' = pending
         \/ cursor' = cursor /\ pending' = None
  <2>1. EvictTo = to
    BY <1>2, <1>3, <1>4 DEF EvictTo, MinOf
  <2> QED BY <2>1 DEF EvictPersist, PersistCursor, MaybeCompact, AfterCompact, Return
<1>6. PICK gone \in Seq(WholeFrames) : gone = FramesBetween(wal, read_pos, to)
  BY <1>2, FramesRecursion
<1>7. PICK kept \in Seq(WholeFrames) : kept = FramesBetween(wal, to, n)
  BY <1>2, <1>4, FramesRecursion
<1>8. Unread = gone \o kept
  <2>1. n <= Len(wal)
    BY <1>3
  <2>2. FramesBetween(wal, read_pos, n) = FramesBetween(wal, read_pos, to) \o FramesBetween(wal, to, n)
    BY <1>2, <1>4, <2>1, FramesSplit
  <2> QED BY <1>2, <1>3, <1>6, <1>7, <2>2
<1>9. PICK needed \in Nat : needed = Size(pending) /\ FrameSize(Arriving) = needed
  BY <1>1, MappingTypes, PendingSize DEF Typed, FrameSize
<1>10. /\ AbstractLog!Bytes(Unread) = n - read_pos /\ AbstractLog!Bytes(kept) = n - to
  BY <1>2, <1>3, <1>4, <1>7, BytesBetween
<1>11. Remaining = n - read_pos /\ MustFree = ((n - read_pos) + needed) - MaxBytes /\ MaxBytes \in Nat
  BY <1>2, <1>3, <1>9, ConstantTypes DEF Remaining, MustFree
<1>12. AbstractLog!Full(needed)
  BY <1>1, <1>9, <1>10, <1>11 DEF AbstractLog!Full, Scanning
<1> DEFINE k == Len(gone)
<1>13. /\ AbstractLog!Rest(Unread, k) = kept /\ SubSeq(Unread, 1, k) = gone
       /\ Len(Unread) = k + Len(kept) /\ k \in 0..Len(Unread) /\ k \in Nat /\ Len(kept) \in Nat
  <2>1. AbstractLog!Rest(Unread, k) = kept /\ SubSeq(Unread, 1, k) = gone
    BY <1>8, ConcatParts
  <2>2. Len(Unread) = k + Len(kept) /\ k \in Nat /\ Len(kept) \in Nat
    BY <1>8, ConcatProperties, LenProperties
  <2> QED BY <2>1, <2>2
<1> HIDE DEF k
<1>14. k < Len(Unread) => AbstractLog!Bytes(AbstractLog!Rest(Unread, k)) + needed <= MaxBytes
  <2> SUFFICES ASSUME k < Len(Unread) PROVE (n - to) + needed <= MaxBytes
    BY <1>10, <1>13
  <2>1. to # n
    <3> SUFFICES ASSUME to = n PROVE FALSE
      OBVIOUS
    <3>1. kept = <<>>
      BY <1>2, <1>7, NothingBetween
    <3> QED BY <1>13, <3>1
  <2>2. freed >= MustFree
    BY <1>1, <1>3, <1>4, <2>1, EnoughScanned
  <2> QED BY <1>2, <1>4, <1>11, <2>2, SoundFacts, SMTT(30), ZenonT(30)
<1>15. k > 0 => AbstractLog!Bytes(AbstractLog!Rest(Unread, k - 1)) + needed > MaxBytes
  <2> SUFFICES ASSUME k > 0 PROVE AbstractLog!Bytes(AbstractLog!Rest(Unread, k - 1)) + needed > MaxBytes
    OBVIOUS
  <2>1. freed > 0
    <3> SUFFICES ASSUME freed = 0 PROVE FALSE
      BY SoundFacts
    <3>1. to = read_pos
      BY <1>2, <1>4
    <3>2. gone = <<>>
      BY <1>2, <1>6, <3>1, NothingBetween
    <3> QED BY <3>2 DEF k
  <2>2. PICK p \in Nat : /\ read_pos <= p /\ p < n /\ Boundary(wal, p)
                         /\ p - read_pos < MustFree
                         /\ p + Size(wal[p + 1].len) = to
    BY <1>1, <1>3, <1>4, <2>1 DEF Scanning
  <2>3. PICK c : c = wal[p + 1]
    OBVIOUS
  <2>4. FramesBetween(wal, p, to) = <<FrameOf(c)>> /\ FrameOf(c) \in WholeFrames /\ p <= to
    <3>1. p < Len(wal)
      BY <1>3, <2>2
    <3>2. Size(wal[p + 1].len) \in Nat
      BY <1>2, <2>2, <3>1, FrameAtBoundary, FileCells
    <3> QED BY <1>2, <2>2, <2>3, <3>1, <3>2, FrameRead, FrameAtBoundary, FrameOfType, SMTT(30), ZenonT(30)
  <2>5. PICK before \in Seq(WholeFrames) : before = FramesBetween(wal, read_pos, p)
    BY <1>2, FramesRecursion
  <2>6. PICK after \in Seq(WholeFrames) : after = FramesBetween(wal, p, n)
    BY <1>2, FramesRecursion
  <2>7. gone = before \o <<FrameOf(c)>>
    <3>1. read_pos <= p /\ p <= to /\ to <= Len(wal) /\ wal \in Files /\ read_pos \in Nat
      BY <1>2, <1>3, <1>4, <2>2, <2>4
    <3>2. FramesBetween(wal, read_pos, to) = FramesBetween(wal, read_pos, p) \o FramesBetween(wal, p, to)
      BY <3>1, FramesSplit
    <3> QED BY <1>6, <2>4, <2>5, <3>2
  <2>8. Unread = before \o after
    <3>1. read_pos <= p /\ p <= n /\ n <= Len(wal) /\ wal \in Files /\ read_pos \in Nat
      BY <1>2, <1>3, <2>2
    <3>2. FramesBetween(wal, read_pos, n) = FramesBetween(wal, read_pos, p) \o FramesBetween(wal, p, n)
      BY <3>1, FramesSplit
    <3> QED BY <1>2, <1>3, <2>5, <2>6, <3>2
  <2>9. Len(before) = k - 1
    <3>1. <<FrameOf(c)>> \in Seq(WholeFrames) /\ Len(<<FrameOf(c)>>) = 1
      BY <2>4
    <3>2. Len(gone) = Len(before) + 1 /\ Len(before) \in Nat
      BY <2>7, <3>1, ConcatProperties, LenProperties
    <3> QED BY <3>2 DEF k
  <2>10. AbstractLog!Rest(Unread, k - 1) = after
    BY <2>8, <2>9, ConcatParts
  <2>11. AbstractLog!Bytes(after) = n - p
    <3>1. wal \in Files /\ Framed(wal) /\ Boundary(wal, p) /\ Boundary(wal, n) /\ p <= n
      BY <1>2, <1>3, <2>2
    <3> QED BY <2>6, <3>1, BytesBetween
  <2> QED BY <1>2, <1>11, <2>2, <2>10, <2>11
<1>16. Unread' = kept
  BY <1>1, <1>3, <1>5, <1>7 DEF Unread, ReadFrom
<1>17. Uncommitted' \in {<<>>, Uncommitted \o gone}
  <2>1. Uncommitted' = FramesBetween(wal, cursor', to)
    BY <1>1, <1>5 DEF Uncommitted
  <2>2. CASE cursor' = to
    BY <1>2, <2>1, <2>2, NothingBetween
  <2>3. CASE cursor' = cursor
    <3>1. to <= Len(wal)
      BY <1>3, <1>4
    <3>2. FramesBetween(wal, cursor, to) = FramesBetween(wal, cursor, read_pos) \o FramesBetween(wal, read_pos, to)
      BY <1>2, <1>4, <3>1, FramesSplit, ZenonT(40), SMTT(30)
    <3> QED BY <1>2, <1>6, <2>1, <2>3, <3>2
  <2> QED BY <1>5, <2>2, <2>3
<1>18. Arriving # [id |-> 0, len |-> None] /\ Arriving' \in {Arriving, [id |-> 0, len |-> None]}
  BY <1>1, <1>5, MappingTypes DEF Arriving
<1>19. AbstractLog!MakesRoom(k, needed)
  BY <1>14, <1>15 DEF AbstractLog!MakesRoom
<1>20. AbstractLog!GiveUp(k, needed)
  BY <1>12, <1>13, <1>16, <1>17, <1>19 DEF AbstractLog!GiveUp
<1>21. AbstractLog!Evict
  BY <1>9, <1>13, <1>18, <1>20 DEF AbstractLog!Evict
<1> QED BY <1>21 DEF AbstractLog!Next

LEMMA NextMaps ==
    MildFailures /\ Typed /\ Sound /\ Scanning /\ [Next]_vars
      => [AbstractLog!Next]_(AbstractLog!vars)
<1> SUFFICES ASSUME MildFailures, Typed, Sound, Scanning, [Next]_vars
             PROVE  AbstractLog!Next \/ UNCHANGED <<Unread, Uncommitted, Arriving>>
  BY AbstractStutter
<1>1. CASE Open \/ EvictScan \/ CompactPersist
  BY <1>1, OpenMaps, EvictScanMaps, CompactPersistMaps
<1>2. CASE Close \/ Crash \/ EvictPersist \/ WriteFrame \/ DrainFrame
  BY <1>2, CloseMaps, CrashMaps, EvictPersistMaps, WriteFrameMaps, DrainFrameMaps
<1>3. CASE \E len \in BodyLens : AppendStart(len)
  BY <1>3, AppendStartMaps
<1>4. CASE Commit \/ CompactRename \/ CompactTruncate \/ CompactFails \/ DrainSkips
  BY <1>4, CommitMaps, CompactRenameMaps, CompactTruncateMaps, CompactFailsMaps, DrainNeverSkips
<1>5. CASE EvictReadFails \/ WriteFails \/ DrainReadFails \/ CompactReopenFails
  BY <1>5 DEF EvictReadFails, WriteFails, DrainReadFails, CompactReopenFails, Fault, MildFailures
<1>6. CASE UNCHANGED vars
  BY <1>6 DEF vars, Unread, Uncommitted, Arriving, ReadFrom
<1> QED BY <1>1, <1>2, <1>3, <1>4, <1>5, <1>6 DEF Next

LEMMA InitMaps == Init => AbstractLog!Init /\ Scanning
<1> SUFFICES ASSUME Init PROVE AbstractLog!Init /\ Scanning
  OBVIOUS
<1>1. wal = <<>> /\ cursor = 0 /\ ~up /\ pending = None /\ pc = "idle"
  BY DEF Init
<1>2. <<>> \in Files /\ Len(<<>>) = 0
  BY EmptySeq DEF Files
<1>3. FramesBetween(<<>>, 0, 0) = <<>>
  BY <1>2, NothingBetween
<1>4. Unread = <<>> /\ Uncommitted = <<>> /\ Arriving = [id |-> 0, len |-> None]
  BY <1>1, <1>2, <1>3 DEF Unread, ReadFrom, Uncommitted, Arriving
<1> QED BY <1>1, <1>4 DEF AbstractLog!Init, Scanning

\* ImplementsFrameLog: every operation, crash and restart of the buffer is a
\* step of the bounded FIFO of FrameLog, or changes nothing of it.
THEOREM BufferIsFrameLog == ASSUME MildFailures PROVE Spec => ImplementsFrameLog
<1>1. Typed /\ Sound /\ Scanning /\ [Next]_vars => Scanning' /\ [AbstractLog!Next]_(AbstractLog!vars)
  BY NextMaps, NextScanning
<1> QED BY <1>1, InitMaps, AlwaysSound, AlwaysTyped, PTL DEF Spec, ImplementsFrameLog, AbstractLog!Spec
=============================================================================
