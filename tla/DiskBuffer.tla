----------------------------- MODULE DiskBuffer -----------------------------
(***************************************************************************)
(* The write-ahead log of crates/tell/src/buffer.rs: struct DiskBuffer and *)
(* the two files it owns, buffer.wal and buffer.cursor.                    *)
(*                                                                         *)
(* The file is a sequence of cells.  A cell stands for the bytes of one    *)
(* stretch of a frame: the first HeaderLen cells of a frame are its length *)
(* prefix, the others its body.  A cell knows which append wrote it, so    *)
(* that reading at a wrong offset is told apart from reading a frame.      *)
(*                                                                         *)
(* Every method of DiskBuffer takes &mut self, so operations do not        *)
(* interleave with each other; what can come between their steps is a      *)
(* crash or an I/O error.  An action therefore is a stretch of code with   *)
(* at most one effect on the disk: pc names the effect that comes next.    *)
(*                                                                         *)
(*   "idle"     no operation under way                                     *)
(*   "evict"    append: the scan of evict_if_needed                        *)
(*   "compact"  compact() is about to replace or truncate the file         *)
(*   "recursor" the file is replaced, the cursor file is not yet           *)
(*   "write"    append: the frame is about to be written                   *)
(***************************************************************************)
EXTENDS Integers, Sequences

CONSTANTS
    HeaderLen,      \* FRAME_HEADER_LEN, in cells
    BodyLens,       \* body lengths of the batches appended
    MaxFrameLen,    \* MAX_FRAME_LEN: a longer length prefix is corrupt
    MaxBytes,       \* DiskBuffer.max_bytes
    MaxFrames,      \* bound: frames ever written
    MaxCrashes,     \* bound: crashes
    MaxFaults,      \* bound: I/O errors
    CrashPoints,    \* values of pc at which a crash may come
    Tearing,        \* whether a crash may leave part of a frame behind
    Faults          \* kinds of I/O error that occur

PCs == {"idle", "evict", "compact", "recursor", "write"}
FaultKinds == {"persist", "rewrite", "reopen", "recursor", "write", "read"}

ASSUME LengthAssumption ==
    /\ HeaderLen \in Nat \ {0}
    /\ MaxFrameLen \in Nat
    /\ BodyLens \subseteq 0..MaxFrameLen
    /\ MaxBytes \in Nat
ASSUME BoundAssumption ==
    MaxFrames \in Nat /\ MaxCrashes \in Nat /\ MaxFaults \in Nat
ASSUME FailureAssumption ==
    CrashPoints \subseteq PCs /\ Tearing \in BOOLEAN /\ Faults \subseteq FaultKinds

None == -1          \* no reader, no batch being appended

VARIABLES
    wal,            \* contents of buffer.wal
    cursor,         \* contents of buffer.cursor (0 when the file is missing)
    up,             \* whether a process has the buffer open
    write_pos, read_pos, persisted_pos,     \* the fields of those names
    reader,         \* offset of the open reader, or None
    pc,
    pending,        \* body length of the batch being appended, or None
    freed,          \* the local of evict_if_needed
    \* history, read by no guard but the bounds
    written,        \* frames that reached the file, whole or in part
    acked,          \* frames whose append returned Ok
    evicted,        \* frames given up by evict_if_needed
    taken,          \* how often drain_next has returned each frame
    junk,           \* whether drain_next returned bytes that are no frame
    crashes, faults

disk    == <<wal, cursor>>
memory  == <<up, write_pos, read_pos, persisted_pos, reader>>
control == <<pc, pending, freed>>
history == <<written, acked, evicted, taken, junk>>
bounds  == <<crashes, faults>>
vars == <<wal, cursor, up, write_pos, read_pos, persisted_pos, reader,
          pc, pending, freed, written, acked, evicted, taken, junk, crashes, faults>>

Ids == 1..MaxFrames
CellType == [id : Ids, len : BodyLens, at : Nat]

Size(len) == HeaderLen + len
FrameCells(id, len) == [j \in 1..Size(len) |-> [id |-> id, len |-> len, at |-> j]]

\* The cells of the file from offset p on are those of frame c.id.
WholeFrameAt(w, p, c) ==
    /\ p + Size(c.len) <= Len(w)
    /\ \A j \in 1..Size(c.len) : w[p + j] = [id |-> c.id, len |-> c.len, at |-> j]

\* Frame f is in the file, whole, at offset `from` or later.
StoredFrom(f, from) ==
    \E p \in from..(Len(wal) - 1) : wal[p + 1].id = f /\ WholeFrameAt(wal, p, wal[p + 1])

TypeOK ==
    /\ wal \in Seq(CellType)
    /\ cursor \in Nat
    /\ up \in BOOLEAN
    /\ write_pos \in Nat /\ read_pos \in Nat /\ persisted_pos \in Nat
    /\ reader \in Nat \cup {None}
    /\ pc \in PCs
    /\ pending \in BodyLens \cup {None}
    /\ freed \in Nat
    /\ written \in 0..MaxFrames
    /\ acked \subseteq Ids
    /\ evicted \subseteq Ids
    /\ taken \in [Ids -> Nat]
    /\ junk \in BOOLEAN
    /\ crashes \in 0..MaxCrashes /\ faults \in 0..MaxFaults

Init ==
    /\ wal = <<>> /\ cursor = 0
    /\ up = FALSE
    /\ write_pos = 0 /\ read_pos = 0 /\ persisted_pos = 0 /\ reader = None
    /\ pc = "idle" /\ pending = None /\ freed = 0
    /\ written = 0 /\ acked = {} /\ evicted = {}
    /\ taken = [f \in Ids |-> 0] /\ junk = FALSE
    /\ crashes = 0 /\ faults = 0
-----------------------------------------------------------------------------
MinOf(a, b) == IF a <= b THEN a ELSE b

\* An I/O error of the given kind happens now.
Fault(kind) == kind \in Faults /\ faults < MaxFaults /\ faults' = faults + 1

\* persist_cursor with the read position p: the cursor file is replaced by a
\* rename, so it holds the old value or the new one.
PersistCursor(p) == cursor' = p /\ persisted_pos' = p

\* Mutant: the reader outlives the change that made its position wrong.
KeepReader == UNCHANGED reader

\* Done whenever the read position jumps or the file is rewritten.
DropReader == reader' = None

\* An operation that returns, with Ok or with an error.
Return == pc' = "idle" /\ pending' = None /\ freed' = 0

\* What maybe_compact and then the caller go on with: append writes its
\* frame, commit returns.
AfterCompact == IF pending = None THEN "idle" ELSE "write"
WorthCompacting(r, w) == w > 0 /\ 2 * r > w     \* COMPACT_RATIO = 0.5
MaybeCompact(r, w) == pc' = IF WorthCompacting(r, w) THEN "compact" ELSE AfterCompact

\* The lengths a reader at offset p may find in the length prefix: none at
\* the end of the file, any at all where no frame starts.
IntactHeader(p) ==
    \A j \in 1..HeaderLen :
        wal[p + j] = [id |-> wal[p + 1].id, len |-> wal[p + 1].len, at |-> j]
HeaderLens(p) ==
    IF p + HeaderLen > Len(wal) THEN {}
    ELSE IF IntactHeader(p) THEN {wal[p + 1].len} ELSE 0..(MaxFrameLen + 1)

\* Frames whose last cell lies in the file between the offsets a and b.
IdsBetween(a, b) ==
    {wal[q].id : q \in {n \in 1..Len(wal) : n > a /\ n <= b /\ wal[n].at = Size(wal[n].len)}}
-----------------------------------------------------------------------------
\* Mutant: reading goes on at the end of the file, where writing does.
ResumeAtEnd == Len(wal)

\* Mutant: a cursor beyond the end of the file is believed.
ResumeUnclamped == cursor

\* A cursor beyond the end of the file is moved back to it.
ResumePos == MinOf(cursor, Len(wal))

\* DiskBuffer::open
Open ==
    /\ ~up
    /\ up' = TRUE
    /\ write_pos' = Len(wal)
    /\ read_pos' = ResumePos
    /\ PersistCursor(ResumePos)
    /\ reader' = None
    /\ UNCHANGED <<wal, control, history, bounds>>

\* Mutant: the operands of the subtraction are swapped.
Overrun == read_pos - write_pos

Remaining == write_pos - read_pos

\* append, up to the first effect on the disk.
AppendStart(len) ==
    /\ up /\ pc = "idle" /\ written < MaxFrames
    /\ pending' = len
    /\ freed' = 0
    /\ pc' = IF Remaining + Size(len) <= MaxBytes THEN "write" ELSE "evict"
    /\ UNCHANGED <<disk, memory, history, bounds>>

\* Mutant: the header of the new frame is not counted.
MustFreeForBody == Remaining + pending - MaxBytes

MustFree == Remaining + Size(pending) - MaxBytes

\* Mutant: the scan takes one frame more when it has just enough.
ScanTooFar == freed <= MustFree

ScanGoesOn == freed < MustFree

\* One turn of the loop in evict_if_needed, whose reader is its own.
EvictScan ==
    /\ pc = "evict" /\ ScanGoesOn
    /\ \E len \in HeaderLens(read_pos + freed) :
        /\ len <= MaxFrameLen
        /\ freed' = freed + Size(len)
    /\ UNCHANGED <<disk, memory, pc, pending, history, bounds>>

ScanEnds ==
    \/ ~ScanGoesOn
    \/ HeaderLens(read_pos + freed) = {}
    \/ MaxFrameLen + 1 \in HeaderLens(read_pos + freed)

EvictTo == MinOf(read_pos + freed, write_pos)

\* The rest of evict_if_needed: the read position skips what was freed and
\* is persisted; a failure to persist fails the append.
EvictPersist ==
    /\ pc = "evict" /\ ScanEnds
    /\ read_pos' = EvictTo
    /\ DropReader
    /\ evicted' = evicted \cup IdsBetween(read_pos, EvictTo)
    /\ \/ PersistCursor(EvictTo)
          /\ MaybeCompact(EvictTo, write_pos)
          /\ freed' = 0
          /\ UNCHANGED <<pending, faults>>
       \/ Fault("persist")
          /\ Return
          /\ UNCHANGED <<cursor, persisted_pos>>
    /\ UNCHANGED <<wal, up, write_pos, written, acked, taken, junk, crashes>>

\* The scan meets a read error: the append fails and nothing has moved.
EvictReadFails ==
    /\ pc = "evict" /\ Fault("read")
    /\ Return
    /\ UNCHANGED <<disk, memory, history, crashes>>

\* The rest of append: header, body, sync_data.
WriteFrame ==
    /\ pc = "write"
    /\ wal' = wal \o FrameCells(written + 1, pending)
    /\ write_pos' = write_pos + Size(pending)
    /\ written' = written + 1
    /\ acked' = acked \cup {written + 1}
    /\ Return
    /\ UNCHANGED <<cursor, up, read_pos, persisted_pos, reader, evicted, taken, junk, bounds>>

\* A write or sync error: some of the frame may be in the file, write_pos
\* stays where it was.
WriteFails ==
    /\ pc = "write" /\ Fault("write")
    /\ \E k \in 0..Size(pending) :
        wal' = wal \o SubSeq(FrameCells(written + 1, pending), 1, k)
    /\ written' = written + 1
    /\ Return
    /\ UNCHANGED <<cursor, memory, acked, evicted, taken, junk, crashes>>
-----------------------------------------------------------------------------
ReaderPos == IF reader = None THEN read_pos ELSE reader

DrainMayRead == up /\ pc = "idle" /\ read_pos < write_pos

\* reset_to_end.  A failure to persist leaves the old cursor in the file.
ResetToEnd ==
    /\ read_pos' = write_pos
    /\ DropReader
    /\ \/ PersistCursor(write_pos) /\ UNCHANGED faults
       \/ Fault("persist") /\ UNCHANGED <<cursor, persisted_pos>>
    /\ UNCHANGED <<wal, up, write_pos, control, history, crashes>>

\* drain_next returns the next frame.
DrainFrame ==
    LET p == ReaderPos IN
    /\ DrainMayRead
    /\ \E len \in HeaderLens(p) :
        /\ len <= MaxFrameLen
        /\ read_pos + Size(len) <= write_pos
        /\ p + Size(len) <= Len(wal)
        /\ read_pos' = read_pos + Size(len)
        /\ reader' = p + Size(len)
        /\ IF wal[p + 1].len = len /\ WholeFrameAt(wal, p, wal[p + 1])
           THEN taken' = [taken EXCEPT ![wal[p + 1].id] = @ + 1] /\ UNCHANGED junk
           ELSE junk' = TRUE /\ UNCHANGED taken
    /\ UNCHANGED <<disk, up, write_pos, persisted_pos, control, written, acked, evicted, bounds>>

\* drain_next finds a header or a body cut short, or a header too large to
\* be one, and skips everything that remains.
DrainSkips ==
    LET p == ReaderPos IN
    /\ DrainMayRead
    /\ \/ HeaderLens(p) = {}
       \/ \E len \in HeaderLens(p) :
            \/ len > MaxFrameLen
            \/ read_pos + Size(len) > write_pos
            \/ p + Size(len) > Len(wal)
    /\ ResetToEnd

\* A read error other than the end of file, in the header or in a body that
\* drain_next would return: the reader has moved over some of it, read_pos has
\* not.
DrainReadFails ==
    LET p == ReaderPos
        Asked == {len \in HeaderLens(p) : len <= MaxFrameLen /\ read_pos + Size(len) <= write_pos}
    IN
    /\ DrainMayRead /\ Fault("read")
    /\ \E len \in {0} \cup Asked :
        /\ reader' \in p..(p + Size(len) - 1)
        /\ reader' = p \/ reader' <= Len(wal)
    /\ UNCHANGED <<disk, up, write_pos, read_pos, persisted_pos, control, history, crashes>>

\* commit: persist the read position if it moved, then maybe_compact.
Commit ==
    /\ up /\ pc = "idle"
    /\ \/ PersistCursor(read_pos)
          /\ MaybeCompact(read_pos, write_pos)
          /\ UNCHANGED faults
       \/ read_pos # persisted_pos
          /\ Fault("persist")
          /\ UNCHANGED <<cursor, persisted_pos, pc>>
    /\ UNCHANGED <<wal, up, write_pos, read_pos, reader, pending, freed, history, crashes>>
-----------------------------------------------------------------------------
\* compact with unread frames: they are copied to a new file that then
\* replaces the old one.
CompactRename ==
    /\ pc = "compact" /\ read_pos < write_pos
    /\ write_pos <= Len(wal)
    /\ wal' = SubSeq(wal, read_pos + 1, write_pos)
    /\ write_pos' = Remaining
    /\ read_pos' = 0
    /\ DropReader
    /\ pc' = "recursor"
    /\ UNCHANGED <<cursor, up, persisted_pos, pending, freed, history, bounds>>

\* compact with nothing unread: truncate_all.
CompactTruncate ==
    /\ pc = "compact" /\ read_pos >= write_pos
    /\ wal' = <<>>
    /\ write_pos' = 0 /\ read_pos' = 0 /\ DropReader
    /\ pc' = "recursor"
    /\ UNCHANGED <<cursor, up, persisted_pos, pending, freed, history, bounds>>

\* compact fails before the file is replaced, by an I/O error or because the
\* file is shorter than write_pos says: the operation returns the error.
CompactFails ==
    /\ pc = "compact"
    /\ \/ Fault("rewrite")
       \/ read_pos < write_pos /\ write_pos > Len(wal) /\ UNCHANGED faults
    /\ reader' \in {reader, None}
    /\ Return
    /\ UNCHANGED <<disk, up, write_pos, read_pos, persisted_pos, history, crashes>>

\* The file is replaced but cannot be opened again: the operation returns
\* before the positions are brought up to date.
CompactReopenFails ==
    /\ pc = "compact" /\ read_pos < write_pos
    /\ write_pos <= Len(wal)
    /\ Fault("reopen")
    /\ wal' = SubSeq(wal, read_pos + 1, write_pos)
    /\ DropReader
    /\ Return
    /\ UNCHANGED <<cursor, up, write_pos, read_pos, persisted_pos, history, crashes>>

\* The last step of compact and of truncate_all.
CompactPersist ==
    /\ pc = "recursor"
    /\ \/ PersistCursor(read_pos)
          /\ pc' = AfterCompact
          /\ UNCHANGED <<pending, freed, faults>>
       \/ Fault("recursor")
          /\ Return
          /\ UNCHANGED <<cursor, persisted_pos>>
    /\ UNCHANGED <<wal, up, write_pos, read_pos, reader, history, crashes>>
-----------------------------------------------------------------------------
\* What a process that goes away leaves in memory: nothing.
Forget ==
    /\ up' = FALSE
    /\ write_pos' = 0 /\ read_pos' = 0 /\ persisted_pos' = 0 /\ reader' = None
    /\ Return

\* Mutant: DiskBuffer has no Drop.
CloseAsIs == UNCHANGED <<cursor, faults>>

\* Drop, on a clean exit: a last attempt to persist the read position.
LastPersist ==
    \/ cursor' = read_pos /\ UNCHANGED faults
    \/ read_pos # persisted_pos /\ Fault("persist") /\ UNCHANGED cursor

Close ==
    /\ up /\ pc = "idle"
    /\ LastPersist
    /\ Forget
    /\ UNCHANGED <<wal, history, crashes>>

\* The process dies.  If it was writing a frame, all of the frame may be in
\* the file or none of it, or with Tearing any part of it.
Crash ==
    /\ up /\ pc \in CrashPoints /\ crashes < MaxCrashes
    /\ crashes' = crashes + 1
    /\ Forget
    /\ IF pc = "write"
       THEN \E k \in (IF Tearing THEN 0..Size(pending) ELSE {0, Size(pending)}) :
               /\ wal' = wal \o SubSeq(FrameCells(written + 1, pending), 1, k)
               /\ written' = written + 1
       ELSE UNCHANGED <<wal, written>>
    /\ UNCHANGED <<cursor, acked, evicted, taken, junk, faults>>

Next ==
    \/ Open \/ Close \/ Crash
    \/ \E len \in BodyLens : AppendStart(len)
    \/ EvictScan \/ EvictPersist \/ EvictReadFails
    \/ WriteFrame \/ WriteFails
    \/ DrainFrame \/ DrainSkips \/ DrainReadFails
    \/ Commit
    \/ CompactRename \/ CompactTruncate \/ CompactFails \/ CompactReopenFails
    \/ CompactPersist

Spec == Init /\ [][Next]_vars
-----------------------------------------------------------------------------
Taken == {f \in Ids : taken[f] > 0}

\* Every frame whose append returned Ok is, at every moment, handed out, given
\* up to make room, or still in the file at or after the place where reading
\* goes on: read_pos in a running process, the cursor file after a crash.
NothingLost ==
    \A f \in acked \ (Taken \cup evicted) :
        StoredFrom(f, IF up THEN read_pos ELSE cursor)

\* drain_next returns frames that an append wrote, never bytes put together
\* from the middle of one frame or from two.
OnlyWholeFrames == ~junk

\* A frame is handed out once, and once more for each crash or I/O error
\* that may have kept the cursor file behind.
ResentOnlyAfterTrouble == \A f \in Ids : taken[f] <= 1 + crashes + faults

\* An append that returns Ok leaves the unread part of the file within
\* max_bytes, or alone with the one frame that exceeds max_bytes by itself,
\* however many frames a crash brought back before it.
AppendRespectsLimit ==
    [][ acked' # acked =>
          \/ write_pos' - read_pos' <= MaxBytes
          \/ write_pos' - read_pos' = Size(pending) ]_vars

\* The open reader stands at read_pos, where drain_next expects it.
ReaderAtReadPos == reader \in {None, read_pos}

\* write_pos - read_pos is computed on u64 in drain_next, compact and
\* evict_if_needed, unguarded in the last two: it never underflows, whatever
\* the files hold and whatever failed before.
NoUnderflow == read_pos <= write_pos
-----------------------------------------------------------------------------
(***************************************************************************)
(* The frame log this buffer implements.  FramesBetween(w, a, b) are the   *)
(* frames of file w whose last cell lies after offset a and not after b:   *)
(* the whole frames between two boundaries.  What a restart would read     *)
(* again are those between the cursor file and the read position; while    *)
(* the file is replaced and the cursor is not, there are none.             *)
(***************************************************************************)
FramesBetween(w, a, b) ==
    LET upTo[q \in Nat] ==
          IF q <= a THEN <<>>
          ELSE IF q <= Len(w) /\ w[q].at = Size(w[q].len)
               THEN Append(upTo[q - 1], [id |-> w[q].id, len |-> w[q].len])
               ELSE upTo[q - 1]
    IN  upTo[b]

ReadFrom == IF up THEN read_pos ELSE cursor

Unread      == FramesBetween(wal, ReadFrom, Len(wal))
Uncommitted == IF up /\ pc # "recursor" THEN FramesBetween(wal, cursor, read_pos) ELSE <<>>
Arriving    == [id |-> IF pending = None THEN 0 ELSE written + 1, len |-> pending]
FrameSize(f) == Size(f.len)

AbstractLog == INSTANCE FrameLog WITH
    Frame <- [id : Ids, len : BodyLens],
    NoFrame <- [id |-> 0, len |-> None],
    SizeOf <- FrameSize,
    arriving <- Arriving, log <- Unread, uncommitted <- Uncommitted

\* Every operation, crash and restart of the buffer is a step of the bounded
\* FIFO that hands uncommitted frames out again (buffer.rs:7-9).
ImplementsFrameLog == AbstractLog!Spec
=============================================================================
