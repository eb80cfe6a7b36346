------------------------------ MODULE FrameLog ------------------------------
(***************************************************************************)
(* What the disk buffer of crates/tell/src/buffer.rs promises its caller,  *)
(* with no file, offset or cursor in sight: a bounded FIFO of frames that  *)
(* survives a crash.                                                       *)
(*                                                                         *)
(*   log          frames stored and not yet handed out, oldest first       *)
(*   uncommitted  frames handed out since the last commit, oldest first    *)
(*   arriving     the frame an append has begun to store, if any           *)
(*                                                                         *)
(* A crash before the commit hands the uncommitted frames out again, a     *)
(* commit forgets them, and a full log makes room by giving up its oldest  *)
(* frames, never more than the new frame needs.                            *)
(***************************************************************************)
EXTENDS Naturals, Sequences

CONSTANTS
    Frame,          \* the frames a caller may store
    NoFrame,        \* none of them
    SizeOf(_),      \* bytes a frame takes in the file, its header included
    MaxBytes        \* bytes of unread frames the log may hold

VARIABLES log, uncommitted, arriving

vars == <<log, uncommitted, arriving>>

Bytes(frames) ==
    LET upTo[n \in 0..Len(frames)] == IF n = 0 THEN 0 ELSE upTo[n - 1] + SizeOf(frames[n])
    IN  upTo[Len(frames)]

Rest(frames, k)  == SubSeq(frames, k + 1, Len(frames))

TypeOK ==
    log \in Seq(Frame) /\ uncommitted \in Seq(Frame) /\ arriving \in Frame \cup {NoFrame}

Init == log = <<>> /\ uncommitted = <<>> /\ arriving = NoFrame
-----------------------------------------------------------------------------
BeginStore(f) ==
    /\ arriving = NoFrame /\ arriving' = f
    /\ UNCHANGED <<log, uncommitted>>

Store ==
    /\ arriving # NoFrame /\ arriving' = NoFrame
    /\ log' = Append(log, arriving)
    /\ UNCHANGED uncommitted

FailToStore ==
    /\ arriving # NoFrame /\ arriving' = NoFrame
    /\ UNCHANGED <<log, uncommitted>>

\* k is the least number of oldest frames whose removal makes room for
\* `needed` more bytes (all of them when even that is not enough).
MakesRoom(k, needed) ==
    /\ k < Len(log) => Bytes(Rest(log, k)) + needed <= MaxBytes
    /\ k > 0 => Bytes(Rest(log, k - 1)) + needed > MaxBytes

Full(needed) == Bytes(log) + needed > MaxBytes

\* Making room also persists the read position, so what was handed out
\* before it is not handed out again.  When that fails, what was given up
\* may come back after a crash, like what was handed out.
GiveUp(k, needed) ==
    /\ Full(needed) /\ MakesRoom(k, needed)
    /\ log' = Rest(log, k)
    /\ uncommitted' \in {<<>>, uncommitted \o SubSeq(log, 1, k)}

\* Done for a frame that is arriving, which may then fail to be stored.
Evict ==
    /\ arriving # NoFrame /\ arriving' \in {arriving, NoFrame}
    /\ \E k \in 0..Len(log) : GiveUp(k, SizeOf(arriving))

\* A whole append, for callers that see no step in between: k frames give
\* way to f.
StoreInPlaceOf(k, f) ==
    /\ MakesRoom(k, SizeOf(f))
    /\ log' = Append(Rest(log, k), f)
    /\ uncommitted' = IF Full(SizeOf(f)) THEN <<>> ELSE uncommitted

Take ==
    /\ log # <<>>
    /\ log' = Tail(log)
    /\ uncommitted' = Append(uncommitted, Head(log))

Commit == uncommitted' = <<>> /\ UNCHANGED log

\* A frame that was arriving may or may not have reached the disk.
Crash ==
    /\ log' \in {uncommitted \o log} \cup
              {Append(uncommitted \o log, f) : f \in {arriving} \ {NoFrame}}
    /\ uncommitted' = <<>> /\ arriving' = NoFrame

Next ==
    \/ \E f \in Frame : BeginStore(f)
    \/ Store \/ FailToStore \/ Evict
    \/ Take /\ UNCHANGED arriving
    \/ Commit /\ UNCHANGED arriving
    \/ Crash

Spec == Init /\ [][Next]_vars
=============================================================================
