------------------------------- MODULE Worker -------------------------------
(***************************************************************************)
(* The background worker of crates/tell/src/worker/mod.rs with the bounded *)
(* channel it reads, the client calls that write to the channel            *)
(* (client/mod.rs), and the disk buffer behind it, here as the FrameLog    *)
(* that DiskBuffer is shown to implement as long as nothing tears a frame  *)
(* or leads its reader astray.  damage says when something has; from then  *)
(* on what the disk buffer does with the bytes it misreads is any of what  *)
(* its code can do with them, and no longer FrameLog's.                    *)
(*                                                                         *)
(* The worker is one task.  What runs beside it are the threads that call  *)
(* the client, so an action of the worker is one turn of a loop or the     *)
(* code between two awaits.  pc says where the worker is:                  *)
(*                                                                         *)
(*   "start"    worker_loop has not run yet, or is in Sender::new          *)
(*   "ticks"    worker_loop makes its intervals                            *)
(*   "select"   at select! in worker_loop                                  *)
(*   "absorb"   emptying the channel with try_recv                         *)
(*   "sample"   in sample_instruments                                      *)
(*   "stage"    between the stages of flush_all or flush_full_queues       *)
(*   "drain"    at the head of the loop in drain_disk_buffer               *)
(*   "commit"   at the end of drain_disk_buffer                            *)
(*   "chunk"    at the head of the loop in flush_queue                     *)
(*   "send"     awaiting send_frame, or the backoff between two attempts   *)
(*   "save"     save_queues_to_wal                                         *)
(*   "close"    the end of shutdown: close the transport, send the acks    *)
(*   "exit"     worker_loop returns, its locals are dropped                *)
(*   "done"     the worker is gone                                         *)
(***************************************************************************)
EXTENDS Integers, Sequences, FiniteSets, SequencesExt

CONSTANTS
    TrackKinds,         \* the queues that client calls feed
    FlushRequests,      \* calls of flush
    CloseRequests,      \* calls of close
    QueueCapacity,      \* TellConfig.queue_capacity: channel bound and drain_limit
    BatchSize,          \* TellConfig.batch_size
    MaxRetries,         \* TellConfig.max_retries
    DiskChoices,        \* whether TellConfig.buffer_path is set: what it may be
    FlushIntervals,     \* TellConfig.flush_interval: what it may be
    WalLimit,           \* buffer_max_bytes, in entries
    MaxPoints,          \* points of a sampling pass: one per registered series,
                        \* and dropped messages; 0 when nothing is registered
    MaxItems,           \* bound: entries ever accepted or sampled
    MaxCrashes,         \* bound: crashes and runtimes dropped
    MaxFaults           \* bound: I/O errors of the disk buffer

Kinds == {"events", "logs", "metrics"}
Requests == FlushRequests \cup CloseRequests

ASSUME CapacityAssumption ==
    /\ QueueCapacity \in Nat \ {0} /\ BatchSize \in Nat \ {0}   \* config.rs, build()
    /\ MaxRetries \in Nat /\ WalLimit \in Nat
    /\ DiskChoices \subseteq BOOLEAN /\ MaxPoints \in Nat
    /\ FlushIntervals \subseteq Nat                            \* zero is let through
    /\ TrackKinds \subseteq Kinds
    /\ FlushRequests \cap CloseRequests = {}
ASSUME BoundAssumption == MaxItems \in Nat /\ MaxCrashes \in Nat /\ MaxFaults \in Nat

VARIABLES
    channel,            \* messages in the bounded channel, oldest first
    senders,            \* whether any clone of the client is alive
    status,             \* where each flush or close call stands
    queues,             \* struct Queues
    disk,               \* whether a disk buffer is open
    pc,
    mode,               \* "full", "flush" or "close": who runs the stages
    stages,             \* stages still to run, the current one first
    frame,              \* the entries of the batch or frame being sent
    attempt,            \* attempts already failed, in send_with_fallback
    budget,             \* try_recv calls left, or points of a pass
    log, uncommitted,   \* the disk buffer, see FrameLog
    damage,             \* "none": the file holds the frames of log, and no more;
                        \* "torn": there may be other bytes among them;
                        \* "astray": and the reader has lost its place among them
    \* history, read by no guard but the bounds
    items,              \* entries accepted or sampled so far
    before,             \* entries accepted before each request was queued
    received,           \* how often each entry was in a frame sent with Ok
    reported,           \* entries whose loss went to on_error
    silent,             \* entries the disk buffer evicted or skipped unreported
    abandoned,          \* entries of a frame taken from the disk buffer and
                        \* never put back
    perished,           \* entries in memory when the worker went away
    crashes, faults

vars == <<channel, senders, status, queues, disk, pc, mode, stages, frame, attempt, budget,
          log, uncommitted, damage, items, before, received, reported, silent, abandoned, perished,
          crashes, faults>>
clientVars == <<channel, senders, status, items, before>>
walVars    == <<log, uncommitted, damage>>
ghosts     == <<received, reported, silent, abandoned, perished>>
bounds     == <<crashes, faults>>

Wal == INSTANCE FrameLog WITH
    Frame <- {}, NoFrame <- <<>>, arriving <- <<>>,
    SizeOf <- LAMBDA f : Len(f), MaxBytes <- WalLimit

Ids  == 1..MaxItems
Item == [kind : Kinds, id : Ids]
Message == Item \cup Requests

ASSUME RequestAssumption == Requests \cap Item = {}    \* enum WorkerMessage tells them apart

FlushAll  == <<"wal", "events", "logs", "metrics">>
FlushFull == <<"events", "logs", "metrics">>

IdsOf(seq)     == {m.id : m \in {n \in ToSet(seq) : n \notin Requests}}
IdsOfAll(seqs) == UNION {IdsOf(f) : f \in ToSet(seqs)}
InChannel == IdsOf(channel)
InQueues  == UNION {IdsOf(queues[k]) : k \in Kinds}
InWal     == IdsOfAll(log) \cup IdsOfAll(uncommitted)

TypeOK ==
    /\ channel \in Seq(Message) /\ Len(channel) <= QueueCapacity
    /\ senders \in BOOLEAN
    /\ status \in [Requests -> {"new", "sending", "queued", "absorbed", "acked", "failed"}]
    /\ queues \in [Kinds -> Seq(Item)]
    /\ disk \in BOOLEAN
    /\ pc \in {"start", "ticks", "select", "absorb", "sample", "stage", "drain", "commit", "chunk",
               "send", "save", "close", "exit", "done"}
    /\ (pc = "start" => ~disk)
    /\ mode \in {"full", "flush", "close"}
    /\ stages \in Seq(Kinds \cup {"wal"})
    /\ frame \in Seq(Item) /\ Len(frame) <= BatchSize
    /\ attempt \in 0..MaxRetries
    /\ budget \in 0..(IF pc = "sample" THEN MaxPoints ELSE QueueCapacity)
    /\ log \in Seq(Seq(Item)) /\ uncommitted \in Seq(Seq(Item))
    /\ damage \in {"none", "torn", "astray"}
    /\ items \in 0..MaxItems
    /\ before \in [Requests -> SUBSET Ids]
    /\ received \in [Ids -> Nat]
    /\ reported \subseteq Ids /\ silent \subseteq Ids /\ abandoned \subseteq Ids /\ perished \subseteq Ids
    /\ crashes \in 0..MaxCrashes /\ faults \in 0..MaxFaults

Init ==
    /\ channel = <<>> /\ senders = TRUE
    /\ status = [r \in Requests |-> "new"]
    /\ queues = [k \in Kinds |-> <<>>]
    /\ disk = FALSE
    /\ pc = "start" /\ mode = "full" /\ stages = <<>>
    /\ frame = <<>> /\ attempt = 0 /\ budget = 0
    /\ log = <<>> /\ uncommitted = <<>> /\ damage = "none"
    /\ items = 0 /\ before = [r \in Requests |-> {}]
    /\ received = [i \in Ids |-> 0]
    /\ reported = {} /\ silent = {} /\ abandoned = {} /\ perished = {}
    /\ crashes = 0 /\ faults = 0
-----------------------------------------------------------------------------
(* The client.  A track that finds the channel full or the worker gone
   changes nothing here; module Enqueue is about that. *)

Connected == pc # "done"
\* Mutant: the channel takes one message too many.
RoomForOneMore == Len(channel) <= QueueCapacity

HasRoom == Len(channel) < QueueCapacity

workerVars == <<queues, disk, pc, mode, stages, frame, attempt, budget>>

\* enqueue, Ok branch.
Track(kind) ==
    /\ senders /\ Connected /\ HasRoom /\ items < MaxItems
    /\ items' = items + 1
    /\ channel' = Append(channel, [kind |-> kind, id |-> items + 1])
    /\ UNCHANGED <<senders, status, before, workerVars, walVars, ghosts, bounds>>

\* flush and close start to wait for room in the channel.
Call(r) ==
    /\ senders /\ status[r] = "new"
    /\ status' = [status EXCEPT ![r] = "sending"]
    /\ UNCHANGED <<channel, senders, items, before, workerVars, walVars, ghosts, bounds>>

\* send_control and send_control_blocking, Ok branch.
SendControl(r) ==
    /\ status[r] = "sending" /\ Connected /\ HasRoom
    /\ status' = [status EXCEPT ![r] = "queued"]
    /\ channel' = Append(channel, r)
    /\ before' = [before EXCEPT ![r] = InChannel \cup InQueues]
    /\ UNCHANGED <<senders, items, workerVars, walVars, ghosts, bounds>>

\* control_error: the channel stayed full for close_timeout, or the worker
\* is gone.
SendControlFails(r) ==
    /\ status[r] = "sending" /\ ~(Connected /\ HasRoom)
    /\ status' = [status EXCEPT ![r] = "failed"]
    /\ UNCHANGED <<channel, senders, items, before, workerVars, walVars, ghosts, bounds>>

\* send_control_blocking inside a runtime refuses to wait.
SendControlRefused(r) ==
    /\ status[r] = "sending"
    /\ status' = [status EXCEPT ![r] = "failed"]
    /\ UNCHANGED <<channel, senders, items, before, workerVars, walVars, ghosts, bounds>>

\* The last clone of the client is dropped.
DropClients ==
    /\ senders /\ \A r \in Requests : status[r] # "sending"
    /\ senders' = FALSE
    /\ UNCHANGED <<channel, status, items, before, workerVars, walVars, ghosts, bounds>>
-----------------------------------------------------------------------------
(* worker_loop *)

Fault == faults < MaxFaults /\ faults' = faults + 1

\* A disk buffer that cannot be opened is reported, and the worker goes on
\* without one: what an earlier process left in it stays there.
OpenOrGoWithout(path) ==
    \/ disk' = path /\ UNCHANGED faults
    \/ path /\ Fault /\ disk' = FALSE

\* Sender::new
NewSender ==
    /\ pc = "start"
    /\ \E path \in DiskChoices : OpenOrGoWithout(path)
    /\ pc' = "ticks"
    /\ UNCHANGED <<clientVars, queues, mode, stages, frame, attempt, budget, walVars, ghosts, crashes>>

\* The intervals, and their immediate first ticks.
NewTicks ==
    /\ pc = "ticks" /\ \E interval \in FlushIntervals : interval > 0
    /\ pc' = "select"
    /\ UNCHANGED <<clientVars, queues, disk, mode, stages, frame, attempt, budget, walVars, ghosts, bounds>>

\* absorb
Absorb(m) ==
    IF m \in Requests
    THEN status' = [status EXCEPT ![m] = "absorbed"] /\ UNCHANGED queues
    ELSE queues' = [queues EXCEPT ![m.kind] = Append(@, m)] /\ UNCHANGED status

Recv ==
    /\ pc = "select" /\ channel # <<>>
    /\ Absorb(Head(channel))
    /\ channel' = Tail(channel)
    /\ pc' = "absorb"
    /\ budget' = QueueCapacity
    /\ UNCHANGED <<disk, senders, mode, stages, frame, attempt, walVars, items, before, ghosts, bounds>>

TryRecv ==
    /\ pc = "absorb" /\ budget > 0 /\ channel # <<>>
    /\ Absorb(Head(channel))
    /\ channel' = Tail(channel)
    /\ budget' = budget - 1
    /\ UNCHANGED <<disk, senders, pc, mode, stages, frame, attempt, walVars, items, before, ghosts, bounds>>

\* flush_all, flush_full_queues or shutdown begins.
Begin(m) ==
    /\ mode' = m
    /\ stages' = IF m = "full" THEN FlushFull ELSE FlushAll
    /\ pc' = "stage"

Absorbed(rs) == \E r \in rs : status[r] = "absorbed"

\* Mutant: a flush is acknowledged after the full queues only.
FlushAsFull == IF Absorbed(CloseRequests) THEN "close" ELSE "full"

\* The acks absorbed decide, a close before a flush.
WhatToDo ==
    IF Absorbed(CloseRequests) THEN "close"
    ELSE IF Absorbed(FlushRequests) THEN "flush" ELSE "full"

Dispatch ==
    /\ pc = "absorb" /\ (budget = 0 \/ channel = <<>>)
    /\ Begin(WhatToDo)
    /\ budget' = 0
    /\ UNCHANGED <<disk, clientVars, queues, frame, attempt, walVars, ghosts, bounds>>

\* recv fails: the channel is empty and every client is gone.
RecvFails ==
    /\ pc = "select" /\ channel = <<>> /\ ~senders
    /\ Begin("close")
    /\ UNCHANGED <<disk, clientVars, queues, frame, attempt, budget, walVars, ghosts, bounds>>

\* Mutant: the tick flushes the full queues only.
TickFlushesFull ==
    /\ pc = "select"
    /\ Begin("full")
    /\ UNCHANGED <<disk, clientVars, queues, frame, attempt, budget, walVars, ghosts, bounds>>

FlushTick ==
    /\ pc = "select"
    /\ Begin("flush")
    /\ UNCHANGED <<disk, clientVars, queues, frame, attempt, budget, walVars, ghosts, bounds>>

\* sample_instruments: the points of a pass go straight into the metric
\* queue, before anybody looks how long it is.
SampleTick ==
    /\ pc = "select"
    /\ pc' = "sample" /\ budget' = MaxPoints
    /\ UNCHANGED <<disk, clientVars, queues, mode, stages, frame, attempt, walVars, ghosts, bounds>>

SamplePoint ==
    /\ pc = "sample" /\ budget > 0 /\ items < MaxItems
    /\ items' = items + 1
    /\ queues' = [queues EXCEPT !["metrics"] = Append(@, [kind |-> "metrics", id |-> items + 1])]
    /\ budget' = budget - 1
    /\ UNCHANGED <<disk, channel, senders, status, before, pc, mode, stages, frame, attempt, walVars,
                   ghosts, bounds>>

SampleEnds ==
    /\ pc = "sample"
    /\ Begin("full")
    /\ budget' = 0
    /\ UNCHANGED <<disk, clientVars, queues, frame, attempt, walVars, ghosts, bounds>>
-----------------------------------------------------------------------------
(* The stages of flush_all and flush_full_queues *)

Stage == Head(stages)

\* Mutant: a queue of exactly one batch waits.
MoreThanABatch(q) == Len(q) > BatchSize

ABatch(q) == Len(q) >= BatchSize

HasWork(s) ==
    IF s = "wal" THEN disk /\ log # <<>>
    ELSE queues[s] # <<>> /\ (mode = "full" => ABatch(queues[s]))

\* In a damaged file the positions say little of the frames there are.
Misjudged(s) == s = "wal" /\ disk /\ damage # "none"

EnterStage ==
    /\ pc = "stage" /\ stages # <<>>
    /\ HasWork(Stage) \/ Misjudged(Stage)
    /\ pc' = IF Stage = "wal" THEN "drain" ELSE "chunk"
    /\ UNCHANGED <<disk, clientVars, queues, mode, stages, frame, attempt, budget, walVars, ghosts, bounds>>

SkipStage ==
    /\ pc = "stage" /\ stages # <<>>
    /\ ~HasWork(Stage) \/ Misjudged(Stage)
    /\ stages' = Tail(stages)
    /\ UNCHANGED <<disk, clientVars, queues, pc, mode, frame, attempt, budget, walVars, ghosts, bounds>>

\* Mutant: the acks of a flush are dropped unsent, those of a close are sent.
AckCloses ==
    status' = [r \in Requests |-> IF status[r] = "absorbed" /\ r \in CloseRequests
                                  THEN "acked" ELSE status[r]]

\* Acks::send_all
AckAll == status' = [r \in Requests |-> IF status[r] = "absorbed" THEN "acked" ELSE status[r]]

\* The stages are over: back to select!, after the acks of a flush, or on to
\* the end of shutdown.
EndStages ==
    /\ pc = "stage" /\ stages = <<>>
    /\ IF mode = "close"
       THEN pc' = "close" /\ UNCHANGED status
       ELSE pc' = "select" /\ AckAll
    /\ UNCHANGED <<disk, channel, senders, items, before, queues, mode, stages, frame, attempt, budget,
                   walVars, ghosts, bounds>>

Sending(f) == frame' = f /\ attempt' = 0 /\ pc' = "send"
Sent == frame' = <<>> /\ attempt' = 0

\* One turn of the loop in drain_disk_buffer.
DrainNext ==
    /\ pc = "drain" /\ log # <<>>
    /\ Sending(Head(log))
    /\ Wal!Take
    /\ UNCHANGED <<disk, clientVars, queues, mode, stages, budget, damage, ghosts, bounds>>

Oldest(k) == IdsOfAll(SubSeq(log, 1, k))

\* Bytes that are no frame get into the file, or a cursor that belongs to
\* another file next to it.  Nothing the code does tells, so nothing mends it.
Tear == damage' = IF damage = "none" THEN "torn" ELSE damage

\* In a damaged file the reader comes upon bytes that make a frame of no
\* entries, or upon a frame further on: what lies before it is skipped.
DrainMisreads ==
    /\ pc = "drain" /\ damage # "none"
    /\ \E k \in 0..Len(log), f \in {<<>>} \cup ToSet(log) :
        /\ f # <<>> => k > 0 /\ f = log[k]
        /\ Sending(f)
        /\ log' = Wal!Rest(log, k)
        /\ uncommitted' = uncommitted \o SubSeq(log, 1, k)
        /\ silent' = silent \cup (Oldest(k) \ IdsOf(f))
    /\ UNCHANGED <<disk, clientVars, queues, mode, stages, budget, damage, received, reported, abandoned,
                   perished, bounds>>

\* The loop ends with Ok(None), at write_pos.
DrainEnds ==
    /\ pc = "drain"
    /\ log = <<>> \/ damage # "none"
    /\ pc' = "commit"
    /\ UNCHANGED <<disk, clientVars, queues, mode, stages, frame, attempt, budget, walVars, ghosts, bounds>>

\* A reader that stopped half way through a frame goes on from there: it comes
\* upon frames that are further on, and when it is opened again, at read_pos,
\* upon those it has passed once more.
LosePlace ==
    /\ damage' = "astray"
    /\ \E n \in 1..Len(log) : log' = SubSeq(log, n, Len(log)) \o log

\* It ends with a read error.
DrainFails ==
    /\ pc = "drain" /\ Fault
    /\ UNCHANGED <<log, damage>> \/ LosePlace
    /\ pc' = "commit"
    /\ UNCHANGED <<disk, clientVars, queues, mode, stages, frame, attempt, budget, uncommitted, ghosts,
                   crashes>>

\* It ends at a header that makes no sense: reset_to_end skips to write_pos.
DrainResets ==
    /\ pc = "drain" /\ damage # "none"
    /\ \E k \in 0..Len(log) :
        /\ log' = Wal!Rest(log, k)
        /\ silent' = silent \cup Oldest(k)
        /\ \/ uncommitted' = <<>> /\ UNCHANGED faults
           \/ uncommitted' = uncommitted \o SubSeq(log, 1, k) /\ Fault
    /\ pc' = "commit"
    /\ UNCHANGED <<disk, clientVars, queues, mode, stages, frame, attempt, budget, damage, received,
                   reported, abandoned, perished, crashes>>

\* What a file keeps of these frames when its positions are wrong and it is
\* compacted, truncated or opened anew by them.
LeftOf(frames) == IF damage = "none" THEN {frames} ELSE SubSeqs(frames)

\* The other frames are gone and nobody is told.
Unnoticed(frames) == silent' = silent \cup (IdsOfAll(frames) \ IdsOfAll(log'))

\* buf.commit(), or its error: before the cursor is written, after it, or
\* when compact has replaced the file and not yet opened it or written its
\* cursor.
CommitWal ==
    /\ pc = "commit"
    /\ log' \in LeftOf(log) /\ Unnoticed(log)
    /\ \/ uncommitted' = <<>> /\ UNCHANGED <<damage, faults>>
       \/ Fault /\ uncommitted' \in {uncommitted, <<>>} /\ (UNCHANGED damage \/ Tear)
    /\ pc' = "stage"
    /\ stages' = Tail(stages)
    /\ UNCHANGED <<disk, clientVars, queues, mode, frame, attempt, budget, received, reported, abandoned,
                   perished, crashes>>

\* One turn of the loop in flush_queue, and its end.
ChunkLen(q) == IF Len(q) < BatchSize THEN Len(q) ELSE BatchSize

\* Mutant: the newest entries go first.
NewestOf(q) == SubSeq(q, Len(q) - ChunkLen(q) + 1, Len(q))

ChunkOf(q) == SubSeq(q, 1, ChunkLen(q))

\* Mutant: the last entry of the chunk stays in the queue.
UnchunkedShort(q) == SubSeq(q, Len(ChunkOf(q)), Len(q))

Unchunked(q) == SubSeq(q, Len(ChunkOf(q)) + 1, Len(q))

Chunk ==
    /\ pc = "chunk" /\ queues[Stage] # <<>>
    /\ Sending(ChunkOf(queues[Stage]))
    /\ UNCHANGED <<disk, clientVars, queues, mode, stages, budget, walVars, ghosts, bounds>>

ChunksEnd ==
    /\ pc = "chunk" /\ queues[Stage] = <<>>
    /\ pc' = "stage"
    /\ stages' = Tail(stages)
    /\ UNCHANGED <<disk, clientVars, queues, mode, frame, attempt, budget, walVars, ghosts, bounds>>
-----------------------------------------------------------------------------
(* Sending *)

FromWal == Stage = "wal"

\* A frame made of misread bytes is, when it is put back, more of the same.
Behind(frames, f) == IF f = <<>> THEN frames ELSE Append(frames, f)

\* k frames give way to f.  In a damaged file what is taken for their headers
\* decides which.
StoreInPlaceOf(k, f) ==
    /\ UNCHANGED damage
    /\ \/ damage = "none" /\ Wal!StoreInPlaceOf(k, f)
       \/ /\ damage # "none"
          /\ \E frames \in LeftOf(Wal!Rest(log, k)) : log' = Behind(frames, f)
          /\ uncommitted' \in {uncommitted, <<>>}

\* k frames are evicted for f, of which nothing is written.
EvictFor(k, f) ==
    /\ UNCHANGED damage
    /\ \/ damage = "none" /\ Wal!GiveUp(k, Len(f))
       \/ /\ damage # "none"
          /\ log' \in LeftOf(Wal!Rest(log, k))
          /\ uncommitted' \in {uncommitted, <<>>, uncommitted \o SubSeq(log, 1, k)}

\* k frames are evicted for f, and then bytes of f are left in the file, up to
\* all of it, that write_pos does not count; or the file is replaced by a
\* compaction that goes no further.
TearFor(k, f) ==
    /\ Tear
    /\ Wal!MakesRoom(k, Len(f)) \/ damage # "none"
    /\ \E frames \in LeftOf(Wal!Rest(log, k)) : log' \in {frames, Behind(frames, f)}
    /\ uncommitted' \in {uncommitted, <<>>}

\* Mutant: a batch the disk buffer refuses is dropped without a word.
AppendFailsSilently(f) ==
    /\ Fault
    /\ UNCHANGED <<walVars, reported, silent>>

\* DiskBuffer::append fails, before it changed anything or later.  Its error
\* says nothing of the frames it evicted.
AppendFails(f) ==
    /\ Fault
    /\ reported' = reported \cup IdsOf(f)
    /\ \/ UNCHANGED <<walVars, silent>>
       \/ /\ \E k \in 0..Len(log) : EvictFor(k, f) \/ TearFor(k, f)
          /\ Unnoticed(log)

\* Mutant: what append says it evicted is ignored.
AppendSilently(f) ==
    \/ /\ \E k \in 0..Len(log) : StoreInPlaceOf(k, f)
       /\ Unnoticed(log)
       /\ UNCHANGED <<reported, faults>>
    \/ AppendFails(f)

\* append_to_wal: evicted frames are reported, and so is a frame that cannot
\* be stored.
AppendToWal(f) ==
    \/ \E k \in 0..Len(log) :
        /\ StoreInPlaceOf(k, f)
        /\ reported' = reported \cup Oldest(k)
        /\ Unnoticed(Wal!Rest(log, k))
        /\ UNCHANGED faults
    \/ AppendFails(f)

\* What follows the send of a chunk, whatever its outcome.
ChunkDone ==
    /\ queues' = [queues EXCEPT ![Stage] = Unchunked(@)]
    /\ pc' = "chunk"
    /\ Sent

\* send_frame returns Ok: the frame is in the hands of the kernel.
SendOk ==
    /\ pc = "send"
    /\ received' = [i \in Ids |-> IF i \in IdsOf(frame) THEN received[i] + 1 ELSE received[i]]
    /\ IF FromWal THEN pc' = "drain" /\ Sent /\ UNCHANGED queues ELSE ChunkDone
    /\ UNCHANGED <<disk, clientVars, mode, stages, budget, walVars, reported, silent, abandoned, perished, bounds>>

\* send_frame fails on a frame of the disk buffer: the frame is put back and
\* the pass is over.  What that evicts is reported to nobody.
PutBack ==
    /\ pc = "send" /\ FromWal
    /\ \/ /\ \E k \in 0..Len(log) : StoreInPlaceOf(k, frame)
          /\ Unnoticed(log)
          /\ UNCHANGED <<reported, faults>>
       \/ AppendFails(frame)
    /\ pc' = "commit"
    /\ Sent
    /\ UNCHANGED <<disk, clientVars, queues, mode, stages, budget, received, abandoned, perished, crashes>>

\* send_frame fails on a batch, with a disk buffer: one attempt, then disk.
FallBack ==
    /\ pc = "send" /\ ~FromWal /\ disk
    /\ AppendToWal(frame)
    /\ ChunkDone
    /\ UNCHANGED <<disk, clientVars, mode, stages, budget, received, abandoned, perished, crashes>>

ReportBatch == reported' = reported \cup IdsOf(frame)

\* send_frame fails on a batch, without a disk buffer: try again after the
\* backoff, and report the batch after the last attempt.
Retry ==
    /\ pc = "send" /\ ~FromWal /\ ~disk /\ attempt < MaxRetries
    /\ attempt' = attempt + 1
    /\ UNCHANGED <<disk, clientVars, queues, pc, mode, stages, frame, budget, walVars, ghosts, bounds>>

GiveUp ==
    /\ pc = "send" /\ ~FromWal /\ ~disk /\ attempt = MaxRetries
    /\ ReportBatch
    /\ ChunkDone
    /\ UNCHANGED <<disk, clientVars, mode, stages, budget, walVars, received, silent, abandoned, perished, bounds>>
-----------------------------------------------------------------------------
(* Shutdown *)

\* The frame in the air when the future that sends it is dropped.
Abandon == abandoned' = IF pc = "send" /\ FromWal THEN abandoned \cup IdsOf(frame) ELSE abandoned

\* close_timeout expires: flush_all is dropped at the await it stands at.
\* Without a disk buffer the queues are reported as lost.
ShutdownTimeout ==
    /\ pc = "send" /\ mode = "close"
    /\ Abandon
    /\ Sent /\ stages' = <<>>
    /\ IF disk
       THEN pc' = "save" /\ UNCHANGED <<queues, reported>>
       ELSE /\ pc' = "close"
            /\ queues' = [k \in Kinds |-> <<>>]
            /\ reported' = reported \cup InQueues
    /\ UNCHANGED <<disk, clientVars, mode, budget, walVars, received, silent, perished, bounds>>

\* One turn of the loop in save_queue, over the queues in their order.
SaveChunk(k) ==
    /\ pc = "save" /\ queues[k] # <<>>
    /\ k = "logs" => queues["events"] = <<>>
    /\ k = "metrics" => queues["events"] = <<>> /\ queues["logs"] = <<>>
    /\ AppendToWal(ChunkOf(queues[k]))
    /\ queues' = [queues EXCEPT ![k] = Unchunked(@)]
    /\ UNCHANGED <<disk, clientVars, pc, mode, stages, frame, attempt, budget, received, abandoned,
                   perished, crashes>>

\* Mutant: only the first queue is saved.
EventsSaved == queues["events"] = <<>>

AllSaved == \A k \in Kinds : queues[k] = <<>>

SaveEnds ==
    /\ pc = "save" /\ AllSaved
    /\ pc' = "close"
    /\ UNCHANGED <<disk, clientVars, queues, mode, stages, frame, attempt, budget, walVars, ghosts, bounds>>

\* transport.close(), acks.send_all()
CloseAcks ==
    /\ pc = "close"
    /\ AckAll
    /\ pc' = "exit"
    /\ UNCHANGED <<disk, channel, senders, items, before, queues, mode, stages, frame, attempt, budget,
                   walVars, ghosts, bounds>>

\* The worker's memory goes away: the queues, the channel and what is in it,
\* and the acks it holds.
Vanish ==
    /\ perished' = perished \cup InChannel \cup InQueues
    /\ channel' = <<>>
    /\ queues' = [k \in Kinds |-> <<>>]
    /\ disk' = FALSE
    /\ Sent /\ stages' = <<>> /\ budget' = 0 /\ mode' = "full"

\* Callers that wait in one of these states are told that the worker is gone.
Fail(waiting) ==
    status' = [r \in Requests |-> IF status[r] \in waiting THEN "failed" ELSE status[r]]

\* Dropping the disk buffer persists its read position, if it can.
DropDiskBuffer ==
    /\ UNCHANGED <<log, damage>>
    /\ \/ uncommitted' = <<>> /\ UNCHANGED faults
       \/ UNCHANGED uncommitted /\ Fault

\* worker_loop returns; a request still in the channel is never answered.
Exit ==
    /\ pc = "exit"
    /\ Vanish
    /\ Fail({"queued"})
    /\ DropDiskBuffer
    /\ pc' = "done"
    /\ UNCHANGED <<senders, items, before, received, reported, silent, abandoned, crashes>>

\* interval() panics on a period of zero, which build() lets through for the
\* flush interval: the worker unwinds before it has received anything.
IntervalPanics ==
    /\ pc = "ticks" /\ 0 \in FlushIntervals
    /\ Vanish
    /\ Fail({"queued"})
    /\ DropDiskBuffer
    /\ pc' = "done"
    /\ UNCHANGED <<senders, items, before, received, reported, silent, abandoned, crashes>>

\* The Tokio runtime the worker was spawned on is dropped: the task ends at
\* the await it stands at, the disk buffer is dropped with it.  (A gauge whose
\* reader panics in a sampling pass ends it in the same way.)
RuntimeDropped ==
    /\ pc \in {"start", "select", "sample", "send"} /\ crashes < MaxCrashes
    /\ crashes' = crashes + 1
    /\ Abandon /\ Vanish
    /\ Fail({"queued", "absorbed"})
    /\ DropDiskBuffer
    /\ pc' = "done"
    /\ UNCHANGED <<senders, items, before, received, reported, silent>>

\* Where the file is written to: a crash in there may come between two writes,
\* or between the replacement of the file and that of its cursor.
InDiskCall == disk /\ pc \in {"send", "save", "commit"}

\* The process dies, or a client that ended is created again: a new process
\* opens the disk buffer that the old one left.
Restart ==
    /\ crashes < MaxCrashes
    /\ crashes' = crashes + 1
    /\ Vanish
    /\ Fail({"sending", "queued", "absorbed"})
    /\ \/ log' = uncommitted \o log /\ UNCHANGED damage
       \/ /\ InDiskCall \/ damage # "none"
          /\ log' \in SubSeqs(uncommitted \o log)
          /\ Tear
    /\ Unnoticed(uncommitted \o log)
    /\ uncommitted' = <<>>
    /\ pc' = "start"
    /\ senders' = TRUE
    /\ UNCHANGED <<items, before, received, reported, abandoned, faults>>
-----------------------------------------------------------------------------
ClientStep ==
    \/ \E k \in TrackKinds : Track(k)
    \/ \E r \in Requests : Call(r) \/ SendControl(r) \/ SendControlFails(r) \/ SendControlRefused(r)
    \/ DropClients

SampleStep == SamplePoint \/ SampleEnds
FlushStep == EnterStage \/ SkipStage \/ EndStages \/ DrainNext \/ DrainMisreads \/ DrainEnds \/ DrainFails
             \/ DrainResets \/ CommitWal \/ Chunk \/ ChunksEnd
SendStep  == SendOk \/ PutBack \/ FallBack \/ Retry \/ GiveUp \/ ShutdownTimeout
EndStep   == (\E k \in Kinds : SaveChunk(k)) \/ SaveEnds \/ CloseAcks \/ Exit
WorkerStep == NewSender \/ NewTicks \/ IntervalPanics \/ TryRecv \/ Dispatch \/ RecvFails \/ SampleStep
              \/ FlushStep \/ SendStep \/ EndStep

Next ==
    \/ ClientStep
    \/ WorkerStep
    \/ Recv \/ FlushTick \/ SampleTick
    \/ RuntimeDropped \/ Restart

Spec == Init /\ [][Next]_vars
-----------------------------------------------------------------------------
Received == {i \in Ids : received[i] > 0}

\* No entry that the client accepted disappears: it is in the channel, a queue
\* or the disk buffer (a damaged one may yet skip it), or it was sent, or its
\* loss was reported, or the disk buffer evicted or skipped it unreported, or
\* it went with a frame cut off in mid-air or with the memory of the worker.
Accounted ==
    1..items \subseteq InChannel \cup InQueues \cup InWal \cup Received
                      \cup reported \cup silent \cup abandoned \cup perished

\* While the worker runs, nothing perishes: only its end, a dropped runtime or
\* a crash loses what it holds in memory.  (shutdown empties every queue.)
ExitLosesOnlyTheChannel ==
    [][ pc = "exit" /\ pc' = "done" /\ crashes' = crashes
          => perished' \ perished \subseteq InChannel ]_vars

\* Putting a frame back evicts nothing, so that no eviction goes unreported,
\* unless a crash brought more back than the limit allows or an append failed
\* half way.
EvictionsReported == crashes = 0 /\ faults = 0 => silent = {}

\* An acknowledged flush or close left nothing behind that was accepted before
\* it: whatever was then in the channel or a queue has been sent, stored on
\* disk or given up.
AckCoversEarlier ==
    \A r \in Requests : status[r] = "acked" => before[r] \cap (InChannel \cup InQueues) = {}

Doublings[n \in Nat] == IF n = 0 THEN 1 ELSE 2 * Doublings[n - 1]

\* An entry is in one frame sent with Ok, however often a batch was retried,
\* put back on disk or saved at shutdown, until a crash hands out again what
\* was not committed.  A crash brings back what was sent and what was put back
\* in the meantime, so it may double the copies there are, and a failed commit
\* leaves one more for it.  (A reader that lost its place may hand out a frame
\* more often: DiskBuffer's ResentOnlyAfterTrouble says how often.)
SentOnceUnlessCrash ==
    damage # "astray" =>
        \A i \in Ids : received[i] + faults <= Doublings[crashes] * (1 + faults)

Waiting(k) == {m.id : m \in {n \in ToSet(channel \o queues[k]) : n \notin Requests /\ n.kind = k}}

\* When a queue sends an entry, no older entry of its kind still waits in
\* memory: full queues, partial flushes and retries never reorder a kind.
\* (Sampled metrics enter their queue past the channel and are left out.)
KindsStayInOrder ==
    [][ \A k \in Kinds \ {"metrics"} : \A i \in IdsOf(queues[k]) :
          received'[i] > received[i] => \A j \in Waiting(k)' : j > i ]_vars

\* The worker returns to select! with every queue short of a batch, and never
\* holds more than one channel and the message that woke it beyond that, or,
\* of the metrics, the points of one pass.
QueuesBounded ==
    \A k \in Kinds :
        /\ pc = "select" => Len(queues[k]) < BatchSize
        /\ \/ Len(queues[k]) <= BatchSize + QueueCapacity
           \/ k = "metrics" /\ Len(queues[k]) < BatchSize + MaxPoints

\* A request the worker has taken is answered exactly when its work is over:
\* nobody waits on a worker that is back at select!.
NoAckForgotten ==
    pc \in {"select", "done"} => \A r \in Requests : status[r] # "absorbed"

\* Fairness.  The runtime polls the worker as long as it is ready; every send
\* attempt ends, at the latest after network_timeout; select! picks among its
\* ready branches at random, so none is passed over for ever.
Fairness == WF_vars(WorkerStep) /\ SF_vars(Recv)
FairSpec == Spec /\ Fairness

\* A flush or close that entered the channel is acknowledged, or the worker
\* is gone and the caller is told so.
RequestsEnd == \A r \in Requests : status[r] = "queued" ~> status[r] \in {"acked", "failed"}

\* With a network that keeps coming back, the flush tick gets every entry out
\* of the queues and off the disk, or the worker has ended and left it there:
\* when the last entry has been accepted there comes a time from which on none
\* is left.
NetworkRecovers == SF_vars(FlushTick) /\ SF_vars(SendOk)
EverythingLeaves ==
    NetworkRecovers =>
        <>[](1..items \subseteq Received \cup reported \cup silent \cup abandoned \cup perished
                               \cup (IF pc = "done" THEN InWal ELSE {}))

\* Does not hold.  FEATURES.md:65, buffer.rs:7-9: a shutdown that runs out of time keeps on
\* disk what was on disk.
ShutdownKeepsDisk == abandoned \subseteq InWal \cup Received \cup reported

\* Does not hold.  FEATURES.md:89, "flush acks only after data is sent": a
\* flush whose sends all fail is acknowledged like one whose sends succeed.
FlushAckMeansSent ==
    \A r \in FlushRequests : status[r] = "acked" => before[r] \subseteq Received

\* Does not hold.  FEATURES.md:66, "FIFO eviction of oldest frames": a frame
\* that was put back is evicted after younger ones.  (What is newly reported
\* was evicted, as long as the disk buffer does not fail.)
EvictsOldestFirst ==
    [][ \A k \in Kinds, f \in ToSet(log), i \in reported' \ reported :
          i \in IdsOf(f) /\ f[1].kind = k =>
              \A g \in ToSet(log') : g[1].kind = k => \A j \in IdsOf(g) : j > i ]_vars
=============================================================================
