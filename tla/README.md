# A verification development for the Tell Rust SDK

The SDK (`src/crates/tell`) lets an application call `track`, `log_*`, metric
and identity methods from any thread; a background worker batches what was
called, encodes it (`src/crates/tell-encoding`) and sends it over one TCP
connection, with a disk buffer for what the network does not take. This
directory holds TLA+ modules for the parts of it where order, failure and
concurrency decide whether it is right, TLC configurations that check them on
small instances, and proofs that TLAPS checks for every instance.

## 1. Inventory of the system

| Component | State it keeps | Operations | Correct when |
|---|---|---|---|
| **Client** `tell/src/client/*` (`Tell`, `Inner`) | session id, super properties and their serialized fragment (each behind a lock), the sender half of a bounded channel, the drop episode flag `queue_full` | `track`, `group`, `revenue`, `identify`, `alias`, logs, metrics, `register`, `unregister`, `reset_session`, `flush`, `close` and blocking variants | an accepted call reaches the worker exactly once; a refused one is counted and reported; an entry carries a session and super properties that were in force during the call; control calls end |
| **Channel** (crossfire, external) | bounded FIFO of messages | `try_send`, `send_timeout`, `recv`, `try_recv` | FIFO, bounded, tells the sender when the receiver is gone |
| **Worker** `tell/src/worker/mod.rs` | three queues, collected acks, the disk buffer, the transport | `worker_loop` (receive, flush tick, sample tick), `flush_all`, `flush_full_queues`, `send_with_fallback`, `drain_disk_buffer`, `shutdown` | nothing accepted disappears unreported; acks mean the work is done; queues stay bounded; order per kind; every request ends |
| **Disk buffer** `tell/src/buffer.rs` | `buffer.wal`, `buffer.cursor`, positions, one cached reader | `open`, `append` (evicts), `drain_next`, `commit`, `compact`, drop | at-least-once across crashes, no invented frames, bounded size, only the oldest is evicted |
| **Transport** `tell/src/transport.rs` | one buffered TCP stream or none | `send_frame`, `close` | what the peer reads is a sequence of whole frames with at most a torn last one per connection |
| **Metrics** `tell/src/metrics/*` | atomic cells per instrument, a registry behind three mutexes | `add`, `observe`, gauge closures, `register`, `len`, `sample` | no update lost, totals never decrease, deltas sum to the total, a pass leaves nothing out and nobody waits for ever |
| **Payload and properties** `payload.rs`, `props.rs`, `validation.rs` | none (a fragment per client) | merging of properties into one JSON object | well formed, a call's own value overrides a super property |
| **Encoding** `tell-encoding` | none | event, log, metric and batch writers over one byte buffer | aligned, every offset points at the object it is for, what a reader reads is what was given |
| **Clock** `clock.rs` | anchor and one correction for the process | `now_ms`, `resync` | timestamps follow the system clock, and come back to it after it was moved |
| **Tracing layer** `tell-tracing` | none | `on_event` | the log an event becomes has its message and its fields |
| **Configuration** `config.rs` | none | `build` | what it lets through is what the rest can run with |
| Types, errors | none | | declarations |
| `tell-bench`, examples, scripts | none | measurements | not part of the program |

**How they interact.** Client threads and the worker share the channel, the
instruments' atomics and the registry's mutexes; the workers of all clients share
the clock's correction. A client call ends in one `try_send`
(`Tell::enqueue`) or, for `flush` and `close`, in a `send_timeout` and a wait on a
oneshot. The worker owns queues, disk buffer and transport; each send is an await
at which its task can be cancelled (shutdown deadline, dropped runtime). Errors go
to the `on_error` callback.

**What is hard.** Threads racing on flags and cells with several atomic
operations per call; a worker whose awaits can be cut off; acks that several
requests share; retries and the fallback to disk; frames that move back and
forth between disk and network; crashes between two writes to two files; torn
writes; unsigned positions subtracted without a check; closures of the application
that run on the worker with a mutex held; a worker held up between reading two clocks
and storing their difference. `PROJECT.json` lists these
hazards at their lines with the properties that are about them.

## 2. Modules

| Module | Models | Composes |
|---|---|---|
| `FrameLog` | what the disk buffer promises: a bounded FIFO of frames that survives a crash | |
| `DiskBuffer` | `buffer.rs`, step by step on its two files | refines `FrameLog` |
| `Worker` | `worker/mod.rs`, the channel and the client's control calls | `FrameLog` as the disk buffer while its file is undamaged |
| `Enqueue` | `Tell::enqueue` as several threads run it | |
| `Histogram` | one series of `metrics/histogram.rs` | |
| `Clock` | `clock.rs`: anchor, correction, resync, under a system clock that is moved | |
| `Instruments` | `metrics/mod.rs`, `counter.rs`, `gauge.rs`: registry, sampling pass, locks | extends `Clock` |
| `FrameSender` | what the transport promises its caller | |
| `Transport` | `transport.rs` and the `BufWriter` under it, down to what the kernel took | refines `FrameSender` |
| `Payload` | `payload.rs`, `props.rs`: JSON objects put together from serialized pieces | |
| `Calls` | the methods of the client up to `enqueue`, the tracing layer, `register`, `unregister`, `reset_session` | `Payload` |
| `FlatBuffer` | what the encoders have in common, and a reader of what they write | |
| `Encoding` | `worker/encode.rs` and the encoders of `tell-encoding` | `FlatBuffer` |
| `InductionLemmas` | induction and recursive functions for the proofs, see section 5 | |
| `DiskBufferProofs` | theorems about `DiskBuffer`, its refinement of `FrameLog` among them | extends `DiskBuffer` |
| `WorkerProofs` | theorems about `Worker` | extends `Worker` |
| `ClientProofs` | theorems about `Calls` with what it makes of `Payload`, and about `Enqueue` | extends `Calls`, `Enqueue` |
| `TransportProofs` | theorems about `Transport`, its refinement of `FrameSender` among them | extends `Transport` |
| `HistogramProofs` | theorems about `Histogram` | extends `Histogram` |
| `InstrumentsProofs` | theorems about `Instruments` and `Clock` | extends `Instruments` |
| `EncodingProofs` | theorems about `Encoding` and what it makes of `FlatBuffer` | extends `Encoding` |
| `MC...` | constants for TLC | extend the module they are named after |

### `DiskBuffer` and `FrameLog`

The file `buffer.wal` is the sequence `wal` of cells; a frame is `HeaderLen` cells
for its length prefix and as many as its body is long, and each cell knows which
append wrote it. So a read at a wrong offset is told apart from a good one: there,
the length prefix is any number at all. `cursor` is `buffer.cursor`; `write_pos`,
`read_pos`, `persisted_pos` and `reader` are the fields of the struct. All methods
take `&mut self`, so only crashes and I/O errors come between the steps of one;
an action is a stretch of code with at most one effect on the disk, and `pc` is the
effect that comes next.

| Action | Code (`buffer.rs`) |
|---|---|
| `Open`, `Close`, `Crash` | `open`, `drop`, the process dies |
| `AppendStart`, `EvictScan`, `EvictPersist`, `EvictReadFails`, `WriteFrame`, `WriteFails` | `append` with `evict_if_needed` |
| `DrainFrame`, `DrainSkips`, `DrainReadFails` | `drain_next` with `reset_to_end` |
| `Commit` | `commit` up to the point where `compact` starts |
| `CompactRename`, `CompactTruncate`, `CompactFails`, `CompactReopenFails`, `CompactPersist` | `compact`, `truncate_all`, `rewrite_tail` |

`CrashPoints`, `Tearing` and `Faults` say where a crash may come, whether it may
leave part of a frame, and which I/O errors occur. `FrameLog` is the abstract
specification: `log` and `uncommitted` are frames, `arriving` the one an append has
begun to store. The refinement mapping (`AbstractLog`) reads them off the file, cell by
cell (`FramesBetween`): `Unread` between the position reading goes on from and the end,
`Uncommitted` between the cursor and the read position. With all of them on, the code
does lose frames (section 4); each run says which it assumes. A failed read may leave the
cached reader anywhere in the header or body it was reading (`DrainReadFails`).

### `Worker`

One task, many client threads. An action of the worker is one turn of a loop or the
code between two awaits; `pc`, `mode` and `stages` say where it is. The sends of a
frame are two outcomes, `SendOk` and one of `PutBack`, `FallBack`, `Retry`, `GiveUp`;
backoff and timeouts are the freedom to take either at any time. A worker starts in `start`
(`NewSender` opens the disk buffer, or goes on without one when that fails) and `ticks`
(`NewTicks`, or `IntervalPanics` for a flush interval of zero); clients may call before. A
sampling pass (`SampleTick`, `SamplePoint`, `SampleEnds`) puts up to `MaxPoints` points into
the metric queue, one for each series and the dropped-messages gauge, and only then looks at
its length. `Track`, `Call`, `SendControl`, `SendControlFails`, `SendControlRefused` (a
blocking call inside a runtime) and `DropClients` are the client's side. `Restart`
is a new process (or a new client) on the same disk buffer, and `RuntimeDropped` the
end of the Tokio runtime under a running worker. A caller that stops waiting for its
ack (`Tell::await_ack`) changes nothing in the worker and is left out.

*The disk buffer under the worker.* As long as `damage` is "none" it is the `FrameLog` which
`DiskBuffer` is shown to implement under `MildFailures` (section 5), its actions taken by
INSTANCE. What `MildFailures` excludes happens to the worker too, and then the file is no
`FrameLog` any more:

| What happens in `buffer.rs` | In `Worker` |
|---|---|
| a failed write or sync leaves bytes that `write_pos` does not count (116-121) | `AppendFails`, by `TearFor`: any part of the frame may be in the file, `damage` is "torn" |
| `compact` replaces the file and then cannot open it or write its cursor (195-200), at a commit or in an eviction | `CommitWal`, `TearFor`: the positions are those of the old file, "torn" |
| a crash inside an append or between the two renames | `Restart` with `InDiskCall`: any of the frames may be hidden, "torn" |
| a failed read leaves the reader off its place (137, 153-158) | `DrainFails` by `LosePlace`: "astray" |

`damage` never goes back to "none", since nothing in the code notices or mends it. From
then on a drain may also take misread bytes for a frame (`DrainMisreads`), skip to the end at a
header that makes no sense, with everything behind it (`DrainResets`), or stop early
(`DrainEnds`); an eviction, a compaction and a reopening by the wrong positions may keep any
of the frames (`LeftOf`, `StoreInPlaceOf`, `EvictFor`). What goes in that way goes without a report, and `silent`
records it. These actions are chosen to admit everything the code may do with
such a file, and so somewhat more: which bytes look like a header is the business of
`DiskBuffer`, whose run `disk_buffer_hostile` has them cell by cell.

### `Enqueue`

Each atomic access of `enqueue` is a step: `try_send`, `load` and `store` of
`queue_full` after a success; `fetch_add`, `load` and `swap` after a refusal. The
worker takes messages or ends.

### `Histogram`

Count, sum, min, max and the buckets of a series are separate atomics updated with
`Ordering::Relaxed`, so an observer takes its cells in any order, the three folded
ones by a load and a compare-and-exchange that may fail; the sampler reads cell by
cell.

### `Instruments` and `Clock`

A thread carries the steps it has still to take in `todo`; a step is one access to
something shared (a mutex, a vector, an atomic, the clock). `register`, `len`,
`is_empty`, `sample` and `EachSteps` are the methods as such sequences, and the actions
take the head of one. What the closure of a gauge does is a constant (`Reader`); a gauge is among the points of a
pass once, for whatever points its closure gives, which may be none or many. A constant, too, is
what the application does under a lock of its own that a closure takes too
(`UnderLock`): reading a handle and taking a lock for a moment are allowed by
`gauge.rs`, and checked; coming back to the registry is not survived (section 4).

In `Clock` time is in ticks, of which several make a millisecond, because both readings
are cut off to milliseconds. The two readings of the anchor, the two of a resync and its
store are steps; time passes between any two, the system clock may be moved, and each
worker stores its own. `now_ms` is what a call returns that is made in the state.

### `Transport` and `FrameSender`

A frame is cells again, a length prefix and a body; `wire` is, for each connection
made, what the kernel took. An action is what happens between two awaits of
`send_frame`: a dial that succeeds or fails, the writer passing on some of what it
holds (a short write), the end of a `write_all` or of `flush`, an error or timeout, and
the worker dropping the future (`Cancel`), after which it only closes. The `BufWriter`
is external and modelled as tokio documents it: what fits is kept, what does not makes
it flush, a write as large as the buffer goes past it. The caller sends the frame that
failed again or goes on to another, which covers retry and fallback in `Worker`.

`FrameSender` says what the worker may take a send for: one attempt at a time, which hands
its frame over at most once and whole, and ends with Ok only when it did. Its variables
are read off the wire (`Delivered`, `Reached`), so a frame is handed over when the kernel
took its last byte, wherever `send_frame` stands then.

### `Calls` and `Payload`

A method reads the session id, validates its arguments, reads the super properties and
enqueues: four steps, because the two reads are under locks of their own and other
threads change both in between. A payload is a sequence of tokens (braces, commas,
members), so that what is asked of it is where the commas are and which member of a
key comes last. What a caller may pass is any sequence of tokens (`CallsAssumption`); what `Props`
and `serde_json` write of it is nothing, JSON that is no object, an object, or an object with a
value that broke off: `Props` ignores the error of a serializer and keeps what it had written
(`CutOff`). Such `Props` are among the arguments of the runs, for calls and for `register`, which
has `serde_json` read them and ignores what it cannot. The call they are given to has a broken
payload (section 4), so `PayloadIsJson` and `PayloadReadsAs` are about calls whose own properties are
intact, and say that nobody else's broken ones get in. Validation is an outcome the caller's arguments decide. A super
property or a property named like a member the method writes itself (`user_id`) wins
over it; `PayloadReadsAs` says so too, since the code does nothing to prevent it.

A tracing event is one more kind of call, `trace`. Its fields are visited in their
order (`Record`): a `message` that is text becomes the message of the log, everything else
a property; an event without one has its name for a message.

### `Encoding` and `FlatBuffer`

The encoders write seven table layouts out by hand, each one twice or three times. The
modules have one writer, `TableInto`, and the layouts as data: the slots the vtable
gives, the order in which the table's parts are pushed, and what follows the table; so
a slot that does not match the pushes shows when a reader, which knows only the
documented field ids, follows the offsets. A number is its value in its first byte and
a marker in the others. Nothing runs beside an encoder: `Encode` is a whole call, and
what the state adds is that both buffers are used again.

`Aligned` follows every offset a reader may follow: from both roots to the API key, the data, the
vector of entries and each entry, and on to its texts, its labels with their keys and values, its
histogram, the vector of buckets and each bucket. `ReadsBack` compares what is read with
the parameters the worker makes of a queue entry (`EventParams`, `LogParams`, `MetricParams`), which are
a translation of `worker/encode.rs` and not checked against another source; it does not read
the batch id, the next of a counter of the process. The run always gives a service and a source. `encode_event` and `encode_event_into`, and the
two of logs, are twins in the source and one definition here.

## 3. Runs

| Run | Question | Bounds and why they are enough |
|---|---|---|
| `disk_buffer` | Does the buffer lose, invent, reorder or overgrow, and does it implement `FrameLog`? | bodies 1, 2 and 6 against a limit of 5: appends that fit, evict one, evict several and exceed the limit alone; 4 frames make two compactions possible; one crash anywhere but between the two renames, one failed cursor write or rewrite |
| `disk_buffer_hostile` | What holds whatever happens? | torn frames, crashes anywhere and any one I/O error, two-cell headers so that a header itself can be torn |
| `compact_crash` | violation, section 4 | |
| `worker_disk` | Is everything accepted accounted for, and sent no more often than explained, whatever the disk buffer does? | two entries, one kind of calls, batch of two and channel of one (short and exact queues, and frames of one entry and of two), a disk limit of one entry (every second append evicts), two crashes (the second one finds what the first one doubled), one disk error of any kind in the table of section 2, a flush interval of zero or not; no sampling and no flush or close calls, which are `worker_live`'s subject: the clients' leaving closes and the tick flushes |
| `worker_live` | Do requests end, is every ack earned, do entries leave, and in order, how long do the queues get, what goes unreported, with and without a disk buffer? | three entries, from calls and from sampling passes of up to three points: a batch and a remainder, and a pass that overfills a batch of two; a channel of one and a flush and a close that may be taken together, the second being sent while the first is absorbed; one retry; a disk limit of one entry; no crash and no disk error, which end what the liveness properties are about and which `EvictionsReported` excludes. That a pass may take the metric queue past what the channel can needs a fourth entry: with `MaxItems = 4` TLC checks the safety properties in half a minute (two million states) and finds them true, but not the liveness ones in reasonable time, so this run leaves it to the theorem |
| `shutdown_loss` | violation, section 4 | |
| `enqueue` | Are refused messages reported right by racing threads? | three threads (two may be inside the error branch while one succeeds), channel of one, six calls |
| `histogram` | Do racing observers and the sampler lose or tear totals? | two observers, a value on a bound and one above it |
| `instruments` | Do points add up, does a pass leave anything out, does anybody wait for ever, do timestamps follow the system clock? | counters modulo four, two ticks to a millisecond, jumps of three ticks, two callers, two workers; five plans, see below |
| `transport` | Does the peer ever lose its place in the stream, and what may the worker take Ok and an error for? | header of two cells, buffer of four, bodies of one (fits), three (the header leaves first) and five (goes past the buffer); four sends, three connections: a failure, a retry on a new connection and another failure |
| `calls` | Which session and super properties does an entry carry, and is its payload well formed? | one calling thread, because calls only read what is shared, beside any three changes: register twice and remove, or replace an id twice; a property of its own key, of a registered key, of the method's key, an empty object, a value that is no object, and objects cut off at their only value and at the first of two; events of up to two fields, of one name or two |
| `encoding` | Does a reader find in a batch what was queued? | chunks of one and two entries; fields absent, empty and of lengths with different remainders modulo four; a chunk after another of at most three entries in all |

*The plans of `instruments`.* The two halves of the module only meet in the stamp of a
pass and in `ClockSpec`'s workers, so a behaviour goes far in one of them or a little
way in both: `TimeRuns` (two workers resync, the clock is moved once), `ClockJumps` (one
worker, the clock is moved twice, so back again), `CountersRun` (two passes, three adds that
wrap a counter), `PoolFills` (three registrations, questions or uses of the
application's lock around one pass) and `BothMeet`. Each plan's numbers are bounds and
nothing else.

One type invariant is checked for each module with a concurrent state that could leave
its types; the type invariant of `Enqueue`, `Histogram`, `Calls` and `Encoding` is in the module
for the reader, and for proofs.

Deadlock is not checked where the system may stop: a worker that is done, a bound
that is reached.

**Fairness** (`worker_live`). Weak fairness of the worker's own steps: the runtime
polls a ready task, a send ends after `network_timeout` at the latest
(`transport.rs`), so no await of the worker is for ever. Strong fairness of `Recv`:
`tokio::select!` starts at a random branch, so a ready `recv` is not passed over
for ever by ready ticks. Nothing is assumed of the network except in
`EverythingLeaves`, which says what follows *if* the flush tick and successful sends
keep happening whenever they keep being possible. Clients and crashes have no
fairness.

**Fairness** (`instruments`). Weak fairness of each thread's steps: a thread of the
operating system runs, and a waiter that alone wants a free mutex gets it. Weak fairness of the
anchor and of each worker's resync: it is a tick of `select!`, and there is no await
between its readings and its store. Nothing is assumed of the system clock; it is
moved as often as the plan says, and `Heals` speaks of what follows.

## 4. Where code and documents disagree

Two disagreements are runs that TLC refutes:

* **`compact_crash`**: `buffer.rs:7-9` promises that a crash re-sends a few frames
  rather than losing any. `compact` renames the shorter file into place before it
  replaces the cursor; a crash in between leaves the old, larger cursor, `open`
  clamps it to the end of the file, and every unread frame is skipped.
* **`shutdown_loss`**: "Delivery is therefore at-least-once" (`buffer.rs:9`). When
  `close_timeout` expires while `drain_disk_buffer` awaits a send, the frame it took
  is dropped with the future, and the drop of the buffer persists the position
  behind it.

Others are kept in the modules as definitions marked "Does not hold"; add one to the
configuration beside the module and TLC prints the trace:

* `FlushAckMeansSent` (`FEATURES.md:89`): a flush is acknowledged also when its sends failed.
* `EvictsOldestFirst` (`FEATURES.md:66`): a frame that was put back is evicted after younger ones.
* `OneReportPerEpisode` (`client/mod.rs:283`): a late `swap(true)` outlives the success
  that should have cleared it, and the next episode is not reported.
* `QueueFullMeansFull` (`error.rs:39-46`): a refusal because the worker is gone is
  reported as a full queue.
* `PointsAreCumulative` (`histogram.rs:10-11`): a sample between two updates of one
  observation ships a bucket below a lower one.
* `NeverStepsBack` (`clock.rs:5-8`, a resync once a second folds in "the current drift"): a worker held up between
  its readings and its store puts an older correction in force, and timestamps step
  back though the system clock did not. The next resync mends it (`Heals`).
* `DeltasAlwaysAddUp` (`metrics/mod.rs:43-44`, "Sum the points to get a total"): the sample after
  a total has wrapped ships nothing for what was added.
* `EveryoneGetsThrough` with `Reader[g] = "len"`, or with `"register"` or `"len"` in
  `UnderLock`: a closure that asks the registry waits for the mutex its own caller
  holds; and one that takes "a short lock" (`gauge.rs:17`) under which another thread
  registers an instrument waits for that thread, which waits for the sampler.
* `PayloadIsAlwaysJson` (`props.rs:98`, "Both key and value are emitted as valid JSON"):
  `Props::add` and `add_plain` ignore the error of `serde_json::to_writer` (`props.rs:117`, 132). A value
  whose `Serialize` fails half way, like a map with keys that are no text, leaves `{"k":{` in the
  object; `finish` closes it, `object_inner` (`payload.rs:74`) looks at the outer braces only, and
  the payload of the call is no JSON. TLC refutes it in five steps.
* `MessageIsPulledOut` (`tell-tracing/src/lib.rs:140`): a `message` field that is a number
  stays a property, and hides the message the log has.
* `HistogramVTableIs16` (`metric.rs:384`, "14 bytes, aligned to 16"): nothing aligns
  the buffer between the labels and the histogram, so behind a label value whose length
  is not three modulo four the vtable starts off a four-byte, or an even, position. Its
  table is aligned, and a reader that does not insist on aligned vtables finds all.
* Modelled as the code has it, with no document to contradict: `build()` refuses a metrics
  interval of zero and lets a flush interval of zero through, on which the worker
  panics before it receives anything (`IntervalPanics`); calls then find a channel without a
  receiver.
* Seen while translating, too small for a property: `encode_batch_into` gives a root
  offset from the start of the buffer, not of the batch, which is right only because
  `finish_batch` clears the buffer; the batch vtable says that the table has 32 bytes
  (`batch.rs:45-47`) where 28 are written; and the header of `metric.rs` calls
  histograms "not yet supported" (line 15).
* In `DiskBuffer`, `Tearing = TRUE` shows a torn frame that swallows the next one, and
  `Faults = {"read"}` a reader that has left `read_pos`.

## 5. Proofs

`tlapm` checks the proofs in eight modules: one for each component with theorems, and
`InductionLemmas`. All are for every value of the constants that satisfies the named
ASSUMEs of the module they are about. Every safety property of a passing run is proved.

### `DiskBuffer`

In `DiskBufferProofs`, from `LengthAssumption`, `BoundAssumption` and
`FailureAssumption`:

| Theorem | Property | Further hypotheses |
|---|---|---|
| `TypesHold` | `TypeOK` | none: any crash, tear or error |
| `SubtractionsHold` | `NoUnderflow` | none |
| `ResendsExplained` | `ResentOnlyAfterTrouble` | none |
| `ReaderStaysAtReadPos` | `ReaderAtReadPos` | no failed reads |
| `NoFrameLost` | `NothingLost` | `MildFailures` |
| `NoRubbish` | `OnlyWholeFrames` | `MildFailures` |
| `LimitRespected` | `AppendRespectsLimit` | `MildFailures` |
| `BufferIsFrameLog` | `ImplementsFrameLog` | `MildFailures` |

`MildFailures`: crashes anywhere but between the two renames of a compaction, frames
not torn, and no I/O error but a failed write of the rewritten file or of the cursor
(the cursor write inside `compact` excepted). The runs of section 4 show why each
part is needed.

*The inductive invariants.* `Typed` is `TypeOK` with `ControlOK` (which fields mean
what at each `pc`: a pending batch while writing, nothing pending when idle) and
`NoUnderflow`; none of the three is inductive alone, since `EvictPersist` needs the
clamp `EvictTo <= write_pos` and `Open` needs the cursor clamp. For safety, `Sound`
adds: the file is `Framed` (every cell belongs to a whole frame that is there), the
read position, the cursor and the scan of an eviction stand at frame boundaries, a
running process has `write_pos` at the end of the file, the cursor is never past
`read_pos` except while a compaction is between its renames, and every acknowledged
frame is taken, evicted or `Stored` at or after the place reading goes on (`Kept`).
Boundaries are what makes a header readable and so what makes eviction and draining
move by whole frames; without them `NothingLost` does not survive one step. The limit
needs `RoomMade` as well: when an append is about to write, the unread part plus the
new frame fits, or nothing else is unread. The lemmas on files (`AppendFrame`,
`SuffixFromBoundary`, `BoundaryAfterFrame`, `FramesDisjoint`) say that appending and
compacting keep all of this.

*How often a frame is handed out.* `Resent` cannot use boundaries, because it is to hold
with torn frames and failed reads too. It says that the cells of the file are in the order
in which they were written, and that a frame of which something lies beyond the place
reading goes on from was handed out at most as often as there were crashes and failures; so
handing it out again keeps within one more. A reader that a failed read left ahead of
`read_pos` hands out frames which `read_pos` has not passed, so what lies beyond the reader
has to be one better still (`Astray`): the failure that led it astray pays for it.

*The refinement.* Each step is shown to be a step of `FrameLog` or to change nothing of it.
The mapping reads frames off cells, so the lemmas it rests on are about `FramesBetween`: a
file splits at a boundary, two files that agree on a stretch give the same frames, one whole
frame reads as itself, and the bytes between two boundaries are the sizes of the frames
between them. `EvictPersist` drops several frames in one step of `FrameLog`, which drops
just as many as the new one needs; that the scan did the same needs `Scanning`: the
last frame the scan went over was still needed.

### `Worker`

In `WorkerProofs`, from `CapacityAssumption` (what `build()` lets
through), `BoundAssumption` and `RequestAssumption` (a request is not an entry), for every
choice of the failures, of the numbers of clients, series, retries and crashes, and with a disk
buffer or without. `MildFailures` is not assumed: the disk errors and crashes that damage the file
(section 2) are among the steps.

| Theorem | Property |
|---|---|
| `AcksAreSent` | `NoAckForgotten` |
| `QueuesStayBounded` | `QueuesBounded` |
| `AcksCoverEarlier` | `AckCoversEarlier` |
| `OrderlyExit` | `ExitLosesOnlyTheChannel` |
| `TypesHold` | `TypeOK` |
| `EverythingAccounted` | `Accounted` |
| `QueuesKeepOrder` | `KindsStayInOrder` |
| `CrashesAtMostDouble` | `SentOnceUnlessCrash` |
| `NoSilentEviction` | `EvictionsReported` |

*The inductive invariants.* `MemoryInv` has four parts, each kept by every step under a
lemma of its own. `Shapes`: the channel, the queues and the frame in the air are sequences
over what they may hold. `AcksHeld`: which acks may be held at which `pc`, and that a held
request is neither answered nor waiting in the channel. `QueueInv`: a queue whose
stage a pass has left behind is short (batch stages) or empty (flush and drain), and a
pass that absorbs has at most the channel's capacity to add, one that samples at most the
points that are left of it; from it the bounds and the
orderly exit follow. `Fifo`: a request is in the channel once, and what was
accepted before it stands in front of it, or is in the queues of stages yet to come,
or has left memory. `AckCoversEarlier` needs it because an ack is sent many steps after the
request was taken from the channel, when only the stages tell what is still queued.

`WorkerInv` adds `Balanced`, `Flags` and `IdsTyped`. `Accounted` is not inductive: it counts
the frames taken from the disk buffer and not yet committed, and a commit forgets
them. `Balanced` accounts for every entry without them, so that each must have been
received, reported, put back, skipped or abandoned by the time of the commit; and it
says that a batch in the air is still at the head of its queue, so that a worker dropped in
the middle of a send has it twice and never not at all.

`Ordered` is about order: the channel and the queues of events and logs are ascending in the
numbers the entries were accepted under, a queue is behind the channel (`Ahead`), and an
entry is in one of the channel, the queues and the disk buffer at most (`Apart`). Without
`Apart` a frame sent from the disk buffer could carry an entry that also waits in a queue
behind an older one. Together with `Balanced` (a batch in the air is the head of its queue)
it gives `KindsStayInOrder`. The metric queue, which sampled points enter past the channel, is
kept free of duplicates only.

*How often an entry is sent.* One might expect one more sending for each crash. TLC refutes it
with two: a frame that a drain takes and puts back is in the file twice until the commit, and
a crash in between leaves both. The next drain may send one and put the other back; a second
crash leaves three, and that makes four sendings. So a crash may double what there is
(`Doublings`), and the invariant `Repeated` counts accordingly: the `Load` of an entry is how often it was sent, with every place
it can be sent from again; its `Threat` is what a crash would make of that, with what is not
committed and what can still be put back; the load stays within the `Limit` and the threat
within twice of it. A crash doubles the limit, and the load becomes the threat; a failed commit
adds one copy. In a torn file no frame is read more often than in a whole one, so this holds
there too; once a reader has lost its place (`damage` is "astray") nothing is said of it here, and
`ResentOnlyAfterTrouble` of `DiskBuffer` is the bound.

*No eviction unreported.* Until a crash or a disk error, `Unevicted`: the file is undamaged, the log is within its
limit or holds a single frame, and while a frame taken from it is in the air there is room to
put it back, for nothing is stored during a drain but what the drain took out. Both compare
sums of sizes along sequences, which change at either end.

### `Enqueue`

In `ClientProofs`, from `EnqueueAssumption` (finitely many threads, a channel that holds at
least one message), for any number of threads and calls, with a worker that may end or
not:

| Theorem | Property |
|---|---|
| `EnqueueTypesHold` | `EnqueueTypeOK` |
| `ReportsNeverPileUp` | `OneReportPerSet` |
| `RefusalsAreReported` | `FullIsReported` |

*The inductive invariant.* `Drops`: a thread in the error branch holds a count of its own
that has not been reported yet, which makes the number of reports grow by one with each.
`Tickets`: a clear of `queue_full` admits one report; while the flag is down there is one to
spare, and the `swap` that finds it down uses it. It counts the threads that are about to
report together with the reports made, since a thread may stand between its `swap` and its
report while others clear and set the flag again. `Alarms`: a raised flag has been reported
or a thread is about to report it, and a refusal has been reported or some thread is
still in the error branch.

### `Transport`

In `TransportProofs`, from `TransportAssumption` (the length prefix fits the `BufWriter`),
for every frame length, buffer size and number of failures:

| Theorem | Property |
|---|---|
| `TypesHold` | `TypeOK` |
| `PeersKeepTheirPlace` | `StreamIsFrames` |
| `TransportIsFrameSender` | `ImplementsFrameSender` |

*The inductive invariant.* `StreamIsFrames` speaks of what the kernel took, which says
nothing of the cells it takes next. `Pipe` joins what the live connection carried, what
the `BufWriter` holds and what `send_frame` has still to hand over; `TransportInv` says that
this is whole frames up to the one being sent. A write, a flush or a short write moves
cells along the pipe and leaves it as it is. An error drops all of it but what the kernel
took, a prefix of it, and the connection with it (`stream = 0`), so that nothing is ever
written behind a torn frame.

*The refinement.* `FrameSender` hands a frame over in the step in which the kernel takes its last
cell, which may be a short write, the end of a `write_all` or the flush. `Carried` says that the
pipe is what the connection had carried when the attempt began and then this frame, and that
no cell of the former is still to come. So the cells a step hands over bring this frame or
none; the frame is handed over exactly when nothing of the pipe is left; and `send_frame`
returns Ok only then.

### `Histogram`

In `HistogramProofs`, from `BoundsAssumption` (finitely many threads; bounds that rise to
infinity; values between the infinities), for any number of threads:

| Theorem | Property |
|---|---|
| `TypesHold` | `TypeOK` |
| `TotalsNeverFallBack` | `PointsGrow` |
| `NothingLost` | `ExactWhenQuiet` |
| `QuietSnapshots` | `QuietSnapshotIsExact` |

*The inductive invariants.* `PointsGrow` compares what two samples shipped, cell by cell, and
follows from `Grown`: whatever was read of a cell is behind it. That a quiet series is exact
says nothing while a call is under way. `Tally` does: a count plus the threads that have
still to add to it is the number of observations it is about. `Extremes` does it for the
folded cells: the least and greatest value are in their cells or on their way with a thread,
whose compare-and-exchange fails if the cell moved since it was read. `Balance` does it for the
sum, which is not a number of threads but a sum over what each has still to add: it is that of
the observations without one for each such thread. `Undisturbed` carries
this over to the cells a quiet snapshot has read so far.

### `Instruments` and `Clock`

In `InstrumentsProofs`, from `ClockAssumption` and `InstrumentsAssumption` (one sampler, apart from
the callers; the worker's own gauge is not one of the application's; what a gauge closure does is
one of three things), for any number of threads, workers, instruments and passes:

| Theorem | Property |
|---|---|
| `TypesHold` | `TypeOK` |
| `TimestampsTrack` | `TracksSystem` |
| `PointsAddUp` | `DeltasAddUp` |
| `SamplesComplete` | `SampleIsComplete` |

*The inductive invariants.* `ClockInv` says what the correction in force was made of: a reading of
the system clock, one of the counter, how much time passed between them; and the same of what
a worker has read and not yet stored. The rest is arithmetic of whole milliseconds, where each cut
off part costs less than one.

A thread's program is data here, the sequence `todo`, so the invariants speak of what is left in
it. `Types` says which steps a thread may have to take. `Counting`: the `swap` of a counter
always follows its `load`, so nothing of the same thread comes between; what the points say, with what
the next `swap` will say, is what was added, or less once a total has wrapped; the three numbers
are also compared between the two steps (`Loaded`). `Registration`: an
instrument is pushed once, and only after its call began. `Pass`: what a pass has shipped, what it has
still planned and what it will plan when it reaches a kind are `Distinct`, and everything
registered when it began is among them. A plan grows when the worker comes to a kind (`Loop`, one
stretch of steps per instrument), which is where the lemmas on `FlattenSeq` are needed.

### `Calls` and `Payload`

In `ClientProofs`, from `CallsAssumption`, for any number of threads, of calls and changes beside
them, any properties and any events:

| Theorem | Property |
|---|---|
| `StampsAreCurrent` | `StampedInForce` |
| `PayloadsAreJson` | `PayloadIsJson` |
| `FragmentFollowsMap` | `FragmentMatchesMap` |
| `PayloadsRead` | `PayloadReadsAs` |

*The inductive invariants.* `Signed` says of a call under way which session id it has read: its
caller's, none, or one in force since it began. For payloads there is a layer of lemmas first.
`Joined` (and `Opened`, with a brace in front) says that tokens are these members in this order
with commas between them; each function of `payload.rs` and `props.rs` is shown to do to the
members what it should, an empty fragment or object included, where no comma may be written. A
reader takes the last member of a key, `Gives`, which depends on the members alone. `Kept`: the
fragment has the members of the map, each once; `Merges`: what a call has read was kept of one map
in force since it began, and its payload gives this map overridden by the call's members. The
properties of a tracing event are made by a fold over its fields, `Recorded` says of each prefix
what it gave.

### `Encoding` and `FlatBuffer`

In `EncodingProofs`, from `EncodingAssumption` (what is queued has the types of `types.rs`, an
API key has 16 bytes), for any number of entries, any texts, labels and buckets, and any of the
optional fields absent:

| Theorem | Property |
|---|---|
| `TypesHold` | `TypeOK` |
| `BatchesReadBack` | `ReadsBack` |
| `BatchesAligned` | `Aligned` |
| `CollectingIsEncoding` | `PreEncodedAgrees` |

*The inductive invariant.* `IInv` says that the buffers are what the last call made of empty
ones, which is where clearing them counts. The rest is about one call, and goes from the
inside out:

* A layout is sound (`Laid`) when the slot the vtable gives for a field is where its bytes are
  pushed. That the seven layouts are is shown for each, field by field, and that their parameters
  are those fields (`Fits`). Nothing before the entries themselves is about a layout in particular.
* A writer only adds to the buffer, and patches only placeholders it pushed itself. So what a
  reader may look at is stated of every buffer that `Keeps` what was written between two
  positions, and a table stays readable whatever is written behind it (`TailKept`, `TableKept`,
  `VectorKept`).
* From these follow the text tables (`TextTable`: labels and batches), tables whose parts are
  tables (`AnyTable`), and vectors of tables; then an entry (`EntryWritten`), the data
  (`DataWritten`) and the batch (`BatchWritten`); and last that the reader's operators give back
  the parameters and lead to multiples of four (`DataRead`, `BatchRead`).
* Collecting is encoding in place because an entry is the same bytes wherever it is put
  (`EntryMoved`): behind bytes of a multiple-of-four length every writer pads as much as it does in
  an empty buffer, and an offset, being a difference of positions, does not change when both move
  (`PatchMoved`). `Moved` states it of one writer; an induction over the parts of a table
  (`TableMoved`) and one over the tables and slots of a vector (`VectorMoved`) carry it to an entry,
  and one over the entries to the data (`DataAgrees`). That an entry ends at a multiple of four is
  needed for the entry behind it, and comes from the lemmas of `Aligned`.

The recursive functions inside `TableInto` and `TableVector` are reasoned about as runs
(`RunsBy`, `VectorRunsBy`): a sequence of buffers each made from the one before, which is all
that an invariant along them needs.

### Induction

The prover cannot instantiate the library's induction theorems, which take a predicate.
`InductionLemmas` states them for sets: a set of naturals that has 0 and the successor
of each of its members has all of them (`Induction`, from the well-foundedness of `<`, by way of the
`Least` member of a set). What is to be proved of every `n` is given as `{n \in Nat : ...}`. From it
follow that a function defined by primitive recursion exists and satisfies its equation
(`PrimitiveRecursion`, and `RecursionTo` for one on `0..n`), and that `FlattenSeq` does what it
should (`FlattenAppended` and others). With them the recursive functions of the modules are
reasoned about: `FramesBetween`, `FramesOn`, `SumTo`, `Doublings`, `Fields`, `Visited`, the sum of
frame sizes in `FrameLog`, and those inside the writers of `FlatBuffer`.

### Only model-checked

* All liveness: `RequestsEnd`, `EverythingLeaves`, `Heals`, `EveryoneGetsThrough`. The prover has
  neither fairness nor ENABLED.

## 6. What is not modelled

* `config.rs` beyond what `build()` lets through (`CapacityAssumption`, `DiskChoices`,
  `FlushIntervals`), `types.rs`, `error.rs`: plain data and declarations.
* `tell-bench`, examples and scripts: they measure and show.
* Inside the modelled parts: file permissions and the symlink check of `open`, the
  `u32` length of a frame or a vector (frames are far smaller), escaping of JSON, the
  order of the bytes of a number, the wording of errors, the level and component of a log,
  the label values of an instrument (each is an instrument here), what an `on_error`
  callback does, two clients on one `buffer_path` (nothing locks the files, and what
  either reads then is arbitrary), and what a peer does with what it was sent. A frame whose
  attempt failed after the kernel had all of it counts as sent in `Transport`
  (`delivered`) and not in `Worker` (`received` counts Ok), so `SentOnceUnlessCrash` is
  about the worker's own doing.

## 7. Plan

Done, in this order: `DiskBuffer` with `FrameLog` and its first proofs, `Worker`, `Enqueue`,
`Histogram`, `Transport`, `Calls`, `Encoding`, then the worker's start, `Clock` and
`Instruments`, `FrameSender`, the tracing layer, the proofs about `Worker`, `Enqueue`,
`Transport` and `Histogram`, and then `InductionLemmas` with what it made possible: the two
refinements, the bounds on repeated sending, and the proofs about `Instruments`, `Clock`,
`Calls`, and last the encoders. Next:

1. The worker over `FrameSender`: entries counted by what reached the peer, so that a retry
   of what had arrived shows.
