------------------------------ MODULE Enqueue ------------------------------
(***************************************************************************)
(* Tell::enqueue of crates/tell/src/client/mod.rs: several threads put     *)
(* messages into the bounded channel without blocking, count the messages  *)
(* refused and report QueueFull once for each time the queue fills up.     *)
(*                                                                         *)
(* Each atomic access is a step of its own, the flag queue_full included.  *)
(* access[t] is what thread t does next:                                   *)
(*   "try_send"                                                            *)
(*   "load", "store"                   the Ok branch                       *)
(*   "count", "peek", "swap"           the Err branch                      *)
(*   "report"                          the call of on_error                *)
(***************************************************************************)
EXTENDS Integers, FiniteSets

CONSTANTS
    Senders,        \* threads that call the client
    QueueCapacity,  \* TellConfig.queue_capacity
    MayClose,       \* whether the worker may end while threads still call
    MaxSends        \* bound: calls of enqueue

ASSUME EnqueueAssumption ==
    /\ IsFiniteSet(Senders) /\ QueueCapacity \in Nat \ {0}
    /\ MayClose \in BOOLEAN /\ MaxSends \in Nat

VARIABLES
    length,         \* messages in the channel
    open,           \* whether the worker holds the receiving end
    queue_full,     \* Inner.queue_full
    dropped,        \* Metrics.dropped
    access,
    seen,           \* the local `dropped` of each thread
    \* history
    sends,          \* calls begun
    refused,        \* try_sends that failed
    episodes,       \* refusals that follow a success, or come first
    filling,        \* whether the last try_send was refused
    reports,        \* the numbers QueueFull was reported with
    clears,         \* times queue_full was cleared
    falseAlarm      \* a refusal came from a queue that was not full

enqueueVars == <<length, open, queue_full, dropped, access, seen, sends, refused,
               episodes, filling, reports, clears, falseAlarm>>
sendHistory == <<sends, refused, episodes, filling, falseAlarm>>

EnqueueTypeOK ==
    /\ length \in 0..QueueCapacity
    /\ open \in BOOLEAN /\ queue_full \in BOOLEAN
    /\ dropped \in Nat
    /\ access \in [Senders -> {"try_send", "load", "store", "count", "peek", "swap", "report"}]
    /\ seen \in [Senders -> Nat]
    /\ sends \in 0..MaxSends
    /\ refused \in Nat /\ episodes \in Nat /\ clears \in Nat
    /\ filling \in BOOLEAN /\ falseAlarm \in BOOLEAN
    /\ reports \subseteq Nat

EnqueueInit ==
    /\ length = 0 /\ open = TRUE /\ queue_full = FALSE /\ dropped = 0
    /\ access = [t \in Senders |-> "try_send"] /\ seen = [t \in Senders |-> 0]
    /\ sends = 0 /\ refused = 0 /\ episodes = 0 /\ filling = FALSE
    /\ reports = {} /\ clears = 0 /\ falseAlarm = FALSE
-----------------------------------------------------------------------------
Proceed(t, at) == access' = [access EXCEPT ![t] = at]

HasRoom == length < QueueCapacity

\* try_send puts the message into the channel.
SendOk(t) ==
    /\ access[t] = "try_send" /\ sends < MaxSends
    /\ open /\ HasRoom
    /\ length' = length + 1
    /\ sends' = sends + 1 /\ filling' = FALSE
    /\ Proceed(t, "load")
    /\ UNCHANGED <<open, queue_full, dropped, seen, refused, episodes, reports, clears, falseAlarm>>

\* try_send finds the channel full, or disconnected.
SendRefused(t) ==
    /\ access[t] = "try_send" /\ sends < MaxSends
    /\ ~(open /\ HasRoom)
    /\ sends' = sends + 1 /\ refused' = refused + 1
    /\ episodes' = IF filling THEN episodes ELSE episodes + 1
    /\ filling' = TRUE
    /\ falseAlarm' = (falseAlarm \/ length < QueueCapacity)
    /\ Proceed(t, "count")
    /\ UNCHANGED <<length, open, queue_full, dropped, seen, reports, clears>>

NeedsClear == queue_full

\* Ok branch: queue_full.load, then store(false) if it was set.
LoadFlag(t) ==
    /\ access[t] = "load"
    /\ Proceed(t, IF NeedsClear THEN "store" ELSE "try_send")
    /\ UNCHANGED <<length, open, queue_full, dropped, seen, sendHistory, reports, clears>>

ClearFlag(t) ==
    /\ access[t] = "store"
    /\ queue_full' = FALSE
    /\ clears' = clears + 1
    /\ Proceed(t, "try_send")
    /\ UNCHANGED <<length, open, dropped, seen, sendHistory, reports>>

\* Err branch: record_drop, then load and swap(true), then the report.
RecordDrop(t) ==
    /\ access[t] = "count"
    /\ dropped' = dropped + 1
    /\ seen' = [seen EXCEPT ![t] = dropped + 1]
    /\ Proceed(t, "peek")
    /\ UNCHANGED <<length, open, queue_full, sendHistory, reports, clears>>

PeekFlag(t) ==
    /\ access[t] = "peek"
    /\ Proceed(t, IF queue_full THEN "try_send" ELSE "swap")
    /\ UNCHANGED <<length, open, queue_full, dropped, seen, sendHistory, reports, clears>>

\* Mutant: a store instead of a swap.
StoreWins == TRUE

\* Mutant: the condition on the swapped value is inverted.
LateSwapWins == queue_full

SwapWins == ~queue_full

SwapFlag(t) ==
    /\ access[t] = "swap"
    /\ queue_full' = TRUE
    /\ Proceed(t, IF SwapWins THEN "report" ELSE "try_send")
    /\ UNCHANGED <<length, open, dropped, seen, sendHistory, reports, clears>>

OwnCount(t) == seen[t]

Report(t) ==
    /\ access[t] = "report"
    /\ reports' = reports \cup {OwnCount(t)}
    /\ Proceed(t, "try_send")
    /\ UNCHANGED <<length, open, queue_full, dropped, seen, sendHistory, clears>>

\* The worker takes a message, or is gone.
WorkerRecv ==
    /\ open /\ length > 0
    /\ length' = length - 1
    /\ UNCHANGED <<open, queue_full, dropped, access, seen, sendHistory, reports, clears>>

WorkerGone ==
    /\ MayClose /\ open
    /\ open' = FALSE /\ length' = 0
    /\ UNCHANGED <<queue_full, dropped, access, seen, sendHistory, reports, clears>>

EnqueueNext ==
    \/ \E t \in Senders :
        \/ SendOk(t) \/ SendRefused(t)
        \/ LoadFlag(t) \/ ClearFlag(t)
        \/ RecordDrop(t) \/ PeekFlag(t) \/ SwapFlag(t) \/ Report(t)
    \/ WorkerRecv \/ WorkerGone

EnqueueSpec == EnqueueInit /\ [][EnqueueNext]_enqueueVars
-----------------------------------------------------------------------------
At(places) == {t \in Senders : access[t] \in places}
Quiet == At({"try_send"}) = Senders
ReportsMade == Cardinality(reports)

\* Reports never pile up: after the first, each one needs queue_full to have
\* been cleared since, however many threads find the queue full at once.  Each
\* carries a count of its own, made by the thread that reports it.
OneReportPerSet ==
    /\ ReportsMade + Cardinality(At({"report"})) <= clears + 1
    /\ reports \subseteq 1..dropped
    /\ \A t \in At({"report"}) : seen[t] \notin reports
    /\ \A t, u \in At({"report"}) : t # u => seen[t] # seen[u]

\* Once nobody is inside enqueue, a queue that has refused a message has been
\* reported at least once.
FullIsReported == Quiet /\ refused > 0 => reports # {}

\* Does not hold with two threads.  "on_error receives one QueueFull per full
\* episode" (client/mod.rs:283): when nobody is inside enqueue, there are as
\* many reports as times the queue filled up.  A late swap(true) can outlive
\* the success that should have cleared it.
OneReportPerEpisode == Quiet => ReportsMade = episodes

\* Does not hold when the worker may end.  "The in-memory queue is full"
\* (error.rs:39): what is reported as QueueFull was refused by a full queue.
QueueFullMeansFull == ~falseAlarm
=============================================================================
