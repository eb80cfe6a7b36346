---------------------------- MODULE WorkerProofs ----------------------------
(***************************************************************************)
(* Theorems about the queues and the acks of the worker (module Worker)    *)
(* and about what becomes of the entries, for every value of the           *)
(* constants.                                                              *)
(*                                                                         *)
(* The inductive invariants are put together from parts that are each      *)
(* about a few variables, with a lemma for each that says that every step  *)
(* keeps it.  The first half: Shapes (the sequences in memory), AcksHeld   *)
(* (when an ack may be held), QueueInv (what a pass over the queues has    *)
(* done so far) and Fifo (what is in front of a request and behind it).    *)
(* The second half is about the entries.                                   *)
(*                                                                         *)
(* Accounted is not inductive: a commit forgets the frames that were taken *)
(* from the disk buffer, so they must be accounted for without it, by what *)
(* was sent, put back, reported or abandoned.  Balanced says so, and that  *)
(* a batch in the air is still the head of its queue.                      *)
(*                                                                         *)
(* Entries are numbered as they are accepted.  Ordered says that the       *)
(* channel and each queue are in that order, the queues behind the         *)
(* channel, and that an entry is in one place at a time: what was moved to *)
(* the disk buffer has left its queue, so that a frame sent from there     *)
(* cannot overtake itself.                                                 *)
(*                                                                         *)
(* An entry is sent once, unless crashes repeat it.  Repeated bounds how   *)
(* often it was sent (received) and may yet be: its load is what was sent  *)
(* plus the places it can be sent from again, its threat is what a crash   *)
(* makes of that load by bringing back the frames not yet committed, and   *)
(* a crash at most doubles the limit both are held to.  That holds through *)
(* torn frames too, until a reader has lost its place: from then on        *)
(* nothing is said (StaysAstray).                                          *)
(*                                                                         *)
(* A frame that is put back evicts nothing as long as nothing crashes and  *)
(* the disk buffer does not fail: Unevicted says that its file is whole,   *)
(* that the log stays within its limit, and that the room a frame left in  *)
(* it is still there.                                                      *)
(***************************************************************************)
EXTENDS Worker, InductionLemmas, SequenceTheorems, FiniteSetTheorems, TLAPS

(* Sequences as sets, and the ids in them *)

LEMMA ToSetOf ==
    ASSUME NEW S, NEW s \in Seq(S)
    PROVE  /\ ToSet(s) = {s[i] : i \in 1..Len(s)}
           /\ ToSet(s) \subseteq S
           /\ ToSet(<<>>) = {}
BY DEF ToSet

LEMMA ToSetAppend ==
    ASSUME NEW S, NEW s \in Seq(S), NEW e \in S
    PROVE  ToSet(Append(s, e)) = ToSet(s) \cup {e}
<1>1. \A i \in 1..Len(s) : Append(s, e)[i] = s[i]
  OBVIOUS
<1>2. Append(s, e)[Len(s) + 1] = e /\ DOMAIN Append(s, e) = 1..(Len(s) + 1) /\ DOMAIN s = 1..Len(s)
  OBVIOUS
<1>3. Len(s) \in Nat
  OBVIOUS
<1> QED BY <1>1, <1>2, <1>3 DEF ToSet

LEMMA ToSetHeadTail ==
    ASSUME NEW S, NEW s \in Seq(S), s # <<>>
    PROVE  ToSet(s) = {Head(s)} \cup ToSet(Tail(s))
<1>1. Len(s) \in Nat \ {0} /\ DOMAIN s = 1..Len(s) /\ DOMAIN Tail(s) = 1..(Len(s) - 1)
  OBVIOUS
<1>2. Head(s) = s[1] /\ \A i \in 1..(Len(s) - 1) : Tail(s)[i] = s[i + 1]
  OBVIOUS
<1>3. ASSUME NEW x \in ToSet(s) PROVE x \in {Head(s)} \cup ToSet(Tail(s))
  <2>1. PICK i \in 1..Len(s) : x = s[i]
    BY <1>1 DEF ToSet
  <2>2. CASE i = 1
    BY <2>1, <2>2, <1>2
  <2>3. CASE i # 1
    <3>1. i - 1 \in 1..(Len(s) - 1) /\ (i - 1) + 1 = i
      BY <2>3, <1>1
    <3>2. Tail(s)[i - 1] = x
      BY <3>1, <2>1, <1>2
    <3> QED BY <3>1, <3>2, <1>1 DEF ToSet
  <2> QED BY <2>2, <2>3
<1>4. ASSUME NEW x \in ToSet(Tail(s)) PROVE x \in ToSet(s)
  <2>1. PICK i \in 1..(Len(s) - 1) : x = Tail(s)[i]
    BY <1>1 DEF ToSet
  <2>2. i + 1 \in 1..Len(s)
    BY <1>1
  <2> QED BY <2>1, <2>2, <1>1, <1>2 DEF ToSet
<1>5. Head(s) \in ToSet(s)
  BY <1>1, <1>2 DEF ToSet
<1> QED BY <1>3, <1>4, <1>5

LEMMA ToSetConcat ==
    ASSUME NEW S, NEW s \in Seq(S), NEW t \in Seq(S)
    PROVE  ToSet(s \o t) = ToSet(s) \cup ToSet(t)
<1>1. Range(s \o t) = Range(s) \cup Range(t)
  BY RangeConcatenation
<1> QED BY <1>1 DEF Range, ToSet

LEMMA ToSetSplit ==
    ASSUME NEW S, NEW s \in Seq(S), NEW k \in 0..Len(s)
    PROVE  /\ SubSeq(s, 1, k) \in Seq(S) /\ SubSeq(s, k + 1, Len(s)) \in Seq(S)
           /\ Len(SubSeq(s, 1, k)) = k /\ Len(SubSeq(s, k + 1, Len(s))) = Len(s) - k
           /\ ToSet(s) = ToSet(SubSeq(s, 1, k)) \cup ToSet(SubSeq(s, k + 1, Len(s)))
<1>1. Len(s) \in Nat /\ k \in Nat /\ 1 \in 1..(Len(s) + 1) /\ k \in (1 - 1)..Len(s) /\ Len(s) \in k..Len(s)
  OBVIOUS
<1>2. /\ \A i \in 1..k : s[i] \in S
      /\ \A i \in (k + 1)..Len(s) : s[i] \in S
  BY <1>1
<1>3. /\ SubSeq(s, 1, k) \in Seq(S) /\ SubSeq(s, k + 1, Len(s)) \in Seq(S)
      /\ Len(SubSeq(s, 1, k)) = k /\ Len(SubSeq(s, k + 1, Len(s))) = Len(s) - k
  BY <1>1, <1>2, SubSeqProperties
<1>4. SubSeq(s, 1, k) \o SubSeq(s, k + 1, Len(s)) = SubSeq(s, 1, Len(s))
  BY <1>1, ConcatAdjacentSubSeq
<1>5. SubSeq(s, 1, Len(s)) = s
  BY SubSeqFull
<1>6. ToSet(SubSeq(s, 1, k) \o SubSeq(s, k + 1, Len(s)))
        = ToSet(SubSeq(s, 1, k)) \cup ToSet(SubSeq(s, k + 1, Len(s)))
  BY <1>3, ToSetConcat
<1> QED BY <1>3, <1>4, <1>5, <1>6

LEMMA IdsOfUnion ==
    ASSUME NEW s, NEW t, NEW u, ToSet(s) = ToSet(t) \cup ToSet(u)
    PROVE  IdsOf(s) = IdsOf(t) \cup IdsOf(u)
BY DEF IdsOf

-----------------------------------------------------------------------------
(* Memory: the channel and the queues *)

LEMMA Constants ==
    /\ QueueCapacity \in Nat /\ QueueCapacity > 0 /\ BatchSize \in Nat /\ BatchSize > 0
    /\ MaxItems \in Nat /\ MaxPoints \in Nat /\ TrackKinds \subseteq Kinds /\ "wal" \notin Kinds /\ "metrics" \in Kinds
BY CapacityAssumption, BoundAssumption DEF Kinds

Batches == {f \in Seq(Item) : Len(f) <= BatchSize}

LEMMA ChunkSplits ==
    ASSUME NEW q \in Seq(Item)
    PROVE  /\ ChunkOf(q) \in Batches /\ ChunkOf(q) \in Seq(Item) /\ Unchunked(q) \in Seq(Item)
           /\ Len(Unchunked(q)) <= Len(q)
           /\ ToSet(q) = ToSet(ChunkOf(q)) \cup ToSet(Unchunked(q))
<1>1. ChunkLen(q) \in 0..Len(q) /\ ChunkLen(q) <= BatchSize /\ Len(q) \in Nat
  BY Constants DEF ChunkLen
<1>2. Len(ChunkOf(q)) = ChunkLen(q)
  BY <1>1, ToSetSplit DEF ChunkOf
<1> QED BY <1>1, <1>2, ToSetSplit DEF ChunkOf, Unchunked, Batches

Shapes ==
    /\ channel \in Seq(Message)
    /\ queues \in [Kinds -> Seq(Item)]
    /\ items \in 0..MaxItems

LEMMA QueueShapes ==
    ASSUME Shapes
    PROVE  /\ \A s : [queues EXCEPT ![s] = Unchunked(@)] \in [Kinds -> Seq(Item)]
           /\ \A s, m \in Item : [queues EXCEPT ![s] = Append(@, m)] \in [Kinds -> Seq(Item)]
           /\ \A m \in Message : Append(channel, m) \in Seq(Message)
           /\ [k \in Kinds |-> <<>>] \in [Kinds -> Seq(Item)] /\ <<>> \in Seq(Message)
<1>1. \A k \in Kinds : queues[k] \in Seq(Item) /\ Unchunked(queues[k]) \in Seq(Item)
  BY ChunkSplits DEF Shapes
<1>2. \A k \in Kinds : \A m \in Item : Append(queues[k], m) \in Seq(Item)
  BY <1>1, AppendProperties
<1>3. \A m \in Message : Append(channel, m) \in Seq(Message)
  BY AppendProperties DEF Shapes
<1> QED BY <1>1, <1>2, <1>3, EmptySeq DEF Shapes

LEMMA AbsorbShapes ==
    ASSUME Shapes, channel # <<>>, Absorb(Head(channel)), channel' = Tail(channel)
    PROVE  channel' \in Seq(Message) /\ queues' \in [Kinds -> Seq(Item)]
<1>1. Head(channel) \in Message /\ channel' \in Seq(Message)
  BY HeadTailProperties DEF Shapes
<1>2. CASE Head(channel) \in Requests
  BY <1>1, <1>2 DEF Absorb, Shapes
<1>3. CASE Head(channel) \notin Requests
  <2>1. Head(channel) \in Item /\ Head(channel).kind \in Kinds
    BY <1>1, <1>3 DEF Message, Item
  <2>2. [queues EXCEPT ![Head(channel).kind] = Append(@, Head(channel))] \in [Kinds -> Seq(Item)]
    BY <2>1, QueueShapes
  <2> QED BY <1>1, <1>3, <2>2 DEF Absorb
<1> QED BY <1>2, <1>3

LEMMA NewItem ==
    ASSUME Shapes, items < MaxItems, NEW k \in Kinds
    PROVE  [kind |-> k, id |-> items + 1] \in Item /\ items + 1 \in 0..MaxItems
BY Constants DEF Shapes, Item, Ids

LEMMA ShapesStep == Shapes /\ [Next]_vars => Shapes'
<1> SUFFICES ASSUME Shapes, [Next]_vars PROVE Shapes'
  OBVIOUS
<1> USE Constants
<1>1. CASE UNCHANGED vars
  BY <1>1 DEF vars, Shapes
<1>2. CASE (\E r \in Requests : Call(r)) \/ (\E r \in Requests : SendControlFails(r))
        \/ (\E r \in Requests : SendControlRefused(r)) \/ SampleTick \/ SampleEnds
        \/ DropClients \/ NewSender \/ NewTicks \/ Dispatch \/ RecvFails \/ EnterStage
        \/ SkipStage \/ EndStages \/ DrainNext \/ DrainMisreads \/ DrainEnds
        \/ DrainFails \/ DrainResets \/ CommitWal \/ Chunk \/ ChunksEnd
        \/ PutBack \/ Retry \/ SaveEnds \/ CloseAcks \/ FlushTick
  BY <1>2 DEF Call, workerVars, SendControlFails, SendControlRefused, SampleTick, SampleEnds, DropClients, NewSender, OpenOrGoWithout, Fault,
       clientVars, NewTicks, Dispatch, Begin, RecvFails, EnterStage, SkipStage, EndStages,
       AckAll, DrainNext, DrainMisreads, Sending, DrainEnds, DrainFails, DrainResets, CommitWal, Chunk, ChunksEnd, PutBack, AppendFails,
       Sent, Retry, SaveEnds, CloseAcks, FlushTick, Shapes
<1>3. ASSUME NEW k \in TrackKinds, Track(k) PROVE Shapes'
  BY <1>3, QueueShapes, NewItem DEF Track, workerVars, Shapes, Message
<1>4. ASSUME NEW r \in Requests, SendControl(r) PROVE Shapes'
  BY <1>4, QueueShapes DEF SendControl, workerVars, Shapes, Message
<1>5. CASE IntervalPanics
  BY <1>5, QueueShapes DEF IntervalPanics, Vanish, Shapes
<1>6. CASE TryRecv
  BY <1>6, AbsorbShapes DEF TryRecv, Shapes
<1>7. CASE SendOk
  BY <1>7, QueueShapes DEF SendOk, ChunkDone, clientVars, Shapes
<1>8. CASE FallBack
  BY <1>8, QueueShapes DEF FallBack, ChunkDone, clientVars, Shapes
<1>9. CASE GiveUp
  BY <1>9, QueueShapes DEF GiveUp, ChunkDone, clientVars, Shapes
<1>10. CASE ShutdownTimeout
  BY <1>10, QueueShapes DEF ShutdownTimeout, clientVars, Shapes
<1>11. ASSUME NEW k \in Kinds, SaveChunk(k) PROVE Shapes'
  BY <1>11, QueueShapes DEF SaveChunk, ChunkDone, clientVars, Shapes
<1>12. CASE Exit
  BY <1>12, QueueShapes DEF Exit, Vanish, Shapes
<1>13. CASE Recv
  BY <1>13, AbsorbShapes DEF Recv, Shapes
<1>14. CASE SamplePoint
  BY <1>14, QueueShapes, NewItem DEF SamplePoint, Shapes
<1>15. CASE RuntimeDropped
  BY <1>15, QueueShapes DEF RuntimeDropped, Vanish, Shapes
<1>16. CASE Restart
  BY <1>16, QueueShapes DEF Restart, Vanish, Shapes
<1> QED
  BY <1>1, <1>2, <1>3, <1>4, <1>5, <1>6, <1>7, <1>8, <1>9, <1>10, <1>11, <1>12, <1>13, <1>14,
       <1>15, <1>16
     DEF Next, ClientStep, WorkerStep, SampleStep, FlushStep, SendStep, EndStep

-----------------------------------------------------------------------------
(* Acks *)

Statuses == {"new", "sending", "queued", "absorbed", "acked", "failed"}

AcksHeld ==
    /\ status \in [Requests -> Statuses]
    /\ \/ pc \in {"start", "ticks", "select", "sample", "exit", "done"}
       \/ pc \in {"stage", "drain", "commit", "chunk", "send"} /\ mode = "full"
       => \A r \in Requests : status[r] # "absorbed"

LEMMA AcksStep == AcksHeld /\ [Next]_vars => AcksHeld'
<1> SUFFICES ASSUME AcksHeld, [Next]_vars PROVE AcksHeld'
  OBVIOUS
<1>1. CASE UNCHANGED vars
  BY <1>1 DEF vars, AcksHeld, Statuses
<1>2. ASSUME NEW k \in TrackKinds, Track(k) PROVE AcksHeld'
  BY <1>2 DEF Track, workerVars, AcksHeld, Statuses
<1>3. ASSUME NEW r \in Requests, Call(r) PROVE AcksHeld'
  BY <1>3 DEF Call, workerVars, AcksHeld, Statuses
<1>4. ASSUME NEW r \in Requests, SendControl(r) PROVE AcksHeld'
  BY <1>4 DEF SendControl, workerVars, AcksHeld, Statuses
<1>5. ASSUME NEW r \in Requests, SendControlFails(r) PROVE AcksHeld'
  BY <1>5 DEF SendControlFails, workerVars, AcksHeld, Statuses
<1>6. CASE DropClients
  BY <1>6 DEF DropClients, workerVars, AcksHeld, Statuses
<1>7. CASE NewSender
  BY <1>7 DEF NewSender, OpenOrGoWithout, Fault, clientVars, AcksHeld, Statuses
<1>8. CASE NewTicks
  BY <1>8 DEF NewTicks, clientVars, AcksHeld, Statuses
<1>9. CASE IntervalPanics
  BY <1>9 DEF IntervalPanics, Vanish, Sent, Fail, AcksHeld, Statuses
<1>10. CASE TryRecv
  BY <1>10 DEF TryRecv, Absorb, AcksHeld, Statuses
<1>11. CASE Dispatch
  BY <1>11 DEF Dispatch, Begin, WhatToDo, Absorbed, Requests, clientVars, AcksHeld, Statuses
<1>12. CASE RecvFails
  BY <1>12 DEF RecvFails, Begin, clientVars, AcksHeld, Statuses
<1>13. CASE EnterStage
  BY <1>13 DEF EnterStage, clientVars, AcksHeld, Statuses
<1>14. CASE SkipStage
  BY <1>14 DEF SkipStage, clientVars, AcksHeld, Statuses
<1>15. CASE EndStages
  BY <1>15 DEF EndStages, AckAll, AcksHeld, Statuses
<1>16. CASE DrainNext
  BY <1>16 DEF DrainNext, Sending, clientVars, AcksHeld, Statuses
<1>17. CASE DrainEnds
  BY <1>17 DEF DrainEnds, clientVars, AcksHeld, Statuses
<1>18. CASE CommitWal
  BY <1>18 DEF CommitWal, Fault, clientVars, AcksHeld, Statuses
<1>19. CASE Chunk
  BY <1>19 DEF Chunk, Sending, clientVars, AcksHeld, Statuses
<1>20. CASE ChunksEnd
  BY <1>20 DEF ChunksEnd, clientVars, AcksHeld, Statuses
<1>21. CASE SendOk
  BY <1>21 DEF SendOk, ChunkDone, Sent, clientVars, AcksHeld, Statuses
<1>22. CASE PutBack
  BY <1>22 DEF PutBack, AppendFails, Fault, Sent, clientVars, AcksHeld, Statuses
<1>23. CASE FallBack
  BY <1>23 DEF FallBack, AppendToWal, AppendFails, Fault, ChunkDone, Sent, clientVars, AcksHeld,
       Statuses
<1>24. CASE Retry
  BY <1>24 DEF Retry, clientVars, AcksHeld, Statuses
<1>25. CASE GiveUp
  BY <1>25 DEF GiveUp, ReportBatch, ChunkDone, Sent, clientVars, AcksHeld, Statuses
<1>26. CASE ShutdownTimeout
  BY <1>26 DEF ShutdownTimeout, Sent, clientVars, AcksHeld, Statuses
<1>27. ASSUME NEW k \in Kinds, SaveChunk(k) PROVE AcksHeld'
  BY <1>27 DEF SaveChunk, AppendToWal, AppendFails, Fault, clientVars, AcksHeld, Statuses
<1>28. CASE SaveEnds
  BY <1>28 DEF SaveEnds, clientVars, AcksHeld, Statuses
<1>29. CASE CloseAcks
  BY <1>29 DEF CloseAcks, AckAll, AcksHeld, Statuses
<1>30. CASE Exit
  BY <1>30 DEF Exit, Vanish, Sent, Fail, AcksHeld, Statuses
<1>31. CASE Recv
  BY <1>31 DEF Recv, Absorb, AcksHeld, Statuses
<1>32. CASE FlushTick
  BY <1>32 DEF FlushTick, Begin, clientVars, AcksHeld, Statuses
<1>33. CASE SampleTick
  BY <1>33 DEF SampleTick, clientVars, AcksHeld, Statuses
<1>34. CASE RuntimeDropped
  BY <1>34 DEF RuntimeDropped, Abandon, Vanish, Sent, Fail, AcksHeld, Statuses
<1>35. CASE Restart
  BY <1>35 DEF Restart, Vanish, Sent, Fail, AcksHeld, Statuses
<1>36. ASSUME NEW r \in Requests, SendControlRefused(r) PROVE AcksHeld'
  BY <1>36 DEF SendControlRefused, workerVars, AcksHeld, Statuses
<1>37. CASE SamplePoint
  BY <1>37 DEF SamplePoint, AcksHeld, Statuses
<1>38. CASE SampleEnds
  BY <1>38 DEF SampleEnds, Begin, clientVars, AcksHeld, Statuses
<1>39. CASE DrainMisreads
  BY <1>39 DEF DrainMisreads, Sending, clientVars, AcksHeld, Statuses
<1>40. CASE DrainFails
  BY <1>40 DEF DrainFails, clientVars, AcksHeld, Statuses
<1>41. CASE DrainResets
  BY <1>41 DEF DrainResets, clientVars, AcksHeld, Statuses
<1> QED
  BY <1>1, <1>2, <1>3, <1>4, <1>5, <1>6, <1>7, <1>8, <1>9, <1>10, <1>11, <1>12, <1>13, <1>14,
       <1>15, <1>16, <1>17, <1>18, <1>19, <1>20, <1>21, <1>22, <1>23, <1>24, <1>25, <1>26, <1>27,
       <1>28, <1>29, <1>30, <1>31, <1>32, <1>33, <1>34, <1>35,
       <1>36, <1>37, <1>38, <1>39, <1>40, <1>41
     DEF Next, ClientStep, WorkerStep, SampleStep, FlushStep, SendStep, EndStep

-----------------------------------------------------------------------------
(* Queues *)

InStages == {"stage", "drain", "commit", "chunk", "send"}

\* k is done: its stage is over.
QueueInv ==
    /\ pc \in {"start", "ticks", "select", "absorb", "sample", "save", "close", "exit", "done"} \cup InStages
    /\ \A k \in Kinds :
        /\ \/ Len(queues[k]) <= BatchSize + QueueCapacity
           \/ k = "metrics" /\ Len(queues[k]) < BatchSize + MaxPoints
        /\ pc \in {"start", "ticks", "close", "exit", "done"} => queues[k] = <<>>
        /\ pc = "select" => Len(queues[k]) < BatchSize
        /\ pc = "absorb" => Len(queues[k]) + budget <= BatchSize + QueueCapacity
        /\ pc = "sample" /\ k # "metrics" => Len(queues[k]) < BatchSize
        /\ pc = "sample" /\ k = "metrics" => Len(queues[k]) + budget < BatchSize + MaxPoints
        /\ pc \in InStages /\ k \notin ToSet(stages) =>
             Len(queues[k]) < BatchSize /\ (mode # "full" => queues[k] = <<>>)
    /\ pc \in {"absorb", "sample"} => budget \in Nat
    /\ pc \in InStages => stages \in Seq(Kinds \cup {"wal"})
    /\ pc \in InStages \ {"stage"} => stages # <<>>
    /\ pc \in {"drain", "commit"} => Stage = "wal"
    /\ pc = "chunk" => Stage \in Kinds

LEMMA LenTypes ==
    ASSUME Shapes
    PROVE  \A k \in Kinds : queues[k] \in Seq(Item) /\ Len(queues[k]) \in Nat /\ (queues[k] = <<>> <=> Len(queues[k]) = 0)
           /\ Len(Unchunked(queues[k])) \in Nat /\ Len(Unchunked(queues[k])) <= Len(queues[k])
<1>1. \A k \in Kinds : queues[k] \in Seq(Item)
  BY DEF Shapes
<1> QED BY <1>1, ChunkSplits

LEMMA AbsorbLens ==
    ASSUME Shapes, channel # <<>>, Absorb(Head(channel))
    PROVE  \A k \in Kinds : Len(queues'[k]) \in Nat /\ Len(queues'[k]) <= Len(queues[k]) + 1
<1>1. CASE Head(channel) \in Requests
  BY <1>1, LenTypes DEF Absorb
<1>2. CASE Head(channel) \notin Requests
  <2>1. Head(channel) \in Item
    BY <1>2, HeadTailProperties DEF Shapes, Message
  <2>2. \A k \in Kinds : Len(Append(queues[k], Head(channel))) = Len(queues[k]) + 1
    BY <2>1, AppendProperties DEF Shapes
  <2> QED BY <1>2, <2>2, LenTypes, SMTT(30), ZenonT(30) DEF Absorb, Shapes
<1> QED BY <1>1, <1>2

LEMMA SampledLens ==
    ASSUME Shapes, SamplePoint
    PROVE  \A k \in Kinds : /\ k = "metrics" => Len(queues'[k]) = Len(queues[k]) + 1
                            /\ k # "metrics" => Len(queues'[k]) = Len(queues[k])
<1> DEFINE m == [kind |-> "metrics", id |-> items + 1]
<1>1. m \in Item
  BY NewItem, Constants DEF SamplePoint
<1>2. \A k \in Kinds : queues'[k] = IF k = "metrics" THEN Append(queues[k], m) ELSE queues[k]
  BY DEF SamplePoint, Shapes
<1>3. \A k \in Kinds : queues[k] \in Seq(Item)
  BY DEF Shapes
<1>4. \A k \in Kinds : Len(Append(queues[k], m)) = Len(queues[k]) + 1
  BY <1>1, <1>3, AppendProperties
<1> QED BY <1>2, <1>4

LEMMA ToSetEmpty == ToSet(<<>>) = {}
BY DEF ToSet

LEMMA AllStages ==
    ASSUME NEW m, Begin(m)
    PROVE  stages' \in Seq(Kinds \cup {"wal"}) /\ Kinds \subseteq ToSet(stages') /\ pc' = "stage"
<1>1. FlushFull \in Seq(Kinds \cup {"wal"}) /\ FlushAll \in Seq(Kinds \cup {"wal"})
  BY DEF FlushFull, FlushAll, Kinds
<1>2. /\ 1 \in DOMAIN FlushFull /\ 2 \in DOMAIN FlushFull /\ 3 \in DOMAIN FlushFull
      /\ FlushFull[1] = "events" /\ FlushFull[2] = "logs" /\ FlushFull[3] = "metrics"
  BY DEF FlushFull
<1>3. /\ 2 \in DOMAIN FlushAll /\ 3 \in DOMAIN FlushAll /\ 4 \in DOMAIN FlushAll
      /\ FlushAll[2] = "events" /\ FlushAll[3] = "logs" /\ FlushAll[4] = "metrics"
  BY DEF FlushAll
<1>4. Kinds \subseteq ToSet(FlushFull)
  BY <1>2 DEF ToSet, Kinds
<1>5. Kinds \subseteq ToSet(FlushAll)
  BY <1>3 DEF ToSet, Kinds
<1> QED BY <1>1, <1>4, <1>5 DEF Begin

LEMMA NextStage ==
    ASSUME NEW S, stages \in Seq(S), stages # <<>>
    PROVE  /\ Stage \in S /\ Tail(stages) \in Seq(S)
           /\ \A k : k \notin ToSet(Tail(stages)) => k = Stage \/ k \notin ToSet(stages)
BY ToSetHeadTail, HeadTailProperties DEF Stage

LEMMA QueueStep == Shapes /\ QueueInv /\ [Next]_vars => QueueInv'
<1> SUFFICES ASSUME Shapes, QueueInv, [Next]_vars PROVE QueueInv'
  OBVIOUS
<1> USE Constants, LenTypes
<1>1. CASE UNCHANGED vars
  BY <1>1 DEF vars, QueueInv, InStages, Stage, Shapes
<1>2. ASSUME NEW k \in TrackKinds, Track(k) PROVE QueueInv'
  BY <1>2 DEF Track, workerVars, QueueInv, InStages, Stage, Shapes
<1>3. ASSUME NEW r \in Requests, Call(r) PROVE QueueInv'
  BY <1>3 DEF Call, workerVars, QueueInv, InStages, Stage, Shapes
<1>4. ASSUME NEW r \in Requests, SendControl(r) PROVE QueueInv'
  BY <1>4 DEF SendControl, workerVars, QueueInv, InStages, Stage, Shapes
<1>5. ASSUME NEW r \in Requests, SendControlFails(r) PROVE QueueInv'
  BY <1>5 DEF SendControlFails, workerVars, QueueInv, InStages, Stage, Shapes
<1>6. CASE DropClients
  BY <1>6 DEF DropClients, workerVars, QueueInv, InStages, Stage, Shapes
<1>7. CASE NewSender
  BY <1>7 DEF NewSender, OpenOrGoWithout, Fault, clientVars, QueueInv, InStages, Stage, Shapes
<1>8. CASE NewTicks
  BY <1>8 DEF NewTicks, clientVars, QueueInv, InStages, Stage, Shapes
<1>9. CASE IntervalPanics
  BY <1>9 DEF IntervalPanics, Vanish, Sent, Fail, QueueInv, InStages, Stage, Shapes
<1>10. CASE TryRecv
  BY <1>10, AbsorbLens, SMTT(30), ZenonT(30) DEF TryRecv, QueueInv, InStages, Stage
<1>11. CASE Dispatch
  BY <1>11, AllStages DEF Dispatch, clientVars, Shapes, QueueInv, InStages
<1>12. CASE RecvFails
  BY <1>12, AllStages DEF RecvFails, clientVars, Shapes, QueueInv, InStages
<1>13. CASE EnterStage
  BY <1>13, NextStage DEF EnterStage, clientVars, Stage, FromWal, QueueInv, InStages, Shapes
<1>14. CASE SkipStage
  BY <1>14, NextStage DEF SkipStage, clientVars, HasWork, Misjudged, ABatch, QueueInv, InStages
<1>15. CASE EndStages
  BY <1>15, ToSetEmpty DEF EndStages, QueueInv, InStages, Stage
<1>16. CASE DrainNext
  BY <1>16 DEF DrainNext, Sending, clientVars, QueueInv, InStages, Stage, Shapes
<1>17. CASE DrainEnds
  BY <1>17 DEF DrainEnds, clientVars, QueueInv, InStages, Stage, Shapes
<1>18. CASE CommitWal
  BY <1>18, NextStage DEF CommitWal, Fault, clientVars, HasWork, ABatch, QueueInv, InStages
<1>19. CASE Chunk
  BY <1>19 DEF Chunk, Sending, clientVars, QueueInv, InStages, Stage, Shapes
<1>20. CASE ChunksEnd
  BY <1>20, NextStage DEF ChunksEnd, clientVars, HasWork, ABatch, QueueInv, InStages
<1>21. CASE SendOk
  BY <1>21, NextStage DEF SendOk, ChunkDone, Sent, clientVars, Stage, FromWal, QueueInv,
       InStages, Shapes
<1>22. CASE PutBack
  BY <1>22 DEF PutBack, Sent, FromWal, clientVars, QueueInv, InStages, Stage
<1>23. CASE FallBack
  BY <1>23, NextStage DEF FallBack, AppendToWal, AppendFails, Fault, ChunkDone, Sent, clientVars,
       Stage, FromWal, QueueInv, InStages, Shapes
<1>24. CASE Retry
  BY <1>24 DEF Retry, clientVars, QueueInv, InStages, Stage, Shapes
<1>25. CASE GiveUp
  BY <1>25, NextStage DEF GiveUp, ReportBatch, ChunkDone, Sent, clientVars, Stage, FromWal,
       QueueInv, InStages, Shapes
<1>26. CASE ShutdownTimeout
  BY <1>26 DEF ShutdownTimeout, Sent, clientVars, QueueInv, InStages, Stage, Shapes
<1>27. ASSUME NEW k \in Kinds, SaveChunk(k) PROVE QueueInv'
  BY <1>27 DEF SaveChunk, AppendToWal, AppendFails, Fault, clientVars, QueueInv, InStages, Stage,
       Shapes
<1>28. CASE SaveEnds
  BY <1>28 DEF SaveEnds, AllSaved, clientVars, QueueInv, InStages, Stage, Shapes
<1>29. CASE CloseAcks
  BY <1>29 DEF CloseAcks, AckAll, QueueInv, InStages, Stage, Shapes
<1>30. CASE Exit
  BY <1>30 DEF Exit, Vanish, Sent, Fail, QueueInv, InStages, Stage, Shapes
<1>31. CASE Recv
  BY <1>31, AbsorbLens DEF Recv, QueueInv, InStages, Stage
<1>32. CASE FlushTick
  BY <1>32, AllStages DEF FlushTick, clientVars, Shapes, QueueInv, InStages
<1>33. CASE SampleTick
  BY <1>33 DEF SampleTick, clientVars, QueueInv, InStages, Stage, Shapes
<1>34. CASE RuntimeDropped
  BY <1>34 DEF RuntimeDropped, Abandon, Vanish, Sent, Fail, QueueInv, InStages, Stage, Shapes
<1>35. CASE Restart
  BY <1>35 DEF Restart, Vanish, Sent, Fail, QueueInv, InStages, Stage, Shapes
<1>36. ASSUME NEW r \in Requests, SendControlRefused(r) PROVE QueueInv'
  BY <1>36 DEF SendControlRefused, workerVars, QueueInv, InStages, Stage, Shapes
<1>37. CASE SamplePoint
  <2>1. /\ pc' = "sample" /\ pc = "sample" /\ budget' = budget - 1 /\ budget \in Nat /\ budget > 0
        /\ "metrics" \in Kinds
    BY <1>37 DEF SamplePoint, QueueInv
  <2>2. \A k \in Kinds : /\ k = "metrics" => Len(queues'[k]) = Len(queues[k]) + 1
                         /\ k # "metrics" => Len(queues'[k]) = Len(queues[k])
    BY <1>37, SampledLens
  <2>3. Len(queues'["metrics"]) + budget' < BatchSize + MaxPoints
    BY <2>1, <2>2 DEF QueueInv
  <2>4. Len(queues'["metrics"]) < BatchSize + MaxPoints
    BY <2>1, <2>2, <2>3
  <2>5. \A k \in Kinds : k # "metrics" => Len(queues'[k]) < BatchSize
    BY <2>1, <2>2 DEF QueueInv
  <2>6. \A k \in Kinds : k # "metrics" => Len(queues'[k]) <= BatchSize + QueueCapacity
    BY <2>2, <2>5
  <2> QED BY <2>1, <2>3, <2>4, <2>5, <2>6 DEF QueueInv, InStages
<1>38. CASE SampleEnds
  BY <1>38, AllStages DEF SampleEnds, clientVars, Shapes, QueueInv, InStages
<1>39. CASE DrainMisreads
  BY <1>39 DEF DrainMisreads, Sending, clientVars, QueueInv, InStages, Stage, Shapes
<1>40. CASE DrainFails
  BY <1>40 DEF DrainFails, clientVars, QueueInv, InStages, Stage, Shapes
<1>41. CASE DrainResets
  BY <1>41 DEF DrainResets, clientVars, QueueInv, InStages, Stage, Shapes
<1> QED
  BY <1>1, <1>2, <1>3, <1>4, <1>5, <1>6, <1>7, <1>8, <1>9, <1>10, <1>11, <1>12, <1>13, <1>14,
       <1>15, <1>16, <1>17, <1>18, <1>19, <1>20, <1>21, <1>22, <1>23, <1>24, <1>25, <1>26, <1>27,
       <1>28, <1>29, <1>30, <1>31, <1>32, <1>33, <1>34, <1>35,
       <1>36, <1>37, <1>38, <1>39, <1>40, <1>41
     DEF Next, ClientStep, WorkerStep, SampleStep, FlushStep, SendStep, EndStep

-----------------------------------------------------------------------------
(* First in, first out *)

LEMMA ChannelIds ==
    ASSUME Shapes
    PROVE  /\ \A r \in Requests : IdsOf(Append(channel, r)) = InChannel
           /\ \A m \in Item : IdsOf(Append(channel, m)) = InChannel \cup {m.id}
           /\ channel # <<>> /\ Head(channel) \in Requests => InChannel = IdsOf(Tail(channel))
           /\ channel # <<>> /\ Head(channel) \notin Requests =>
                Head(channel) \in Item /\ InChannel = {Head(channel).id} \cup IdsOf(Tail(channel))
<1>1. ASSUME NEW m \in Message PROVE ToSet(Append(channel, m)) = ToSet(channel) \cup {m}
  BY ToSetAppend DEF Shapes
<1>2. ASSUME NEW r \in Requests PROVE IdsOf(Append(channel, r)) = InChannel
  BY <1>1 DEF Message, IdsOf, InChannel
<1>3. ASSUME NEW m \in Item PROVE IdsOf(Append(channel, m)) = InChannel \cup {m.id}
  <2>1. m \notin Requests
    BY RequestAssumption
  <2> QED BY <1>1, <2>1 DEF Message, IdsOf, InChannel
<1>4. ASSUME channel # <<>>
      PROVE  Head(channel) \in Message /\ ToSet(channel) = {Head(channel)} \cup ToSet(Tail(channel))
  BY <1>4, ToSetHeadTail, HeadTailProperties DEF Shapes
<1>5. ASSUME channel # <<>>, Head(channel) \in Requests PROVE InChannel = IdsOf(Tail(channel))
  BY <1>4, <1>5 DEF IdsOf, InChannel
<1>6. ASSUME channel # <<>>, Head(channel) \notin Requests
      PROVE  Head(channel) \in Item /\ InChannel = {Head(channel).id} \cup IdsOf(Tail(channel))
  BY <1>4, <1>6 DEF IdsOf, InChannel, Message
<1> QED BY <1>2, <1>3, <1>5, <1>6

LEMMA QueueIds ==
    ASSUME Shapes, NEW k \in Kinds
    PROVE  /\ \A m \in Item : IdsOf(Append(queues[k], m)) = IdsOf(queues[k]) \cup {m.id}
           /\ IdsOf(queues[k]) = IdsOf(ChunkOf(queues[k])) \cup IdsOf(Unchunked(queues[k]))
<1>1. queues[k] \in Seq(Item)
  BY DEF Shapes
<1>2. ASSUME NEW m \in Item PROVE IdsOf(Append(queues[k], m)) = IdsOf(queues[k]) \cup {m.id}
  BY <1>1, ToSetAppend, RequestAssumption DEF IdsOf
<1>3. IdsOf(queues[k]) = IdsOf(ChunkOf(queues[k])) \cup IdsOf(Unchunked(queues[k]))
  BY <1>1, ChunkSplits, IdsOfUnion
<1> QED BY <1>2, <1>3

LEMMA InSomeQueue ==
    /\ \A i : i \in InQueues <=> \E k \in Kinds : i \in IdsOf(queues[k])
    /\ \A i : i \in InQueues' <=> \E k \in Kinds : i \in IdsOf(queues[k])'
BY DEF InQueues

\* An absorbed entry is still in memory.
LEMMA AbsorbIds ==
    ASSUME Shapes, channel # <<>>, Absorb(Head(channel)), channel' = Tail(channel)
    PROVE  (InChannel \cup InQueues)' = InChannel \cup InQueues /\ InChannel' \subseteq InChannel
<1>1. InChannel' = IdsOf(Tail(channel))
  BY DEF InChannel, IdsOf
<1>2. CASE Head(channel) \in Requests
  BY <1>1, <1>2, ChannelIds DEF Absorb, InQueues, IdsOf
<1>3. CASE Head(channel) \notin Requests
  <2> DEFINE m == Head(channel)
  <2>1. m \in Item /\ m.kind \in Kinds /\ InChannel = {m.id} \cup IdsOf(Tail(channel))
    BY <1>3, ChannelIds DEF Item
  <2>2. \A k \in Kinds : IdsOf(queues[k])' = IdsOf(queues[k]) \cup (IF k = m.kind THEN {m.id} ELSE {})
    <3>1. queues' = [queues EXCEPT ![m.kind] = Append(@, m)] /\ DOMAIN queues = Kinds
      BY <1>3 DEF Absorb, Shapes
    <3>2. \A k \in Kinds : queues'[k] = IF k = m.kind THEN Append(queues[k], m) ELSE queues[k]
      BY <3>1
    <3>3. \A k \in Kinds : IdsOf(queues[k])' = IdsOf(queues'[k])
      BY DEF IdsOf
    <3> QED BY <2>1, <3>2, <3>3, QueueIds
  <2>3. InQueues' = InQueues \cup {m.id}
    BY <2>1, <2>2, InSomeQueue
  <2> QED BY <1>1, <2>1, <2>3
<1> QED BY <1>2, <1>3

\* Behind a request in the channel there is no second message of it and
\* nothing that was accepted before it.
QueuedOnce ==
    \A n \in 1..Len(channel) : channel[n] \in Requests =>
        /\ status[channel[n]] = "queued"
        /\ \A m \in (n + 1)..Len(channel) :
             /\ channel[m] # channel[n]
             /\ channel[m] \notin Requests => channel[m].id \notin before[channel[n]]

Fifo ==
    /\ before \in [Requests -> SUBSET (1..items)]
    /\ InChannel \cup InQueues \subseteq 1..items
    /\ QueuedOnce
    /\ \A r \in Requests : status[r] = "absorbed" => before[r] \cap InChannel = {}
    /\ AckCoversEarlier

LEMMA FewerInQueues ==
    ASSUME Fifo, UNCHANGED <<channel, items, before, status>>, InQueues' \subseteq InQueues
    PROVE  Fifo'
<1>1. InChannel' = InChannel
  BY DEF InChannel, IdsOf
<1>2. QueuedOnce'
  BY DEF Fifo, QueuedOnce
<1> QED BY <1>1, <1>2 DEF Fifo, AckCoversEarlier

LEMMA SameInMemory ==
    ASSUME Fifo, UNCHANGED <<channel, queues, items, before, status>>
    PROVE  Fifo'
<1>1. InQueues' = InQueues
  BY InSomeQueue DEF IdsOf
<1> QED BY <1>1, FewerInQueues

LEMMA UnchunkedIds ==
    ASSUME Shapes, NEW s, queues' = [queues EXCEPT ![s] = Unchunked(@)]
    PROVE  InQueues' \subseteq InQueues
<1>1. \A k \in Kinds : queues'[k] = queues[k] \/ queues'[k] = Unchunked(queues[k])
  BY DEF Shapes
<1>2. \A k \in Kinds : IdsOf(queues'[k]) \subseteq IdsOf(queues[k])
  BY <1>1, QueueIds
<1>3. \A k \in Kinds : IdsOf(queues[k])' = IdsOf(queues'[k])
  BY DEF IdsOf
<1> QED BY <1>2, <1>3, InSomeQueue

LEMMA NothingIds == IdsOf(<<>>) = {}
BY ToSetEmpty DEF IdsOf

LEMMA EmptyQueuesIds ==
    /\ (\A k \in Kinds : queues[k] = <<>>) => InQueues = {}
    /\ queues' = [k \in Kinds |-> <<>>] => InQueues' = {}
<1>1. ASSUME \A k \in Kinds : queues[k] = <<>> PROVE InQueues = {}
  BY <1>1, NothingIds, InSomeQueue
<1>2. ASSUME queues' = [k \in Kinds |-> <<>>] PROVE InQueues' = {}
  <2>1. \A k \in Kinds : IdsOf(queues[k])' = IdsOf(<<>>)
    BY <1>2 DEF IdsOf
  <2> QED BY <2>1, NothingIds, InSomeQueue
<1> QED BY <1>1, <1>2

LEMMA MemoryGone ==
    ASSUME Fifo, channel' = <<>>, queues' = [k \in Kinds |-> <<>>], UNCHANGED <<items, before>>
    PROVE  Fifo'
<1>1. InQueues' = {} /\ InChannel' = {}
  BY EmptyQueuesIds, NothingIds DEF InChannel, IdsOf
<1>2. QueuedOnce'
  BY DEF QueuedOnce
<1> QED BY <1>1, <1>2 DEF Fifo, AckCoversEarlier

LEMMA AcksSent ==
    ASSUME Shapes, AcksHeld, Fifo, AckAll, UNCHANGED <<channel, queues, items, before>>,
           InQueues = {} \/ \A r \in Requests : status[r] # "absorbed"
    PROVE  Fifo'
<1>1. InChannel' = InChannel /\ InQueues' = InQueues
  BY InSomeQueue DEF InChannel, IdsOf
<1>2. \A r \in Requests : status[r] = "queued" => status'[r] = "queued"
  BY DEF AckAll
<1>3. QueuedOnce'
  BY <1>2 DEF Fifo, QueuedOnce
<1>4. \A r \in Requests : status'[r] = "absorbed" => FALSE
  BY DEF AckAll
<1>5. \A r \in Requests : status'[r] = "acked" => status[r] \in {"acked", "absorbed"}
  BY DEF AckAll
<1>6. AckCoversEarlier'
  <2>1. CASE InQueues = {}
    BY <2>1, <1>1, <1>5 DEF Fifo, AckCoversEarlier
  <2>2. CASE \A r \in Requests : status[r] # "absorbed"
    BY <2>2, <1>1, <1>5 DEF Fifo, AckCoversEarlier
  <2> QED BY <2>1, <2>2
<1> QED BY <1>1, <1>3, <1>4, <1>6 DEF Fifo

LEMMA AbsorbFifo ==
    ASSUME Shapes, AcksHeld, Fifo, channel # <<>>, Absorb(Head(channel)), channel' = Tail(channel),
           UNCHANGED <<items, before>>
    PROVE  Fifo'
<1> DEFINE h == Head(channel)
<1>1. (InChannel \cup InQueues)' = InChannel \cup InQueues /\ InChannel' \subseteq InChannel
  BY AbsorbIds
<1>2. /\ Len(channel) \in Nat \ {0} /\ Len(channel') = Len(channel) - 1 /\ h = channel[1]
      /\ \A n \in 1..Len(channel') : channel'[n] = channel[n + 1] /\ n + 1 \in 2..Len(channel)
  BY HeadTailProperties DEF Shapes
<1>3. \A r \in Requests : r # h => status'[r] = status[r]
  BY DEF Absorb, AcksHeld
<1>4. h \in Requests => /\ status' = [status EXCEPT ![h] = "absorbed"]
                        /\ \A m \in 2..Len(channel) : channel[m] # h /\
                              (channel[m] \notin Requests => channel[m].id \notin before[h])
  BY <1>2 DEF Absorb, Fifo, QueuedOnce
<1>5. QueuedOnce'
  <2> SUFFICES ASSUME NEW n \in 1..Len(channel'), channel'[n] \in Requests
               PROVE  /\ status'[channel'[n]] = "queued"
                      /\ \A m \in (n + 1)..Len(channel') :
                           /\ channel'[m] # channel'[n]
                           /\ channel'[m] \notin Requests => channel'[m].id \notin before[channel'[n]]
    BY DEF QueuedOnce
  <2>1. channel'[n] = channel[n + 1] /\ n + 1 \in 1..Len(channel) /\ channel[n + 1] # h
    BY <1>2, <1>4
  <2>2. status[channel[n + 1]] = "queued"
    BY <2>1 DEF Fifo, QueuedOnce
  <2>3. \A m \in (n + 1)..Len(channel') : m + 1 \in (n + 1 + 1)..Len(channel) /\ channel'[m] = channel[m + 1]
    BY <1>2
  <2>4. \A m \in (n + 1 + 1)..Len(channel) :
           /\ channel[m] # channel[n + 1]
           /\ channel[m] \notin Requests => channel[m].id \notin before[channel[n + 1]]
    BY <2>1 DEF Fifo, QueuedOnce
  <2> QED BY <2>1, <2>2, <2>3, <2>4, <1>3
<1>6. ASSUME NEW r \in Requests, status'[r] = "absorbed" PROVE before[r] \cap InChannel' = {}
  <2>1. CASE r = h
    <3>1. \A m \in ToSet(channel') : m \notin Requests => m.id \notin before[h]
      BY <1>2, <1>4, <2>1 DEF ToSet
    <3> QED BY <3>1, <2>1 DEF InChannel, IdsOf
  <2>2. CASE r # h
    BY <1>1, <1>3, <1>6, <2>2 DEF Fifo
  <2> QED BY <2>1, <2>2
<1>7. ASSUME NEW r \in Requests, status'[r] = "acked" PROVE before[r] \cap (InChannel \cup InQueues)' = {}
  <2>1. r # h
    BY <1>4, <1>7 DEF AcksHeld
  <2> QED BY <2>1, <1>1, <1>3, <1>7 DEF Fifo, AckCoversEarlier
<1> QED BY <1>1, <1>5, <1>6, <1>7 DEF Fifo, AckCoversEarlier

LEMMA FifoStep == Shapes /\ AcksHeld /\ QueueInv /\ Fifo /\ [Next]_vars => Fifo'
<1> SUFFICES ASSUME Shapes, AcksHeld, QueueInv, Fifo, [Next]_vars PROVE Fifo'
  OBVIOUS
<1>1. CASE UNCHANGED vars
  BY <1>1, SameInMemory DEF vars
<1>2. ASSUME NEW k \in TrackKinds, Track(k) PROVE Fifo'
  <2> DEFINE m == [kind |-> k, id |-> items + 1]
  <2>1. m \in Item /\ m \notin Requests /\ m.id = items + 1 /\ items' = items + 1 /\ items \in Nat
    BY <1>2, NewItem, Constants, RequestAssumption DEF Track, Shapes
  <2>2. InChannel' = InChannel \cup {items + 1} /\ InQueues' = InQueues
    BY <1>2, <2>1, ChannelIds, InSomeQueue DEF Track, workerVars, InChannel, IdsOf
  <2>3. /\ Len(channel) \in Nat /\ Len(channel') = Len(channel) + 1 /\ channel'[Len(channel) + 1] = m
        /\ \A n \in 1..Len(channel) : channel'[n] = channel[n]
    BY <1>2, <2>1, AppendProperties DEF Track, Shapes, Message
  <2>4. \A r \in Requests : items + 1 \notin before[r] /\ before[r] \subseteq 1..(items + 1)
    BY <2>1 DEF Fifo
  <2>5. before' = before /\ status' = status
    BY <1>2 DEF Track
  <2>6. QueuedOnce'
    BY <2>1, <2>3, <2>4, <2>5 DEF Fifo, QueuedOnce
  <2> QED BY <2>1, <2>2, <2>4, <2>5, <2>6 DEF Fifo, AckCoversEarlier
<1>3. ASSUME NEW r \in Requests, Call(r) PROVE Fifo'
  <2>1. InChannel' = InChannel /\ InQueues' = InQueues /\ channel' = channel /\ before' = before /\ items' = items
    BY <1>3, InSomeQueue DEF Call, workerVars, InChannel, IdsOf
  <2>2. \A s \in Requests : status'[s] = IF s = r THEN "sending" ELSE status[s]
    BY <1>3 DEF Call, AcksHeld
  <2>3. status[r] = "new"
    BY <1>3 DEF Call
  <2>4. QueuedOnce'
    BY <2>1, <2>2, <2>3 DEF Fifo, QueuedOnce
  <2> QED BY <2>1, <2>2, <2>4 DEF Fifo, AckCoversEarlier
<1>4. ASSUME NEW r \in Requests, SendControl(r) PROVE Fifo'
  <2>1. InChannel' = InChannel /\ InQueues' = InQueues /\ items' = items /\ status[r] = "sending"
    BY <1>4, ChannelIds, InSomeQueue DEF SendControl, workerVars, InChannel, IdsOf
  <2>2. \A s \in Requests : status'[s] = IF s = r THEN "queued" ELSE status[s]
    BY <1>4 DEF SendControl, AcksHeld
  <2>3. \A s \in Requests : s # r => before'[s] = before[s]
    BY <1>4 DEF SendControl, Fifo
  <2>4. before' \in [Requests -> SUBSET (1..items)]
    <3>1. InChannel \cup InQueues \in SUBSET (1..items)
      BY DEF Fifo
    <3> QED BY <1>4, <3>1 DEF SendControl, Fifo
  <2>5. /\ Len(channel) \in Nat /\ Len(channel') = Len(channel) + 1 /\ channel'[Len(channel) + 1] = r
        /\ \A n \in 1..Len(channel) : channel'[n] = channel[n]
    BY <1>4, AppendProperties DEF SendControl, Shapes, Message
  <2>6. QueuedOnce'
    <3> SUFFICES ASSUME NEW n \in 1..Len(channel'), channel'[n] \in Requests
                 PROVE  /\ status'[channel'[n]] = "queued"
                        /\ \A m \in (n + 1)..Len(channel') :
                             /\ channel'[m] # channel'[n]
                             /\ channel'[m] \notin Requests => channel'[m].id \notin before'[channel'[n]]
      BY DEF QueuedOnce
    <3>1. CASE n = Len(channel')
      BY <3>1, <2>2, <2>5
    <3>2. CASE n # Len(channel')
      <4>1. n \in 1..Len(channel) /\ channel'[n] = channel[n]
        BY <3>2, <2>5
      <4>2. /\ status[channel[n]] = "queued" /\ channel[n] # r
            /\ \A m \in (n + 1)..Len(channel) :
                 /\ channel[m] # channel[n]
                 /\ channel[m] \notin Requests => channel[m].id \notin before[channel[n]]
        BY <4>1, <2>1 DEF Fifo, QueuedOnce
      <4>3. \A m \in (n + 1)..Len(channel') : m = Len(channel) + 1 \/ (m \in (n + 1)..Len(channel) /\ m \in 1..Len(channel))
        BY <4>1, <2>5
      <4> QED BY <4>1, <4>2, <4>3, <2>2, <2>3, <2>5
    <3> QED BY <3>1, <3>2
  <2>7. \A s \in Requests : status'[s] \in {"absorbed", "acked"} =>
           s # r /\ status'[s] = status[s] /\ before'[s] = before[s]
    BY <2>2, <2>3
  <2> QED BY <2>1, <2>4, <2>6, <2>7 DEF Fifo, AckCoversEarlier
<1>5. ASSUME NEW r \in Requests, SendControlFails(r) PROVE Fifo'
  <2>1. InChannel' = InChannel /\ InQueues' = InQueues /\ channel' = channel /\ before' = before /\ items' = items
    BY <1>5, InSomeQueue DEF SendControlFails, workerVars, InChannel, IdsOf
  <2>2. \A s \in Requests : status'[s] = IF s = r THEN "failed" ELSE status[s]
    BY <1>5 DEF SendControlFails, AcksHeld
  <2>3. status[r] = "sending"
    BY <1>5 DEF SendControlFails
  <2>4. QueuedOnce'
    BY <2>1, <2>2, <2>3 DEF Fifo, QueuedOnce
  <2> QED BY <2>1, <2>2, <2>4 DEF Fifo, AckCoversEarlier
<1>6. CASE DropClients
  BY <1>6, SameInMemory DEF DropClients, clientVars, workerVars, Begin
<1>7. CASE NewSender
  BY <1>7, SameInMemory DEF NewSender, clientVars, workerVars, Begin
<1>8. CASE NewTicks
  BY <1>8, SameInMemory DEF NewTicks, clientVars, workerVars, Begin
<1>9. CASE IntervalPanics
  BY <1>9, MemoryGone DEF IntervalPanics, Vanish
<1>10. CASE TryRecv
  BY <1>10, AbsorbFifo DEF TryRecv
<1>11. CASE Dispatch
  BY <1>11, SameInMemory DEF Dispatch, clientVars, workerVars, Begin
<1>12. CASE RecvFails
  BY <1>12, SameInMemory DEF RecvFails, clientVars, workerVars, Begin
<1>13. CASE EnterStage
  BY <1>13, SameInMemory DEF EnterStage, clientVars, workerVars, Begin
<1>14. CASE SkipStage
  BY <1>14, SameInMemory DEF SkipStage, clientVars, workerVars, Begin
<1>15. CASE EndStages
  <2>1. CASE mode = "close"
    BY <1>15, <2>1, SameInMemory DEF EndStages
  <2>2. CASE mode = "full"
    BY <1>15, <2>2, AcksSent DEF EndStages, AcksHeld
  <2>3. CASE mode \notin {"full", "close"}
    <3>1. \A k \in Kinds : queues[k] = <<>>
      BY <1>15, <2>3, ToSetEmpty DEF EndStages, QueueInv, InStages
    <3> QED BY <1>15, <2>3, <3>1, EmptyQueuesIds, AcksSent DEF EndStages
  <2> QED BY <2>1, <2>2, <2>3
<1>16. CASE DrainNext
  BY <1>16, SameInMemory DEF DrainNext, clientVars, workerVars, Begin
<1>17. CASE DrainEnds
  BY <1>17, SameInMemory DEF DrainEnds, clientVars, workerVars, Begin
<1>18. CASE CommitWal
  BY <1>18, SameInMemory DEF CommitWal, clientVars, workerVars, Begin
<1>19. CASE Chunk
  BY <1>19, SameInMemory DEF Chunk, clientVars, workerVars, Begin
<1>20. CASE ChunksEnd
  BY <1>20, SameInMemory DEF ChunksEnd, clientVars, workerVars, Begin
<1>21. CASE SendOk
  <2>1. CASE FromWal
    BY <1>21, <2>1, SameInMemory DEF SendOk, clientVars
  <2>2. CASE ~FromWal
    <3>1. queues' = [queues EXCEPT ![Stage] = Unchunked(@)]
      BY <1>21, <2>2 DEF SendOk, ChunkDone
    <3> QED BY <1>21, <3>1, UnchunkedIds, FewerInQueues DEF SendOk, clientVars
  <2> QED BY <2>1, <2>2
<1>22. CASE PutBack
  BY <1>22, SameInMemory DEF PutBack, clientVars, workerVars, Begin
<1>23. CASE FallBack
  BY <1>23, UnchunkedIds, FewerInQueues DEF FallBack, ChunkDone, clientVars
<1>24. CASE Retry
  BY <1>24, SameInMemory DEF Retry, clientVars, workerVars, Begin
<1>25. CASE GiveUp
  BY <1>25, UnchunkedIds, FewerInQueues DEF GiveUp, ChunkDone, clientVars
<1>26. CASE ShutdownTimeout
  <2>1. CASE UNCHANGED queues
    BY <1>26, <2>1, SameInMemory DEF ShutdownTimeout, clientVars
  <2>2. CASE queues' = [k \in Kinds |-> <<>>]
    <3>1. InQueues' = {}
      BY <2>2, EmptyQueuesIds
    <3> QED BY <1>26, <3>1, FewerInQueues DEF ShutdownTimeout, clientVars
  <2> QED BY <1>26, <2>1, <2>2 DEF ShutdownTimeout
<1>27. ASSUME NEW k \in Kinds, SaveChunk(k) PROVE Fifo'
  BY <1>27, UnchunkedIds, FewerInQueues DEF SaveChunk, ChunkDone, clientVars
<1>28. CASE SaveEnds
  BY <1>28, SameInMemory DEF SaveEnds, clientVars, workerVars, Begin
<1>29. CASE CloseAcks
  <2>1. InQueues = {}
    BY <1>29, EmptyQueuesIds DEF CloseAcks, QueueInv
  <2> QED BY <1>29, <2>1, AcksSent DEF CloseAcks
<1>30. CASE Exit
  BY <1>30, MemoryGone DEF Exit, Vanish
<1>31. CASE Recv
  BY <1>31, AbsorbFifo DEF Recv
<1>32. CASE FlushTick
  BY <1>32, SameInMemory DEF FlushTick, clientVars, workerVars, Begin
<1>33. CASE SampleTick
  BY <1>33, SameInMemory DEF SampleTick, clientVars
<1>34. CASE RuntimeDropped
  BY <1>34, MemoryGone DEF RuntimeDropped, Vanish
<1>35. CASE Restart
  BY <1>35, MemoryGone DEF Restart, Vanish
<1>36. ASSUME NEW r \in Requests, SendControlRefused(r) PROVE Fifo'
  <2>1. InChannel' = InChannel /\ InQueues' = InQueues /\ channel' = channel /\ before' = before /\ items' = items
    BY <1>36, InSomeQueue DEF SendControlRefused, workerVars, InChannel, IdsOf
  <2>2. \A s \in Requests : status'[s] = IF s = r THEN "failed" ELSE status[s]
    BY <1>36 DEF SendControlRefused, AcksHeld
  <2>3. status[r] = "sending"
    BY <1>36 DEF SendControlRefused
  <2>4. QueuedOnce'
    BY <2>1, <2>2, <2>3 DEF Fifo, QueuedOnce
  <2> QED BY <2>1, <2>2, <2>4 DEF Fifo, AckCoversEarlier
<1>37. CASE SamplePoint
  <2> DEFINE m == [kind |-> "metrics", id |-> items + 1]
  <2>1. m \in Item /\ m.id = items + 1 /\ items' = items + 1 /\ items \in Nat /\ "metrics" \in Kinds
    BY <1>37, NewItem, Constants DEF SamplePoint, Shapes
  <2>2. \A k \in Kinds : queues'[k] = IF k = "metrics" THEN Append(queues[k], m) ELSE queues[k]
    BY <1>37, <2>1 DEF SamplePoint, Shapes
  <2>3. \A k \in Kinds : IdsOf(queues[k])' = IdsOf(queues[k]) \cup (IF k = "metrics" THEN {items + 1} ELSE {})
    <3>1. \A k \in Kinds : IdsOf(queues[k])' = IdsOf(queues'[k])
      BY DEF IdsOf
    <3> QED BY <2>1, <2>2, <3>1, QueueIds
  <2>4. InQueues' = InQueues \cup {items + 1}
    BY <2>1, <2>3, InSomeQueue
  <2>5. before' = before /\ status' = status /\ channel' = channel /\ InChannel' = InChannel
    BY <1>37 DEF SamplePoint, InChannel, IdsOf
  <2>6. \A r \in Requests : items + 1 \notin before[r] /\ before[r] \subseteq 1..(items + 1)
    BY <2>1 DEF Fifo
  <2>7. QueuedOnce'
    BY <2>5 DEF Fifo, QueuedOnce
  <2> QED BY <2>1, <2>4, <2>5, <2>6, <2>7 DEF Fifo, AckCoversEarlier
<1>38. CASE SampleEnds
  BY <1>38, SameInMemory DEF SampleEnds, clientVars
<1>39. CASE DrainMisreads
  BY <1>39, SameInMemory DEF DrainMisreads, clientVars
<1>40. CASE DrainFails
  BY <1>40, SameInMemory DEF DrainFails, clientVars
<1>41. CASE DrainResets
  BY <1>41, SameInMemory DEF DrainResets, clientVars
<1> QED
  BY <1>1, <1>2, <1>3, <1>4, <1>5, <1>6, <1>7, <1>8, <1>9, <1>10, <1>11, <1>12, <1>13, <1>14,
       <1>15, <1>16, <1>17, <1>18, <1>19, <1>20, <1>21, <1>22, <1>23, <1>24, <1>25, <1>26, <1>27,
       <1>28, <1>29, <1>30, <1>31, <1>32, <1>33, <1>34, <1>35,
       <1>36, <1>37, <1>38, <1>39, <1>40, <1>41
     DEF Next, ClientStep, WorkerStep, SampleStep, FlushStep, SendStep, EndStep
-----------------------------------------------------------------------------
(* Theorems *)

MemoryInv == Shapes /\ AcksHeld /\ QueueInv /\ Fifo

LEMMA InitMemory == Init => MemoryInv
<1> SUFFICES ASSUME Init PROVE MemoryInv
  OBVIOUS
<1>1. InChannel = {} /\ InQueues = {} /\ items = 0 /\ 1..0 = {}
  BY EmptyQueuesIds, NothingIds DEF Init, InChannel
<1>2. Shapes
  BY <1>1, Constants, EmptySeq DEF Init, Shapes
<1>3. AcksHeld
  BY DEF Init, AcksHeld, Statuses
<1>4. QueueInv
  BY Constants, EmptySeq DEF Init, QueueInv, InStages
<1>5. Fifo
  <2>1. QueuedOnce
    BY EmptySeq DEF Init, QueuedOnce
  <2>2. \A r \in Requests : before[r] = {} /\ status[r] = "new"
    BY DEF Init
  <2> QED BY <1>1, <2>1, <2>2 DEF Init, Fifo, AckCoversEarlier
<1> QED BY <1>2, <1>3, <1>4, <1>5 DEF MemoryInv

LEMMA NextMemory == MemoryInv /\ [Next]_vars => MemoryInv'
BY ShapesStep, AcksStep, QueueStep, FifoStep DEF MemoryInv

LEMMA MemoryInvariance == Spec => []MemoryInv
BY InitMemory, NextMemory, PTL DEF Spec

\* However many clients call flush and close and whenever they do, worker_loop
\* never returns to select! with an ack it has absorbed and not sent.
THEOREM AcksAreSent == Spec => []NoAckForgotten
<1>1. MemoryInv => NoAckForgotten
  BY DEF MemoryInv, AcksHeld, NoAckForgotten
<1> QED BY <1>1, MemoryInvariance, PTL

\* For every batch size and capacity the queues hold less than a batch at
\* select!, and in between at most a batch and a channel, or, of the metrics,
\* less than a batch and the points of a sampling pass.
THEOREM QueuesStayBounded == Spec => []QueuesBounded
<1>1. MemoryInv => QueuesBounded
  BY DEF MemoryInv, QueueInv, QueuesBounded
<1> QED BY <1>1, MemoryInvariance, PTL

\* An ack that flush or close returns means that everything accepted before the
\* request has left the worker's memory: the channel is first in, first out,
\* and no stage is passed over while its queue has entries.
THEOREM AcksCoverEarlier == Spec => []AckCoversEarlier
<1>1. MemoryInv => AckCoversEarlier
  BY DEF MemoryInv, Fifo
<1> QED BY <1>1, MemoryInvariance, PTL

\* A worker that ends in an orderly way has emptied its queues: what it loses
\* was still in the channel.
THEOREM OrderlyExit == Spec => ExitLosesOnlyTheChannel
<1> DEFINE Orderly == pc = "exit" /\ pc' = "done" /\ crashes' = crashes
                        => perished' \ perished \subseteq InChannel
<1>1. MemoryInv /\ [Next]_vars => [Orderly]_vars
  <2> SUFFICES ASSUME QueueInv, [Next]_vars, pc = "exit", pc' = "done" PROVE Orderly
    BY DEF MemoryInv
  <2>1. InQueues = {}
    BY EmptyQueuesIds DEF QueueInv
  <2>2. CASE Exit
    BY <2>1, <2>2 DEF Exit, Vanish
  <2>3. CASE UNCHANGED perished
    BY <2>3
  <2>4. CASE Restart
    BY <2>4 DEF Restart
  <2>5. Exit \/ UNCHANGED perished \/ Restart
    BY DEF Next, ClientStep, WorkerStep, SampleStep, FlushStep, SendStep, EndStep, ghosts, workerVars, vars,
       Call, Chunk, ChunksEnd, CloseAcks, CommitWal, Dispatch, DrainEnds, DrainFails, DrainMisreads, DrainNext, DrainResets, DropClients, EndStages, EnterStage, FallBack, FlushTick, GiveUp, IntervalPanics, NewSender, NewTicks, PutBack, Recv, RecvFails, Retry, RuntimeDropped, SampleEnds, SamplePoint, SampleTick, SaveChunk, SaveEnds, SendControl, SendControlFails, SendControlRefused, SendOk, ShutdownTimeout, SkipStage, Track, TryRecv
  <2> QED BY <2>2, <2>3, <2>4, <2>5
<1>2. [][Orderly]_vars => ExitLosesOnlyTheChannel
  BY PTL DEF ExitLosesOnlyTheChannel
<1> QED BY <1>1, <1>2, MemoryInvariance, PTL DEF Spec
(* What becomes of the entries *)

(* What entries become *)

\* The frame that was taken from the disk buffer to be sent.
Aloft == IF pc = "send" /\ FromWal THEN IdsOf(frame) ELSE {}

\* Where entries are, or what became of them.
Kept == InChannel \cup InQueues \cup IdsOfAll(log) \cup Aloft \cup Received
        \cup reported \cup silent \cup abandoned \cup perished

WalShapes == log \in Seq(Batches) /\ uncommitted \in Seq(Batches)

\* Accounted, without the help of frames that were taken and not committed: at
\* the commit nothing else holds what they held.
Balanced ==
    /\ WalShapes /\ frame \in Batches /\ received \in [Ids -> Nat]
    /\ 1..items \subseteq Kept
    /\ Aloft \subseteq IdsOfAll(uncommitted) /\ IdsOfAll(uncommitted) \subseteq Kept
    /\ pc = "send" /\ Stage # "wal" => Stage \in Kinds /\ frame = ChunkOf(queues[Stage])

LEMMA BalancedIsAccounted == Balanced => Accounted
BY DEF Balanced, Accounted, Kept, InWal

LEMMA Unmoved ==
    /\ UNCHANGED channel => InChannel' = InChannel
    /\ UNCHANGED queues => InQueues' = InQueues
    /\ UNCHANGED log => IdsOfAll(log)' = IdsOfAll(log)
    /\ UNCHANGED uncommitted => IdsOfAll(uncommitted)' = IdsOfAll(uncommitted)
    /\ UNCHANGED received => Received' = Received
    /\ UNCHANGED <<pc, stages, frame>> => Aloft' = Aloft
    /\ pc' # "send" => Aloft' = {}
<1>1. UNCHANGED channel => InChannel' = InChannel
  BY DEF InChannel, IdsOf
<1>2. UNCHANGED queues => InQueues' = InQueues
  BY DEF InQueues, IdsOf
<1>3. /\ UNCHANGED log => IdsOfAll(log)' = IdsOfAll(log)
      /\ UNCHANGED uncommitted => IdsOfAll(uncommitted)' = IdsOfAll(uncommitted)
  BY DEF IdsOfAll, IdsOf
<1>4. UNCHANGED received => Received' = Received
  BY DEF Received
<1>5. /\ UNCHANGED <<pc, stages, frame>> => Aloft' = Aloft
      /\ pc' # "send" => Aloft' = {}
  BY DEF Aloft, FromWal, Stage, IdsOf
<1> QED BY <1>1, <1>2, <1>3, <1>4, <1>5

LEMMA NoFrames == IdsOfAll(<<>>) = {}
BY ToSetEmpty DEF IdsOfAll

LEMMA IdsOfAllPrimed ==
    IdsOfAll(log)' = IdsOfAll(log') /\ IdsOfAll(uncommitted)' = IdsOfAll(uncommitted')
BY DEF IdsOfAll, IdsOf

LEMMA AllIdsOf ==
    ASSUME NEW s \in Seq(Batches), NEW i
    PROVE  i \in IdsOfAll(s) <=> \E n \in 1..Len(s) : i \in IdsOf(s[n])
BY ToSetOf DEF IdsOfAll

\* What is left of the frames of a damaged file are some of them.
LEMMA PartKeeps ==
    ASSUME NEW frames \in Seq(Batches), NEW part \in SubSeqs(frames)
    PROVE  part \in Seq(Batches) /\ IdsOfAll(part) \subseteq IdsOfAll(frames)
<1>1. PICK m \in 0..Len(frames), n \in 0..Len(frames) : part = SubSeq(frames, m + 1, n)
  BY DEF SubSeqs
<1>2. Len(frames) \in Nat /\ \A p \in (m + 1)..n : p \in 1..Len(frames) /\ frames[p] \in Batches
  BY <1>1
<1>3. /\ part \in Seq(Batches)
      /\ Len(part) = IF m + 1 <= n THEN n - m ELSE 0
      /\ \A p \in 1..Len(part) : part[p] = frames[m + p]
  BY <1>1, <1>2, SubSeqProperties
<1>4. ASSUME NEW p \in 1..Len(part) PROVE m + p \in 1..Len(frames) /\ part[p] = frames[m + p]
  BY <1>1, <1>2, <1>3
<1> QED BY <1>3, <1>4, AllIdsOf

LEMMA LeftKeeps ==
    ASSUME NEW frames \in Seq(Batches), NEW part \in LeftOf(frames)
    PROVE  part \in Seq(Batches) /\ IdsOfAll(part) \subseteq IdsOfAll(frames)
BY PartKeeps DEF LeftOf

LEMMA NoticeLost ==
    ASSUME NEW frames, Unnoticed(frames)
    PROVE  silent \subseteq silent' /\ IdsOfAll(frames) \subseteq IdsOfAll(log)' \cup silent'
BY IdsOfAllPrimed DEF Unnoticed

LEMMA AppendedIds ==
    ASSUME NEW frames \in Seq(Batches), NEW f \in Batches
    PROVE  /\ Append(frames, f) \in Seq(Batches) /\ Behind(frames, f) \in Seq(Batches)
           /\ IdsOfAll(Append(frames, f)) = IdsOfAll(frames) \cup IdsOf(f)
           /\ IdsOfAll(Behind(frames, f)) = IdsOfAll(frames) \cup IdsOf(f)
<1>1. Append(frames, f) \in Seq(Batches) /\ ToSet(Append(frames, f)) = ToSet(frames) \cup {f}
  BY AppendProperties, ToSetAppend
<1>2. IdsOfAll(Append(frames, f)) = IdsOfAll(frames) \cup IdsOf(f)
  BY <1>1 DEF IdsOfAll
<1>3. f = <<>> => IdsOf(f) = {}
  BY NothingIds
<1> QED BY <1>1, <1>2, <1>3 DEF Behind

LEMMA DropKeeps ==
    ASSUME WalShapes, DropDiskBuffer
    PROVE  /\ WalShapes' /\ IdsOfAll(log)' = IdsOfAll(log)
           /\ IdsOfAll(uncommitted)' \subseteq IdsOfAll(uncommitted)
<1>1. log' = log /\ (uncommitted' = uncommitted \/ uncommitted' = <<>>)
  BY DEF DropDiskBuffer
<1> QED BY <1>1, Unmoved, NoFrames, IdsOfAllPrimed, EmptySeq DEF WalShapes

LEMMA TakeKeeps ==
    ASSUME WalShapes, Wal!Take
    PROVE  /\ WalShapes' /\ Head(log) \in Batches
           /\ IdsOfAll(log) = IdsOf(Head(log)) \cup IdsOfAll(log)'
           /\ IdsOfAll(uncommitted)' = IdsOfAll(uncommitted) \cup IdsOf(Head(log))
<1>1. log # <<>> /\ log' = Tail(log) /\ uncommitted' = Append(uncommitted, Head(log))
  BY DEF Wal!Take
<1>2. Head(log) \in Batches /\ Tail(log) \in Seq(Batches) /\ ToSet(log) = {Head(log)} \cup ToSet(Tail(log))
  BY <1>1, HeadTailProperties, ToSetHeadTail DEF WalShapes
<1>3. uncommitted' \in Seq(Batches) /\ ToSet(uncommitted') = ToSet(uncommitted) \cup {Head(log)}
  BY <1>1, <1>2, AppendProperties, ToSetAppend DEF WalShapes
<1>4. IdsOfAll(log) = IdsOf(Head(log)) \cup IdsOfAll(Tail(log))
  BY <1>2 DEF IdsOfAll
<1>5. IdsOfAll(uncommitted') = IdsOfAll(uncommitted) \cup IdsOf(Head(log))
  BY <1>3 DEF IdsOfAll
<1> QED BY <1>1, <1>2, <1>3, <1>4, <1>5, IdsOfAllPrimed DEF WalShapes

\* What k evicted frames take out of the log.
LEMMA RestKeeps ==
    ASSUME WalShapes, NEW k \in 0..Len(log)
    PROVE  /\ Wal!Rest(log, k) \in Seq(Batches) /\ SubSeq(log, 1, k) \in Seq(Batches)
           /\ IdsOfAll(log) = Oldest(k) \cup IdsOfAll(Wal!Rest(log, k))
<1>1. /\ Wal!Rest(log, k) \in Seq(Batches) /\ SubSeq(log, 1, k) \in Seq(Batches)
      /\ ToSet(log) = ToSet(SubSeq(log, 1, k)) \cup ToSet(Wal!Rest(log, k))
  BY ToSetSplit DEF WalShapes, Wal!Rest
<1>2. IdsOfAll(log) = IdsOfAll(SubSeq(log, 1, k)) \cup IdsOfAll(Wal!Rest(log, k))
  BY <1>1 DEF IdsOfAll
<1> QED BY <1>1, <1>2 DEF Oldest

\* The k oldest frames, behind those already taken.
LEMMA TakenKeeps ==
    ASSUME WalShapes, NEW k \in 0..Len(log)
    PROVE  /\ uncommitted \o SubSeq(log, 1, k) \in Seq(Batches)
           /\ IdsOfAll(uncommitted \o SubSeq(log, 1, k)) = IdsOfAll(uncommitted) \cup Oldest(k)
<1>1. uncommitted \o SubSeq(log, 1, k) \in Seq(Batches)
      /\ ToSet(uncommitted \o SubSeq(log, 1, k)) = ToSet(uncommitted) \cup ToSet(SubSeq(log, 1, k))
  BY RestKeeps, ConcatProperties, ToSetConcat, ZenonT(40), SMTT(30) DEF WalShapes
<1>2. IdsOfAll(uncommitted \o SubSeq(log, 1, k)) = IdsOfAll(uncommitted) \cup IdsOfAll(SubSeq(log, 1, k))
  BY <1>1 DEF IdsOfAll
<1> QED BY <1>1, <1>2 DEF Oldest

LEMMA MisreadKeeps ==
    ASSUME WalShapes, NEW k \in 0..Len(log), NEW f, f # <<>> => k > 0 /\ f = log[k]
    PROVE  f \in Batches /\ IdsOf(f) \subseteq Oldest(k)
<1>1. CASE f = <<>>
  BY <1>1, NothingIds, Constants, EmptySeq DEF Batches
<1>2. CASE f # <<>>
  <2>1. SubSeq(log, 1, k) \in Seq(Batches) /\ k \in 1..Len(log) /\ f = log[k] /\ Len(log) \in Nat
    BY <1>2, RestKeeps DEF WalShapes
  <2>2. Len(SubSeq(log, 1, k)) = k /\ SubSeq(log, 1, k)[k] = f /\ f \in Batches
    BY <2>1, SubSeqProperties DEF WalShapes
  <2> DEFINE part == SubSeq(log, 1, k)
  <2>3. ASSUME NEW i \in IdsOf(f) PROVE i \in IdsOfAll(part)
    <3>1. k \in 1..Len(part) /\ i \in IdsOf(part[k])
      BY <2>1, <2>2, <2>3
    <3>2. part \in Seq(Batches)
      BY <2>1
    <3> HIDE DEF part
    <3> QED BY <3>1, <3>2, AllIdsOf
  <2> QED BY <2>2, <2>3 DEF Oldest
<1> QED BY <1>1, <1>2

LEMMA AstrayKeeps ==
    ASSUME WalShapes, UNCHANGED <<log, damage>> \/ LosePlace
    PROVE  log' \in Seq(Batches) /\ IdsOfAll(log)' = IdsOfAll(log)
<1>1. CASE log' = log
  BY <1>1, Unmoved DEF WalShapes
<1>2. CASE LosePlace
  <2>1. PICK n \in 1..Len(log) : log' = SubSeq(log, n, Len(log)) \o log
    BY <1>2 DEF LosePlace
  <2>2. n - 1 \in 0..Len(log) /\ SubSeq(log, n, Len(log)) = Wal!Rest(log, n - 1)
    BY <2>1 DEF Wal!Rest, WalShapes
  <2>3. SubSeq(log, n, Len(log)) \in Seq(Batches) /\ IdsOfAll(SubSeq(log, n, Len(log))) \subseteq IdsOfAll(log)
    BY <2>2, RestKeeps
  <2>4. /\ log' \in Seq(Batches)
        /\ ToSet(log') = ToSet(SubSeq(log, n, Len(log))) \cup ToSet(log)
    <3>1. PICK again : again = SubSeq(log, n, Len(log))
      OBVIOUS
    <3>2. again \in Seq(Batches) /\ log \in Seq(Batches)
      BY <3>1, <2>3 DEF WalShapes
    <3>3. again \o log \in Seq(Batches)
      BY <3>2, ConcatProperties
    <3>4. ToSet(again \o log) = ToSet(again) \cup ToSet(log)
      BY <3>2, ToSetConcat
    <3> QED BY <2>1, <3>1, <3>3, <3>4
  <2>5. IdsOfAll(log') = IdsOfAll(SubSeq(log, n, Len(log))) \cup IdsOfAll(log)
    BY <2>4 DEF IdsOfAll
  <2> QED BY <2>3, <2>4, <2>5, IdsOfAllPrimed
<1> QED BY <1>1, <1>2

\* An append leaves every frame in the log, but for those in front of it and
\* those that are lost unnoticed.
LEMMA StoreKeeps ==
    ASSUME WalShapes, NEW f \in Batches, NEW k \in 0..Len(log), StoreInPlaceOf(k, f)
    PROVE  /\ WalShapes'
           /\ IdsOf(f) \subseteq IdsOfAll(log)'
           /\ IdsOfAll(log)' \subseteq IdsOfAll(log) \cup IdsOf(f)
           /\ IdsOfAll(uncommitted)' \subseteq IdsOfAll(uncommitted)
<1>1. /\ uncommitted' = <<>> \/ uncommitted' = uncommitted
      /\ \/ log' = Append(Wal!Rest(log, k), f)
         \/ \E frames \in LeftOf(Wal!Rest(log, k)) : log' = Behind(frames, f)
  BY DEF StoreInPlaceOf, Wal!StoreInPlaceOf
<1>2. uncommitted' \in Seq(Batches) /\ IdsOfAll(uncommitted') \subseteq IdsOfAll(uncommitted)
  BY <1>1, NoFrames, EmptySeq DEF WalShapes
<1>3. /\ log' \in Seq(Batches) /\ IdsOf(f) \subseteq IdsOfAll(log')
      /\ IdsOfAll(log') \subseteq IdsOfAll(Wal!Rest(log, k)) \cup IdsOf(f)
  <2>1. CASE log' = Append(Wal!Rest(log, k), f)
    BY <2>1, RestKeeps, AppendedIds
  <2>2. ASSUME NEW frames \in LeftOf(Wal!Rest(log, k)), log' = Behind(frames, f)
        PROVE  /\ log' \in Seq(Batches) /\ IdsOf(f) \subseteq IdsOfAll(log')
               /\ IdsOfAll(log') \subseteq IdsOfAll(Wal!Rest(log, k)) \cup IdsOf(f)
    <3>1. frames \in Seq(Batches) /\ IdsOfAll(frames) \subseteq IdsOfAll(Wal!Rest(log, k))
      BY RestKeeps, LeftKeeps
    <3> QED BY <2>2, <3>1, AppendedIds
  <2> QED BY <1>1, <2>1, <2>2
<1> QED BY <1>2, <1>3, RestKeeps, IdsOfAllPrimed DEF WalShapes

LEMMA EvictKeeps ==
    ASSUME WalShapes, NEW f \in Batches, NEW k \in 0..Len(log), EvictFor(k, f) \/ TearFor(k, f)
    PROVE  /\ WalShapes'
           /\ IdsOfAll(log)' \subseteq IdsOfAll(log) \cup IdsOf(f)
           /\ IdsOfAll(uncommitted)' \subseteq IdsOfAll(uncommitted) \cup IdsOfAll(log)
<1>1. /\ uncommitted' \in {uncommitted, <<>>, uncommitted \o SubSeq(log, 1, k)}
      /\ \/ log' = Wal!Rest(log, k)
         \/ \E frames \in LeftOf(Wal!Rest(log, k)) : log' \in {frames, Behind(frames, f)}
  BY DEF EvictFor, TearFor, Wal!GiveUp
<1>2. uncommitted' \in Seq(Batches) /\ IdsOfAll(uncommitted') \subseteq IdsOfAll(uncommitted) \cup Oldest(k)
  BY <1>1, TakenKeeps, NoFrames, EmptySeq DEF WalShapes
<1>3. log' \in Seq(Batches) /\ IdsOfAll(log') \subseteq IdsOfAll(Wal!Rest(log, k)) \cup IdsOf(f)
  <2>1. CASE log' = Wal!Rest(log, k)
    BY <2>1, RestKeeps
  <2>2. ASSUME NEW frames \in LeftOf(Wal!Rest(log, k)), log' \in {frames, Behind(frames, f)}
        PROVE  log' \in Seq(Batches) /\ IdsOfAll(log') \subseteq IdsOfAll(Wal!Rest(log, k)) \cup IdsOf(f)
    <3>1. frames \in Seq(Batches) /\ IdsOfAll(frames) \subseteq IdsOfAll(Wal!Rest(log, k))
      BY RestKeeps, LeftKeeps
    <3> QED BY <2>2, <3>1, AppendedIds
  <2> QED BY <1>1, <2>1, <2>2
<1> QED BY <1>2, <1>3, RestKeeps, IdsOfAllPrimed DEF WalShapes

\* An append leaves every frame in the log or says what became of it.
AppendKeeps(f) ==
    /\ WalShapes'
    /\ reported \subseteq reported' /\ silent \subseteq silent'
    /\ IdsOfAll(log) \subseteq IdsOfAll(log)' \cup reported' \cup silent'
    /\ IdsOf(f) \subseteq IdsOfAll(log)' \cup reported'
    /\ IdsOfAll(uncommitted)' \subseteq IdsOfAll(uncommitted) \cup IdsOfAll(log)

LEMMA FailedAppendKeeps ==
    ASSUME WalShapes, NEW f \in Batches, AppendFails(f)
    PROVE  AppendKeeps(f)
<1>1. CASE UNCHANGED <<walVars, silent>>
  BY <1>1, Unmoved DEF AppendFails, AppendKeeps, WalShapes, walVars
<1>2. ASSUME NEW k \in 0..Len(log), EvictFor(k, f) \/ TearFor(k, f), Unnoticed(log)
      PROVE  AppendKeeps(f)
  <2>1. reported' = reported \cup IdsOf(f)
    BY DEF AppendFails
  <2> QED BY <1>2, <2>1, EvictKeeps, NoticeLost DEF AppendKeeps
<1> QED BY <1>1, <1>2 DEF AppendFails

LEMMA AppendToWalKeeps ==
    ASSUME WalShapes, NEW f \in Batches, AppendToWal(f)
    PROVE  AppendKeeps(f)
<1>1. ASSUME NEW k \in 0..Len(log), StoreInPlaceOf(k, f), reported' = reported \cup Oldest(k),
             Unnoticed(Wal!Rest(log, k))
      PROVE  AppendKeeps(f)
  BY <1>1, StoreKeeps, RestKeeps, NoticeLost DEF AppendKeeps
<1> QED BY <1>1, FailedAppendKeeps DEF AppendToWal

LEMMA PutBackKeeps ==
    ASSUME WalShapes, frame \in Batches, PutBack
    PROVE  AppendKeeps(frame)
<1>1. ASSUME NEW k \in 0..Len(log), StoreInPlaceOf(k, frame), Unnoticed(log), reported' = reported
      PROVE  AppendKeeps(frame)
  BY <1>1, StoreKeeps, NoticeLost DEF AppendKeeps
<1> QED BY <1>1, FailedAppendKeeps DEF PutBack

LEMMA ChunkLeaves ==
    ASSUME Shapes, NEW k \in Kinds, queues' = [queues EXCEPT ![k] = Unchunked(@)]
    PROVE  InQueues \subseteq InQueues' \cup IdsOf(ChunkOf(queues[k]))
<1>1. \A j \in Kinds : queues'[j] = IF j = k THEN Unchunked(queues[k]) ELSE queues[j]
  BY DEF Shapes
<1>2. \A j \in Kinds : IdsOf(queues[j])' = IdsOf(queues'[j])
  BY DEF IdsOf
<1>3. \A j \in Kinds : IdsOf(queues[j]) \subseteq IdsOf(queues[j])' \cup IdsOf(ChunkOf(queues[k]))
  BY <1>1, <1>2, QueueIds
<1> QED BY <1>3, InSomeQueue

\* Steps that move entries within memory, or bring new ones, while no frame is
\* taken up or let go.
LEMMA MemoryMoves ==
    ASSUME Balanced,
           UNCHANGED <<log, uncommitted, received, reported, silent, abandoned, perished, frame>>,
           UNCHANGED <<pc, stages, queues>> \/ (pc # "send" /\ pc' # "send"),
           1..items' \subseteq 1..items \cup (InChannel \cup InQueues)',
           InChannel \cup InQueues \subseteq (InChannel \cup InQueues)'
    PROVE  Balanced'
<1>1. /\ IdsOfAll(log)' = IdsOfAll(log) /\ IdsOfAll(uncommitted)' = IdsOfAll(uncommitted)
      /\ Received' = Received
  BY Unmoved
<1>2. Aloft' = Aloft
  BY Unmoved DEF Aloft
<1>3. Kept \subseteq Kept' /\ 1..items' \subseteq Kept'
  BY <1>1, <1>2 DEF Balanced, Kept
<1>4. (pc = "send" /\ Stage # "wal" => Stage \in Kinds /\ frame = ChunkOf(queues[Stage]))'
  BY DEF Balanced, Stage, ChunkOf, ChunkLen
<1> QED BY <1>1, <1>2, <1>3, <1>4 DEF Balanced, WalShapes

\* Steps after which no frame is being sent and no new entry is there.
LEMMA NothingAloft ==
    ASSUME Balanced, items' = items, WalShapes', frame' = <<>> \/ frame' = frame,
           received' \in [Ids -> Nat], pc' # "send", Kept \subseteq Kept',
           IdsOfAll(uncommitted)' \subseteq Kept \cup Kept'
    PROVE  Balanced'
<1>1. <<>> \in Batches
  BY Constants, EmptySeq DEF Batches
<1>2. Aloft' = {}
  BY Unmoved
<1> QED BY <1>1, <1>2 DEF Balanced

LEMMA AbandonedIds ==
    ASSUME Abandon
    PROVE  abandoned' = abandoned \cup Aloft
BY DEF Abandon, Aloft

\* The end of a worker, by whatever way.
LEMMA VanishKeeps ==
    ASSUME Balanced, Vanish, UNCHANGED <<items, received, reported>>, pc' # "send",
           WalShapes', silent \subseteq silent', IdsOfAll(log) \subseteq IdsOfAll(log)' \cup silent',
           IdsOfAll(uncommitted)' \subseteq Kept \cup IdsOfAll(log)',
           abandoned \subseteq abandoned', Aloft \subseteq abandoned' \cup IdsOfAll(log)' \cup silent'
    PROVE  Balanced'
<1>1. perished' = perished \cup InChannel \cup InQueues /\ frame' = <<>>
  BY DEF Vanish, Sent
<1>2. Received' = Received
  BY Unmoved
<1>3. Kept \subseteq Kept' /\ IdsOfAll(log)' \subseteq Kept'
  BY <1>1, <1>2 DEF Kept
<1> QED BY <1>1, <1>3, NothingAloft DEF Balanced

\* Some of the frames the old process left are found by the new one.
LEMMA RestartKeeps ==
    ASSUME WalShapes, Restart
    PROVE  /\ WalShapes' /\ uncommitted' = <<>> /\ IdsOfAll(uncommitted)' = {}
           /\ silent \subseteq silent'
           /\ IdsOfAll(uncommitted) \cup IdsOfAll(log) \subseteq IdsOfAll(log)' \cup silent'
           /\ IdsOfAll(log)' \subseteq IdsOfAll(uncommitted) \cup IdsOfAll(log)
<1> DEFINE all == uncommitted \o log
<1>1. all \in Seq(Batches) /\ ToSet(all) = ToSet(uncommitted) \cup ToSet(log)
  BY ConcatProperties, ToSetConcat DEF WalShapes
<1>2. IdsOfAll(all) = IdsOfAll(uncommitted) \cup IdsOfAll(log)
  BY <1>1 DEF IdsOfAll
<1>3. (log' = all \/ log' \in SubSeqs(all)) /\ uncommitted' = <<>> /\ Unnoticed(all)
  BY DEF Restart
<1>4. log' \in Seq(Batches) /\ IdsOfAll(log') \subseteq IdsOfAll(all)
  <2>1. CASE log' = all
    BY <2>1, <1>1
  <2>2. CASE log' \in SubSeqs(all)
    BY <2>2, <1>1, PartKeeps
  <2> QED BY <1>3, <2>1, <2>2
<1>5. silent \subseteq silent' /\ IdsOfAll(all) \subseteq IdsOfAll(log)' \cup silent'
  BY <1>3, NoticeLost
<1> QED BY <1>2, <1>3, <1>4, <1>5, NoFrames, IdsOfAllPrimed, EmptySeq DEF WalShapes

-----------------------------------------------------------------------------
LEMMA BalancedStep == Shapes /\ QueueInv /\ Balanced /\ [Next]_vars => Balanced'
<1> SUFFICES ASSUME Shapes, QueueInv, Balanced, [Next]_vars PROVE Balanced'
  OBVIOUS
<1> USE Unmoved
<1>1. CASE UNCHANGED vars
  BY <1>1, MemoryMoves DEF vars
<1>2. ASSUME NEW k \in TrackKinds, Track(k) PROVE Balanced'
  <2> DEFINE m == [kind |-> k, id |-> items + 1]
  <2>1. m \in Item /\ items' = items + 1 /\ channel' = Append(channel, m) /\ items \in Nat
    BY <1>2, NewItem, Constants DEF Track, Shapes
  <2>2. InChannel' = InChannel \cup {items + 1}
    BY <2>1, ChannelIds DEF InChannel, IdsOf
  <2>3. 1..items' \subseteq 1..items \cup {items + 1}
    BY <2>1
  <2> QED BY <1>2, <2>2, <2>3, MemoryMoves DEF Track, workerVars, walVars, ghosts
<1>3. ASSUME NEW r \in Requests, Call(r) PROVE Balanced'
  BY <1>3, MemoryMoves DEF Call, clientVars, workerVars, walVars, ghosts, Begin
<1>4. ASSUME NEW r \in Requests, SendControl(r) PROVE Balanced'
  <2>1. InChannel' = InChannel
    BY <1>4, ChannelIds DEF SendControl, InChannel, IdsOf
  <2> QED BY <1>4, <2>1, MemoryMoves DEF SendControl, workerVars, walVars, ghosts
<1>5. ASSUME NEW r \in Requests, SendControlFails(r) PROVE Balanced'
  BY <1>5, MemoryMoves DEF SendControlFails, clientVars, workerVars, walVars, ghosts, Begin
<1>6. CASE DropClients
  BY <1>6, MemoryMoves DEF DropClients, clientVars, workerVars, walVars, ghosts, Begin
<1>7. CASE NewSender
  BY <1>7, MemoryMoves DEF NewSender, clientVars, workerVars, walVars, ghosts, Begin
<1>8. CASE NewTicks
  BY <1>8, MemoryMoves DEF NewTicks, clientVars, workerVars, walVars, ghosts, Begin
<1>9. CASE IntervalPanics
  <2>1. Vanish /\ DropDiskBuffer /\ UNCHANGED <<items, received, reported, silent, abandoned>> /\ pc' # "send"
    BY <1>9 DEF IntervalPanics
  <2>2. Aloft = {}
    BY <1>9 DEF IntervalPanics, Aloft
  <2> QED BY <2>1, <2>2, DropKeeps, VanishKeeps DEF Balanced
<1>10. CASE TryRecv
  BY <1>10, AbsorbIds, MemoryMoves DEF TryRecv, walVars, ghosts
<1>11. CASE Dispatch
  BY <1>11, MemoryMoves DEF Dispatch, clientVars, workerVars, walVars, ghosts, Begin
<1>12. CASE RecvFails
  BY <1>12, MemoryMoves DEF RecvFails, clientVars, workerVars, walVars, ghosts, Begin
<1>13. CASE EnterStage
  BY <1>13, MemoryMoves DEF EnterStage, clientVars, workerVars, walVars, ghosts, Begin
<1>14. CASE SkipStage
  BY <1>14, MemoryMoves DEF SkipStage, clientVars, workerVars, walVars, ghosts, Begin
<1>15. CASE EndStages
  BY <1>15, MemoryMoves DEF EndStages, clientVars, workerVars, walVars, ghosts, Begin
<1>16. CASE DrainNext
  <2>1. Wal!Take /\ frame' = Head(log) /\ pc = "drain" /\ pc' = "send" /\ Stage' = "wal"
    BY <1>16 DEF DrainNext, Sending, QueueInv, Stage
  <2>2. Aloft = {} /\ Aloft' = IdsOf(Head(log))
    BY <2>1 DEF Aloft, FromWal, IdsOf
  <2>3. UNCHANGED <<InChannel, InQueues, Received, reported, silent, abandoned, perished, items>>
    BY <1>16 DEF DrainNext, clientVars, ghosts
  <2>4. Kept \subseteq Kept' /\ IdsOfAll(uncommitted)' \subseteq Kept' /\ Aloft' \subseteq IdsOfAll(uncommitted)'
    BY <2>1, <2>2, <2>3, TakeKeeps DEF Kept, Balanced
  <2> QED BY <1>16, <2>1, <2>3, <2>4, TakeKeeps DEF Balanced, DrainNext, ghosts
<1>17. CASE DrainEnds
  BY <1>17, MemoryMoves DEF DrainEnds, clientVars, workerVars, walVars, ghosts, Begin
<1>18. CASE CommitWal
  <2>1. pc = "commit" /\ pc' = "stage" /\ Aloft = {} /\ Aloft' = {}
    BY <1>18 DEF CommitWal, Aloft
  <2>2. /\ UNCHANGED <<InChannel, InQueues, Received, reported, abandoned, perished, items>>
        /\ UNCHANGED <<frame, received>>
    BY <1>18 DEF CommitWal, clientVars
  <2>3. log' \in LeftOf(log) /\ Unnoticed(log) /\ (uncommitted' = uncommitted \/ uncommitted' = <<>>)
    BY <1>18 DEF CommitWal
  <2>4. WalShapes' /\ IdsOfAll(uncommitted)' \subseteq IdsOfAll(uncommitted)
    <3>1. log' \in Seq(Batches)
      BY <2>3, LeftKeeps DEF Balanced, WalShapes
    <3>2. uncommitted' \in Seq(Batches) /\ IdsOfAll(uncommitted') \subseteq IdsOfAll(uncommitted)
      BY <2>3, NoFrames, EmptySeq DEF Balanced, WalShapes
    <3> QED BY <3>1, <3>2, IdsOfAllPrimed DEF WalShapes
  <2>5. Kept \subseteq Kept'
    BY <2>1, <2>2, <2>3, NoticeLost DEF Kept
  <2> QED BY <2>1, <2>2, <2>4, <2>5, NothingAloft DEF Balanced
<1>19. CASE Chunk
  <2>1. /\ frame' = ChunkOf(queues[Stage]) /\ pc = "chunk" /\ pc' = "send"
        /\ Stage' = Stage /\ Stage \in Kinds /\ "wal" \notin Kinds
    BY <1>19, Constants DEF Chunk, Sending, QueueInv, Stage
  <2>2. Aloft = {} /\ Aloft' = {} /\ frame' \in Batches /\ frame' = ChunkOf(queues'[Stage])
    BY <1>19, <2>1, ChunkSplits DEF Aloft, FromWal, Chunk, Shapes
  <2>3. UNCHANGED <<InChannel, InQueues, Received, reported, silent, abandoned, perished, items, queues>>
    BY <1>19 DEF Chunk, clientVars, ghosts
  <2>4. UNCHANGED <<log, uncommitted, received>>
    BY <1>19 DEF Chunk, walVars, ghosts
  <2>5. Kept' = Kept
    BY <2>2, <2>3, <2>4 DEF Kept
  <2>6. (ChunkOf(queues[Stage]))' = ChunkOf(queues'[Stage'])
    BY DEF ChunkOf, ChunkLen, Stage
  <2> QED BY <2>1, <2>2, <2>3, <2>4, <2>5, <2>6 DEF Balanced, WalShapes
<1>20. CASE ChunksEnd
  BY <1>20, MemoryMoves DEF ChunksEnd, clientVars, workerVars, walVars, ghosts, Begin
<1>21. CASE SendOk
  <2>1. /\ UNCHANGED <<InChannel, reported, silent, abandoned, perished, items, log, uncommitted>>
        /\ pc = "send" /\ pc' # "send" /\ frame' = <<>>
    BY <1>21 DEF SendOk, ChunkDone, Sent, clientVars, walVars
  <2>2. received' \in [Ids -> Nat] /\ Received \cup IdsOf(frame) \subseteq Received'
    <3>1. IdsOf(frame) \subseteq Ids
      <4>1. ToSet(frame) \subseteq Item
        BY ToSetOf DEF Balanced, Batches
      <4> QED BY <4>1 DEF IdsOf, Item, Ids
    <3>2. \A i \in Ids : received[i] \in Nat /\ received'[i] = IF i \in IdsOf(frame) THEN received[i] + 1 ELSE received[i]
      BY <1>21 DEF SendOk, Balanced
    <3>3. received' \in [Ids -> Nat]
      BY <1>21, <3>2 DEF SendOk
    <3> QED BY <3>1, <3>2, <3>3 DEF Received
  <2>3. InQueues \cup Aloft \subseteq InQueues' \cup IdsOf(frame)
    <3>1. CASE FromWal
      BY <1>21, <3>1 DEF SendOk, Aloft
    <3>2. CASE ~FromWal
      BY <1>21, <3>2, ChunkLeaves DEF SendOk, ChunkDone, Balanced, FromWal, Aloft
    <3> QED BY <3>1, <3>2
  <2>4. Kept \subseteq Kept'
    BY <2>1, <2>2, <2>3 DEF Kept
  <2> QED BY <2>1, <2>2, <2>4, NothingAloft DEF Balanced, WalShapes
<1>22. CASE PutBack
  <2>1. /\ UNCHANGED <<InChannel, InQueues, Received, abandoned, perished, items, received>>
        /\ pc = "send" /\ pc' # "send" /\ frame' = <<>>
    BY <1>22 DEF PutBack, Sent, clientVars
  <2>2. AppendKeeps(frame)
    BY <1>22, PutBackKeeps DEF Balanced
  <2>3. Aloft \subseteq IdsOf(frame) /\ Aloft' = {}
    BY <2>1 DEF Aloft
  <2>4. Kept \subseteq Kept' /\ IdsOfAll(uncommitted)' \subseteq Kept
    BY <2>1, <2>2, <2>3 DEF Kept, AppendKeeps, Balanced
  <2> QED BY <2>1, <2>2, <2>4, NothingAloft DEF Balanced, AppendKeeps
<1>23. CASE FallBack
  <2>1. /\ UNCHANGED <<InChannel, Received, abandoned, perished, items, received>>
        /\ pc = "send" /\ pc' # "send" /\ frame' = <<>>
    BY <1>23 DEF FallBack, ChunkDone, Sent, clientVars
  <2>2. AppendKeeps(frame)
    BY <1>23, AppendToWalKeeps DEF FallBack, Balanced
  <2>3. Aloft = {} /\ InQueues \subseteq InQueues' \cup IdsOf(frame)
    BY <1>23, ChunkLeaves DEF FallBack, ChunkDone, Balanced, FromWal, Aloft
  <2>4. Kept \subseteq Kept' /\ IdsOfAll(uncommitted)' \subseteq Kept
    BY <2>1, <2>2, <2>3 DEF Kept, AppendKeeps, Balanced
  <2> QED BY <2>1, <2>2, <2>4, NothingAloft DEF Balanced, AppendKeeps
<1>24. CASE Retry
  BY <1>24, MemoryMoves DEF Retry, clientVars, workerVars, walVars, ghosts, Begin
<1>25. CASE GiveUp
  <2>1. /\ UNCHANGED <<InChannel, Received, silent, abandoned, perished, items, received, log, uncommitted>>
        /\ pc = "send" /\ pc' # "send" /\ frame' = <<>> /\ reported' = reported \cup IdsOf(frame)
    BY <1>25 DEF GiveUp, ReportBatch, ChunkDone, Sent, clientVars, walVars
  <2>2. Aloft = {} /\ InQueues \subseteq InQueues' \cup IdsOf(frame)
    BY <1>25, ChunkLeaves DEF GiveUp, ChunkDone, Balanced, FromWal, Aloft
  <2>3. Kept \subseteq Kept'
    BY <2>1, <2>2 DEF Kept
  <2> QED BY <2>1, <2>3, NothingAloft DEF Balanced, WalShapes
<1>26. CASE ShutdownTimeout
  <2>1. /\ UNCHANGED <<InChannel, Received, silent, perished, items, received, log, uncommitted>>
        /\ pc' # "send" /\ frame' = <<>> /\ abandoned' = abandoned \cup Aloft
    BY <1>26, AbandonedIds DEF ShutdownTimeout, Sent, clientVars, walVars
  <2>2. reported \subseteq reported' /\ InQueues \subseteq InQueues' \cup reported'
    BY <1>26 DEF ShutdownTimeout
  <2>3. Kept \subseteq Kept'
    BY <2>1, <2>2 DEF Kept
  <2> QED BY <2>1, <2>3, NothingAloft DEF Balanced, WalShapes
<1>27. ASSUME NEW k \in Kinds, SaveChunk(k) PROVE Balanced'
  <2>1. /\ UNCHANGED <<InChannel, Received, abandoned, perished, items, received, frame>>
        /\ pc = "save" /\ pc' # "send"
    BY <1>27 DEF SaveChunk, clientVars
  <2>2. AppendKeeps(ChunkOf(queues[k]))
    BY <1>27, ChunkSplits, AppendToWalKeeps DEF SaveChunk, Balanced, Shapes
  <2>3. Aloft = {} /\ InQueues \subseteq InQueues' \cup IdsOf(ChunkOf(queues[k]))
    BY <1>27, <2>1, ChunkLeaves DEF SaveChunk, Aloft
  <2>4. Kept \subseteq Kept' /\ IdsOfAll(uncommitted)' \subseteq Kept
    BY <2>1, <2>2, <2>3 DEF Kept, AppendKeeps, Balanced
  <2> QED BY <2>1, <2>2, <2>4, NothingAloft DEF Balanced, AppendKeeps
<1>28. CASE SaveEnds
  BY <1>28, MemoryMoves DEF SaveEnds, clientVars, workerVars, walVars, ghosts, Begin
<1>29. CASE CloseAcks
  BY <1>29, MemoryMoves DEF CloseAcks, clientVars, workerVars, walVars, ghosts, Begin
<1>30. CASE Exit
  <2>1. Vanish /\ DropDiskBuffer /\ UNCHANGED <<items, received, reported, silent, abandoned>> /\ pc' # "send"
    BY <1>30 DEF Exit
  <2>2. Aloft = {}
    BY <1>30 DEF Exit, Aloft
  <2> QED BY <2>1, <2>2, DropKeeps, VanishKeeps DEF Balanced
<1>31. CASE Recv
  BY <1>31, AbsorbIds, MemoryMoves DEF Recv, walVars, ghosts
<1>32. CASE FlushTick
  BY <1>32, MemoryMoves DEF FlushTick, clientVars, workerVars, walVars, ghosts, Begin
<1>33. CASE SampleTick
  BY <1>33, MemoryMoves DEF SampleTick, clientVars, walVars, ghosts
<1>34. CASE RuntimeDropped
  <2>1. Vanish /\ DropDiskBuffer /\ UNCHANGED <<items, received, reported, silent>> /\ pc' # "send"
    BY <1>34 DEF RuntimeDropped
  <2>2. abandoned' = abandoned \cup Aloft
    BY <1>34, AbandonedIds DEF RuntimeDropped
  <2> QED BY <2>1, <2>2, DropKeeps, VanishKeeps DEF Balanced
<1>35. CASE Restart
  <2>1. Vanish /\ UNCHANGED <<items, received, reported, abandoned>> /\ pc' # "send"
    BY <1>35 DEF Restart
  <2>2. /\ WalShapes' /\ IdsOfAll(uncommitted)' = {} /\ silent \subseteq silent'
        /\ IdsOfAll(uncommitted) \cup IdsOfAll(log) \subseteq IdsOfAll(log)' \cup silent'
    BY <1>35, RestartKeeps DEF Balanced
  <2> QED BY <2>1, <2>2, VanishKeeps DEF Balanced
<1>36. ASSUME NEW r \in Requests, SendControlRefused(r) PROVE Balanced'
  BY <1>36, MemoryMoves DEF SendControlRefused, clientVars, workerVars, walVars, ghosts, Begin
<1>37. CASE SamplePoint
  <2> DEFINE m == [kind |-> "metrics", id |-> items + 1]
  <2>1. m \in Item /\ m.id = items + 1 /\ items' = items + 1 /\ items \in Nat /\ "metrics" \in Kinds
    BY <1>37, NewItem, Constants DEF SamplePoint, Shapes
  <2>2. \A k \in Kinds : queues'[k] = IF k = "metrics" THEN Append(queues[k], m) ELSE queues[k]
    BY <1>37, <2>1 DEF SamplePoint, Shapes
  <2>3. \A k \in Kinds : IdsOf(queues[k])' = IdsOf(queues[k]) \cup (IF k = "metrics" THEN {items + 1} ELSE {})
    <3>1. \A k \in Kinds : IdsOf(queues[k])' = IdsOf(queues'[k])
      BY DEF IdsOf
    <3> QED BY <2>1, <2>2, <3>1, QueueIds
  <2>4. InQueues' = InQueues \cup {items + 1}
    BY <2>1, <2>3, InSomeQueue
  <2>5. 1..items' \subseteq 1..items \cup {items + 1}
    BY <2>1
  <2> QED BY <1>37, <2>4, <2>5, MemoryMoves DEF SamplePoint, walVars, ghosts
<1>38. CASE SampleEnds
  BY <1>38, MemoryMoves DEF SampleEnds, clientVars, workerVars, walVars, ghosts, Begin
<1>39. CASE DrainMisreads
  <2>1. PICK k \in 0..Len(log), f \in {<<>>} \cup ToSet(log) :
            /\ f # <<>> => k > 0 /\ f = log[k]
            /\ Sending(f)
            /\ log' = Wal!Rest(log, k)
            /\ uncommitted' = uncommitted \o SubSeq(log, 1, k)
            /\ silent' = silent \cup (Oldest(k) \ IdsOf(f))
    BY <1>39 DEF DrainMisreads
  <2>2. f \in Batches /\ IdsOf(f) \subseteq Oldest(k)
    BY <2>1, MisreadKeeps DEF Balanced
  <2>3. pc = "drain" /\ pc' = "send" /\ Stage' = "wal" /\ frame' = f
    BY <1>39, <2>1 DEF DrainMisreads, Sending, QueueInv, Stage
  <2>4. Aloft = {} /\ Aloft' = IdsOf(f)
    BY <2>3 DEF Aloft, FromWal, IdsOf
  <2>5. UNCHANGED <<InChannel, InQueues, Received, reported, abandoned, perished, items, received>>
    BY <1>39 DEF DrainMisreads, clientVars
  <2>6. /\ WalShapes' /\ IdsOfAll(log) = Oldest(k) \cup IdsOfAll(log)'
        /\ IdsOfAll(uncommitted)' = IdsOfAll(uncommitted) \cup Oldest(k)
    BY <2>1, RestKeeps, TakenKeeps, IdsOfAllPrimed DEF Balanced, WalShapes
  <2>7. silent \subseteq silent' /\ Oldest(k) \subseteq silent' \cup IdsOf(f)
    BY <2>1
  <2>8. Kept \subseteq Kept' /\ Oldest(k) \subseteq Kept'
    BY <2>4, <2>5, <2>6, <2>7 DEF Kept
  <2> QED BY <2>2, <2>3, <2>4, <2>5, <2>6, <2>8 DEF Balanced
<1>40. CASE DrainFails
  <2>1. /\ UNCHANGED <<InChannel, InQueues, Received, reported, silent, abandoned, perished, items>>
        /\ UNCHANGED <<frame, received, uncommitted>> /\ pc = "drain" /\ pc' = "commit"
    BY <1>40 DEF DrainFails, clientVars, ghosts
  <2>2. log' \in Seq(Batches) /\ IdsOfAll(log)' = IdsOfAll(log)
    BY <1>40, AstrayKeeps DEF DrainFails, Balanced, WalShapes
  <2>3. Aloft = {} /\ Aloft' = {}
    BY <2>1 DEF Aloft
  <2>4. WalShapes' /\ IdsOfAll(uncommitted)' = IdsOfAll(uncommitted)
    BY <2>1, <2>2 DEF Balanced, WalShapes
  <2>5. Kept' = Kept
    BY <2>1, <2>2, <2>3 DEF Kept
  <2> QED BY <2>1, <2>4, <2>5, NothingAloft DEF Balanced
<1>41. CASE DrainResets
  <2>1. PICK k \in 0..Len(log) :
            /\ log' = Wal!Rest(log, k)
            /\ silent' = silent \cup Oldest(k)
            /\ uncommitted' = <<>> \/ uncommitted' = uncommitted \o SubSeq(log, 1, k)
    BY <1>41 DEF DrainResets
  <2>2. /\ UNCHANGED <<InChannel, InQueues, Received, reported, abandoned, perished, items>>
        /\ UNCHANGED <<frame, received>> /\ pc = "drain" /\ pc' = "commit"
    BY <1>41 DEF DrainResets, clientVars
  <2>3. /\ WalShapes' /\ IdsOfAll(log) = Oldest(k) \cup IdsOfAll(log)'
        /\ IdsOfAll(uncommitted)' \subseteq IdsOfAll(uncommitted) \cup IdsOfAll(log)
    BY <2>1, RestKeeps, TakenKeeps, NoFrames, EmptySeq, IdsOfAllPrimed DEF Balanced, WalShapes
  <2>4. Aloft = {} /\ Aloft' = {}
    BY <2>2 DEF Aloft
  <2>5. Kept \subseteq Kept' /\ IdsOfAll(uncommitted)' \subseteq Kept
    BY <2>1, <2>2, <2>3, <2>4 DEF Kept, Balanced
  <2> QED BY <2>2, <2>3, <2>5, NothingAloft DEF Balanced
<1> QED
  BY <1>1, <1>2, <1>3, <1>4, <1>5, <1>6, <1>7, <1>8, <1>9, <1>10, <1>11, <1>12, <1>13, <1>14,
       <1>15, <1>16, <1>17, <1>18, <1>19, <1>20, <1>21, <1>22, <1>23, <1>24, <1>25, <1>26, <1>27,
       <1>28, <1>29, <1>30, <1>31, <1>32, <1>33, <1>34, <1>35,
       <1>36, <1>37, <1>38, <1>39, <1>40, <1>41
     DEF Next, ClientStep, WorkerStep, SampleStep, FlushStep, SendStep, EndStep

-----------------------------------------------------------------------------
(* Types *)

Flags ==
    /\ senders \in BOOLEAN
    /\ disk \in BOOLEAN /\ (pc = "start" => ~disk)
    /\ mode \in {"full", "flush", "close"}
    /\ stages \in Seq(Kinds \cup {"wal"})
    /\ attempt \in 0..MaxRetries
    /\ budget \in 0..(IF pc = "sample" THEN MaxPoints ELSE QueueCapacity)
    /\ Len(channel) <= QueueCapacity
    /\ damage \in {"none", "torn", "astray"}
    /\ crashes \in 0..MaxCrashes /\ faults \in 0..MaxFaults

LEMMA VanishFlags ==
    ASSUME Vanish
    PROVE  /\ disk' \in BOOLEAN /\ ~disk' /\ mode' \in {"full", "flush", "close"}
           /\ stages' \in Seq(Kinds \cup {"wal"}) /\ attempt' \in 0..MaxRetries
           /\ budget' = 0 /\ 0 \in 0..MaxPoints /\ 0 \in 0..QueueCapacity /\ Len(channel') <= QueueCapacity
<1>1. disk' = FALSE /\ mode' = "full" /\ stages' = <<>> /\ attempt' = 0 /\ budget' = 0 /\ channel' = <<>>
  BY DEF Vanish, Sent
<1>2. Len(<<>>) = 0 /\ 0 <= QueueCapacity /\ 0 \in 0..QueueCapacity /\ 0 \in 0..MaxRetries /\ 0 \in 0..MaxPoints
  BY CapacityAssumption
<1> QED BY <1>1, <1>2, EmptySeq

LEMMA AppendFlags ==
    ASSUME Flags, NEW f,
           AppendFails(f) \/ (UNCHANGED faults /\ \E k \in 0..Len(log) : StoreInPlaceOf(k, f))
    PROVE  damage' \in {"none", "torn", "astray"} /\ faults' \in 0..MaxFaults
<1>1. damage' = damage \/ damage' = "torn"
  BY DEF AppendFails, StoreInPlaceOf, EvictFor, TearFor, Tear, walVars
<1>2. faults' = faults \/ (faults < MaxFaults /\ faults' = faults + 1)
  BY DEF AppendFails, Fault
<1> QED BY <1>1, <1>2, BoundAssumption DEF Flags

LEMMA FlagsStep == Shapes /\ QueueInv /\ Flags /\ [Next]_vars => Flags'
<1> SUFFICES ASSUME Shapes, QueueInv, Flags, [Next]_vars PROVE Flags'
  OBVIOUS
<1>0. /\ QueueCapacity \in Nat /\ MaxPoints \in Nat /\ MaxRetries \in Nat /\ MaxCrashes \in Nat /\ MaxFaults \in Nat
      /\ <<>> \in Seq(Kinds \cup {"wal"}) /\ Len(<<>>) = 0 /\ Len(channel) \in Nat /\ DiskChoices \subseteq BOOLEAN
  BY CapacityAssumption, BoundAssumption, EmptySeq DEF Shapes
<1> USE <1>0
<1>1. CASE UNCHANGED vars
  BY <1>1 DEF vars, bounds, walVars, Flags
<1>2. ASSUME NEW k \in TrackKinds, Track(k) PROVE Flags'
  <2>1. Len(channel') = Len(channel) + 1
    BY <1>2, AppendProperties DEF Track, Shapes
  <2> QED BY <1>2, <2>1 DEF Track, HasRoom, workerVars, bounds, walVars, Flags
<1>3. ASSUME NEW r \in Requests, Call(r) PROVE Flags'
  BY <1>3 DEF Call, workerVars, bounds, walVars, Flags
<1>4. ASSUME NEW r \in Requests, SendControl(r) PROVE Flags'
  <2>1. Len(channel') = Len(channel) + 1
    BY <1>4, AppendProperties DEF SendControl, Shapes
  <2> QED BY <1>4, <2>1 DEF SendControl, HasRoom, workerVars, bounds, walVars, Flags
<1>5. ASSUME NEW r \in Requests, SendControlFails(r) PROVE Flags'
  BY <1>5 DEF SendControlFails, workerVars, bounds, walVars, Flags
<1>6. CASE DropClients
  BY <1>6 DEF DropClients, workerVars, bounds, walVars, Flags
<1>7. CASE NewSender
  <2>1. PICK path \in DiskChoices : OpenOrGoWithout(path)
    BY <1>7 DEF NewSender
  <2>2. disk' \in BOOLEAN
    BY <2>1 DEF OpenOrGoWithout
  <2>3. faults' \in 0..MaxFaults
    BY <2>1 DEF OpenOrGoWithout, Fault, Flags
  <2> QED BY <1>7, <2>2, <2>3 DEF NewSender, clientVars, walVars, Flags
<1>8. CASE NewTicks
  BY <1>8 DEF NewTicks, clientVars, bounds, walVars, Flags
<1>9. CASE IntervalPanics
  <2>1. Vanish /\ senders' \in BOOLEAN /\ crashes' \in 0..MaxCrashes /\ DropDiskBuffer /\ pc' = "done"
    BY <1>9 DEF IntervalPanics, Flags
  <2> QED BY <2>1, VanishFlags DEF DropDiskBuffer, Fault, Flags
<1>10. CASE TryRecv
  <2>1. Len(channel') = Len(channel) - 1
    BY <1>10, HeadTailProperties DEF TryRecv, Shapes
  <2> QED BY <1>10, <2>1 DEF TryRecv, bounds, walVars, Flags
<1>11. CASE Dispatch
  <2>1. \A m : Begin(m) => stages' \in Seq(Kinds \cup {"wal"})
    BY AllStages
  <2> QED BY <1>11, <2>1 DEF Dispatch, Begin, WhatToDo, clientVars, bounds, walVars, Flags
<1>12. CASE RecvFails
  <2>1. \A m : Begin(m) => stages' \in Seq(Kinds \cup {"wal"})
    BY AllStages
  <2> QED BY <1>12, <2>1 DEF RecvFails, Begin, WhatToDo, clientVars, bounds, walVars, Flags
<1>13. CASE EnterStage
  BY <1>13 DEF EnterStage, clientVars, bounds, walVars, Flags
<1>14. CASE SkipStage
  BY <1>14, NextStage DEF SkipStage, Fault, clientVars, bounds, walVars, Flags, QueueInv, InStages
<1>15. CASE EndStages
  BY <1>15 DEF EndStages, AckAll, bounds, walVars, Flags
<1>16. CASE DrainNext
  BY <1>16 DEF DrainNext, Sending, clientVars, bounds, walVars, Flags
<1>17. CASE DrainEnds
  BY <1>17 DEF DrainEnds, clientVars, bounds, walVars, Flags
<1>18. CASE CommitWal
  BY <1>18, NextStage DEF CommitWal, Fault, Tear, clientVars, Flags, QueueInv, InStages
<1>19. CASE Chunk
  BY <1>19 DEF Chunk, Sending, clientVars, bounds, walVars, Flags
<1>20. CASE ChunksEnd
  BY <1>20, NextStage DEF ChunksEnd, Fault, clientVars, bounds, walVars, Flags, QueueInv, InStages
<1>21. CASE SendOk
  BY <1>21 DEF SendOk, ChunkDone, Sent, clientVars, bounds, walVars, Flags
<1>22. CASE PutBack
  <2>1. damage' \in {"none", "torn", "astray"} /\ faults' \in 0..MaxFaults
    BY <1>22, AppendFlags DEF PutBack
  <2> QED BY <1>22, <2>1 DEF PutBack, Sent, clientVars, Flags
<1>23. CASE FallBack
  <2>1. damage' \in {"none", "torn", "astray"} /\ faults' \in 0..MaxFaults
    BY <1>23, AppendFlags DEF FallBack, AppendToWal
  <2> QED BY <1>23, <2>1 DEF FallBack, ChunkDone, Sent, clientVars, Flags
<1>24. CASE Retry
  BY <1>24 DEF Retry, clientVars, bounds, walVars, Flags
<1>25. CASE GiveUp
  BY <1>25 DEF GiveUp, ReportBatch, ChunkDone, Sent, clientVars, bounds, walVars, Flags
<1>26. CASE ShutdownTimeout
  BY <1>26 DEF ShutdownTimeout, Sent, clientVars, bounds, walVars, Flags
<1>27. ASSUME NEW k \in Kinds, SaveChunk(k) PROVE Flags'
  <2>1. damage' \in {"none", "torn", "astray"} /\ faults' \in 0..MaxFaults
    BY <1>27, AppendFlags DEF SaveChunk, AppendToWal
  <2> QED BY <1>27, <2>1 DEF SaveChunk, clientVars, Flags
<1>28. CASE SaveEnds
  BY <1>28 DEF SaveEnds, clientVars, bounds, walVars, Flags
<1>29. CASE CloseAcks
  BY <1>29 DEF CloseAcks, AckAll, bounds, walVars, Flags
<1>30. CASE Exit
  <2>1. Vanish /\ senders' \in BOOLEAN /\ crashes' \in 0..MaxCrashes /\ DropDiskBuffer /\ pc' = "done"
    BY <1>30 DEF Exit, Flags
  <2> QED BY <2>1, VanishFlags DEF DropDiskBuffer, Fault, Flags
<1>31. CASE Recv
  <2>1. Len(channel') = Len(channel) - 1
    BY <1>31, HeadTailProperties DEF Recv, Shapes
  <2> QED BY <1>31, <2>1 DEF Recv, bounds, walVars, Flags
<1>32. CASE FlushTick
  <2>1. \A m : Begin(m) => stages' \in Seq(Kinds \cup {"wal"})
    BY AllStages
  <2> QED BY <1>32, <2>1 DEF FlushTick, Begin, WhatToDo, clientVars, bounds, walVars, Flags
<1>33. CASE SampleTick
  BY <1>33 DEF SampleTick, clientVars, bounds, walVars, Flags
<1>34. CASE RuntimeDropped
  <2>1. Vanish /\ senders' \in BOOLEAN /\ crashes' \in 0..MaxCrashes /\ DropDiskBuffer /\ pc' = "done"
    BY <1>34 DEF RuntimeDropped, Flags
  <2> QED BY <2>1, VanishFlags DEF DropDiskBuffer, Fault, Flags
<1>35. CASE Restart
  <2>1. Vanish /\ senders' \in BOOLEAN /\ crashes' \in 0..MaxCrashes /\ faults' \in 0..MaxFaults
        /\ pc' = "start" /\ damage' \in {"none", "torn", "astray"}
    BY <1>35 DEF Restart, Tear, Flags
  <2> QED BY <2>1, VanishFlags DEF Flags
<1>36. ASSUME NEW r \in Requests, SendControlRefused(r) PROVE Flags'
  BY <1>36 DEF SendControlRefused, workerVars, bounds, walVars, Flags
<1>37. CASE SamplePoint
  BY <1>37 DEF SamplePoint, bounds, walVars, Flags
<1>38. CASE SampleEnds
  <2>1. \A m : Begin(m) => stages' \in Seq(Kinds \cup {"wal"})
    BY AllStages
  <2> QED BY <1>38, <2>1 DEF SampleEnds, Begin, clientVars, bounds, walVars, Flags
<1>39. CASE DrainMisreads
  BY <1>39 DEF DrainMisreads, Sending, clientVars, bounds, Flags
<1>40. CASE DrainFails
  BY <1>40 DEF DrainFails, LosePlace, Fault, clientVars, Flags
<1>41. CASE DrainResets
  BY <1>41 DEF DrainResets, Fault, clientVars, Flags
<1> QED
  BY <1>1, <1>2, <1>3, <1>4, <1>5, <1>6, <1>7, <1>8, <1>9, <1>10, <1>11, <1>12, <1>13, <1>14,
       <1>15, <1>16, <1>17, <1>18, <1>19, <1>20, <1>21, <1>22, <1>23, <1>24, <1>25, <1>26, <1>27,
       <1>28, <1>29, <1>30, <1>31, <1>32, <1>33, <1>34, <1>35,
       <1>36, <1>37, <1>38, <1>39, <1>40, <1>41
     DEF Next, ClientStep, WorkerStep, SampleStep, FlushStep, SendStep, EndStep

\* What happened to entries is told of entries.
IdsTyped ==
    reported \subseteq Ids /\ silent \subseteq Ids /\ abandoned \subseteq Ids /\ perished \subseteq Ids

LEMMA SeqIds ==
    /\ \A f \in Seq(Item) : IdsOf(f) \subseteq Ids
    /\ \A fs \in Seq(Batches) : IdsOfAll(fs) \subseteq Ids
    /\ Shapes => InChannel \subseteq Ids /\ InQueues \subseteq Ids
<1>1. ASSUME NEW S, NEW s \in Seq(S), S \subseteq Message PROVE IdsOf(s) \subseteq Ids
  <2>1. ToSet(s) \subseteq Message
    BY <1>1, ToSetOf
  <2> QED BY <2>1 DEF IdsOf, Message, Item
<1>2. ASSUME NEW fs \in Seq(Batches) PROVE IdsOfAll(fs) \subseteq Ids
  <2>1. ToSet(fs) \subseteq Seq(Item)
    BY ToSetOf DEF Batches
  <2>2. \A f \in Seq(Item) : IdsOf(f) \subseteq Ids
    BY <1>1 DEF Message
  <2> QED BY <2>1, <2>2 DEF IdsOfAll
<1>3. ASSUME Shapes PROVE InChannel \subseteq Ids /\ InQueues \subseteq Ids
  <2>1. \A k \in Kinds : IdsOf(queues[k]) \subseteq Ids
    BY <1>1, <1>3 DEF Message, Shapes
  <2> QED BY <1>1, <1>3, <2>1, InSomeQueue DEF InChannel, Shapes
<1> QED BY <1>1, <1>2, <1>3 DEF Message

LEMMA IdsStep == Shapes /\ Balanced /\ IdsTyped /\ [Next]_vars => IdsTyped'
<1> SUFFICES ASSUME Shapes, Balanced, IdsTyped, [Next]_vars PROVE IdsTyped'
  OBVIOUS
<1>0. /\ InChannel \subseteq Ids /\ InQueues \subseteq Ids /\ IdsOf(frame) \subseteq Ids
      /\ \A k \in 0..Len(log) : Oldest(k) \subseteq Ids
      /\ \A k \in Kinds : IdsOf(ChunkOf(queues[k])) \subseteq Ids
      /\ \A k \in 0..Len(log) : IdsOfAll(Wal!Rest(log, k)) \subseteq Ids
      /\ IdsOfAll(log) \subseteq Ids
  <2>1. \A k \in 0..Len(log) : SubSeq(log, 1, k) \in Seq(Batches) /\ Wal!Rest(log, k) \in Seq(Batches)
    BY RestKeeps DEF Balanced
  <2>2. \A k \in Kinds : ChunkOf(queues[k]) \in Seq(Item)
    BY ChunkSplits DEF Shapes
  <2> QED BY <2>1, <2>2, SeqIds DEF Balanced, WalShapes, Oldest, Batches
<1> USE <1>0
<1>1. CASE UNCHANGED vars
  BY <1>1 DEF vars, ghosts, IdsTyped
<1>2. ASSUME NEW k \in TrackKinds, Track(k) PROVE IdsTyped'
  BY <1>2 DEF Track, workerVars, ghosts, IdsTyped
<1>3. ASSUME NEW r \in Requests, Call(r) PROVE IdsTyped'
  BY <1>3 DEF Call, workerVars, ghosts, IdsTyped
<1>4. ASSUME NEW r \in Requests, SendControl(r) PROVE IdsTyped'
  BY <1>4 DEF SendControl, workerVars, ghosts, IdsTyped
<1>5. ASSUME NEW r \in Requests, SendControlFails(r) PROVE IdsTyped'
  BY <1>5 DEF SendControlFails, workerVars, ghosts, IdsTyped
<1>6. CASE DropClients
  BY <1>6 DEF DropClients, workerVars, ghosts, IdsTyped
<1>7. CASE NewSender
  BY <1>7 DEF NewSender, OpenOrGoWithout, Fault, clientVars, ghosts, IdsTyped
<1>8. CASE NewTicks
  BY <1>8 DEF NewTicks, clientVars, ghosts, IdsTyped
<1>9. CASE IntervalPanics
  BY <1>9 DEF IntervalPanics, Vanish, Sent, Fail, ghosts, IdsTyped
<1>10. CASE TryRecv
  BY <1>10 DEF TryRecv, Absorb, ghosts, IdsTyped
<1>11. CASE Dispatch
  BY <1>11 DEF Dispatch, Begin, clientVars, ghosts, IdsTyped
<1>12. CASE RecvFails
  BY <1>12 DEF RecvFails, Begin, clientVars, ghosts, IdsTyped
<1>13. CASE EnterStage
  BY <1>13 DEF EnterStage, clientVars, ghosts, IdsTyped
<1>14. CASE SkipStage
  BY <1>14 DEF SkipStage, clientVars, ghosts, IdsTyped
<1>15. CASE EndStages
  BY <1>15 DEF EndStages, AckAll, ghosts, IdsTyped
<1>16. CASE DrainNext
  BY <1>16 DEF DrainNext, Sending, clientVars, ghosts, IdsTyped
<1>17. CASE DrainEnds
  BY <1>17 DEF DrainEnds, clientVars, ghosts, IdsTyped
<1>18. CASE CommitWal
  BY <1>18 DEF CommitWal, Unnoticed, clientVars, IdsTyped
<1>19. CASE Chunk
  BY <1>19 DEF Chunk, Sending, clientVars, ghosts, IdsTyped
<1>20. CASE ChunksEnd
  BY <1>20 DEF ChunksEnd, clientVars, ghosts, IdsTyped
<1>21. CASE SendOk
  BY <1>21 DEF SendOk, ChunkDone, Sent, clientVars, ghosts, IdsTyped
<1>22. CASE PutBack
  BY <1>22 DEF PutBack, AppendFails, Unnoticed, IdsTyped
<1>23. CASE FallBack
  BY <1>23 DEF FallBack, AppendToWal, AppendFails, Unnoticed, IdsTyped
<1>24. CASE Retry
  BY <1>24 DEF Retry, clientVars, ghosts, IdsTyped
<1>25. CASE GiveUp
  BY <1>25 DEF GiveUp, ReportBatch, ChunkDone, Sent, clientVars, ghosts, IdsTyped
<1>26. CASE ShutdownTimeout
  BY <1>26 DEF ShutdownTimeout, Abandon, IdsTyped
<1>27. ASSUME NEW k \in Kinds, SaveChunk(k) PROVE IdsTyped'
  BY <1>27 DEF SaveChunk, AppendToWal, AppendFails, Unnoticed, IdsTyped
<1>28. CASE SaveEnds
  BY <1>28 DEF SaveEnds, clientVars, ghosts, IdsTyped
<1>29. CASE CloseAcks
  BY <1>29 DEF CloseAcks, AckAll, ghosts, IdsTyped
<1>30. CASE Exit
  BY <1>30 DEF Exit, Vanish, Sent, Fail, ghosts, IdsTyped
<1>31. CASE Recv
  BY <1>31 DEF Recv, Absorb, ghosts, IdsTyped
<1>32. CASE FlushTick
  BY <1>32 DEF FlushTick, Begin, clientVars, ghosts, IdsTyped
<1>33. CASE SampleTick
  BY <1>33 DEF SampleTick, ghosts, IdsTyped
<1>34. CASE RuntimeDropped
  BY <1>34 DEF RuntimeDropped, Abandon, Vanish, Sent, Fail, ghosts, IdsTyped
<1>35. CASE Restart
  <2>1. uncommitted \o log \in Seq(Batches)
    BY ConcatProperties DEF Balanced, WalShapes
  <2>2. IdsOfAll(uncommitted \o log) \subseteq Ids
    BY <2>1, SeqIds
  <2> QED BY <1>35, <2>2 DEF Restart, Vanish, Unnoticed, IdsTyped
<1>36. ASSUME NEW r \in Requests, SendControlRefused(r) PROVE IdsTyped'
  BY <1>36 DEF SendControlRefused, workerVars, ghosts, IdsTyped
<1>37. CASE SamplePoint
  BY <1>37 DEF SamplePoint, ghosts, IdsTyped
<1>38. CASE SampleEnds
  BY <1>38 DEF SampleEnds, ghosts, IdsTyped
<1>39. CASE DrainMisreads
  BY <1>39 DEF DrainMisreads, IdsTyped
<1>40. CASE DrainFails
  BY <1>40 DEF DrainFails, ghosts, IdsTyped
<1>41. CASE DrainResets
  BY <1>41 DEF DrainResets, IdsTyped
<1> QED
  BY <1>1, <1>2, <1>3, <1>4, <1>5, <1>6, <1>7, <1>8, <1>9, <1>10, <1>11, <1>12, <1>13, <1>14,
       <1>15, <1>16, <1>17, <1>18, <1>19, <1>20, <1>21, <1>22, <1>23, <1>24, <1>25, <1>26, <1>27,
       <1>28, <1>29, <1>30, <1>31, <1>32, <1>33, <1>34, <1>35,
       <1>36, <1>37, <1>38, <1>39, <1>40, <1>41
     DEF Next, ClientStep, WorkerStep, SampleStep, FlushStep, SendStep, EndStep

-----------------------------------------------------------------------------
(* Theorems *)

WorkerInv == MemoryInv /\ Balanced /\ Flags /\ IdsTyped

LEMMA InitInv == Init => WorkerInv
<1> SUFFICES ASSUME Init PROVE WorkerInv
  OBVIOUS
<1>1. MemoryInv
  BY InitMemory
<1>2. Balanced
  <2>1. <<>> \in Batches /\ <<>> \in Seq(Batches)
    BY Constants, EmptySeq DEF Batches
  <2>2. Aloft = {} /\ items = 0 /\ 1..0 = {}
    BY DEF Init, Aloft
  <2>3. received \in [Ids -> Nat]
    BY DEF Init
  <2>4. IdsOfAll(uncommitted) = {}
    BY NoFrames DEF Init
  <2> QED BY <2>1, <2>2, <2>3, <2>4 DEF Init, Balanced, WalShapes
<1>3. Flags
  <2>1. Len(<<>>) = 0 /\ 0 <= QueueCapacity /\ 0 \in 0..QueueCapacity /\ 0 \in 0..MaxRetries
        /\ 0 \in 0..MaxCrashes /\ 0 \in 0..MaxFaults /\ 0 \in 0..MaxPoints
    BY CapacityAssumption, BoundAssumption
  <2>2. senders \in BOOLEAN /\ disk \in BOOLEAN /\ ~disk
    BY DEF Init
  <2> QED BY <2>1, <2>2, EmptySeq DEF Init, Flags
<1>4. IdsTyped
  BY DEF Init, IdsTyped
<1> QED BY <1>1, <1>2, <1>3, <1>4 DEF WorkerInv

LEMMA NextInv == WorkerInv /\ [Next]_vars => WorkerInv'
BY NextMemory, FlagsStep, IdsStep, BalancedStep DEF WorkerInv, MemoryInv

LEMMA Invariance == Spec => []WorkerInv
BY InitInv, NextInv, PTL DEF Spec

\* The variables of the worker, the client and the disk buffer have their types
\* whatever happens: no frame is longer than a batch (flush_queue, save_queue),
\* the channel never exceeds its capacity, and the retries, the try_recv budget
\* and the stages of a pass stay in their ranges.
THEOREM TypesHold == Spec => []TypeOK
<1>1. WorkerInv => TypeOK
  <2> SUFFICES ASSUME WorkerInv PROVE TypeOK
    OBVIOUS
  <2>1. /\ channel \in Seq(Message) /\ queues \in [Kinds -> Seq(Item)] /\ items \in 0..MaxItems
    BY DEF WorkerInv, MemoryInv, Shapes
  <2>2. log \in Seq(Seq(Item)) /\ uncommitted \in Seq(Seq(Item))
    <3>1. Batches \subseteq Seq(Item)
      BY DEF Batches
    <3>2. Seq(Batches) \subseteq Seq(Seq(Item))
      BY <3>1, SeqMonotonic
    <3> QED BY <3>2 DEF WorkerInv, MemoryInv, Balanced, WalShapes
  <2>3. frame \in Seq(Item) /\ Len(frame) <= BatchSize /\ received \in [Ids -> Nat]
    BY DEF WorkerInv, MemoryInv, Balanced, Batches
  <2>4. before \in [Requests -> SUBSET Ids]
    <3>1. 1..items \subseteq Ids
      BY <2>1, Constants DEF Ids
    <3> QED BY <3>1 DEF WorkerInv, MemoryInv, Fifo
  <2>5. pc \in {"start", "ticks", "select", "absorb", "sample", "stage", "drain", "commit", "chunk",
                "send", "save", "close", "exit", "done"}
    BY DEF WorkerInv, MemoryInv, QueueInv, InStages
  <2>6. status \in [Requests -> {"new", "sending", "queued", "absorbed", "acked", "failed"}]
    BY DEF WorkerInv, MemoryInv, AcksHeld, Statuses
  <2>7. Flags /\ IdsTyped
    BY DEF WorkerInv, MemoryInv
  <2> QED BY <2>1, <2>2, <2>3, <2>4, <2>5, <2>6, <2>7 DEF TypeOK, Flags, IdsTyped
<1> QED BY <1>1, Invariance, PTL

\* No accepted entry disappears without a trace, through retries, the fallback
\* to disk, frames that are put back, evictions, failed appends, shutdown
\* timeouts, crashes and restarts, of whatever number and in whatever order.
\* What a damaged file makes the disk buffer skip without a word is one of the
\* traces: silent has it.
THEOREM EverythingAccounted == Spec => []Accounted
<1>1. WorkerInv => Accounted
  BY BalancedIsAccounted DEF WorkerInv
<1> QED BY <1>1, Invariance, PTL

-----------------------------------------------------------------------------
(* Sequences of entries, with requests among them *)

Ascending(s) ==
    \A p, q \in 1..Len(s) :
        p < q /\ s[p] \notin Requests /\ s[q] \notin Requests => s[p].id < s[q].id

Distinct(s) ==
    \A p, q \in 1..Len(s) :
        p < q /\ s[p] \notin Requests /\ s[q] \notin Requests => s[p].id # s[q].id

LEMMA IdAt ==
    ASSUME NEW S, NEW s \in Seq(S)
    PROVE  \A i : i \in IdsOf(s) <=> \E p \in 1..Len(s) : s[p] \notin Requests /\ s[p].id = i
BY ToSetOf DEF IdsOf

LEMMA EmptyOrdered == Ascending(<<>>) /\ Distinct(<<>>)
BY DEF Ascending, Distinct

LEMMA AppendOrdered ==
    ASSUME NEW S, NEW s \in Seq(S), NEW e \in S
    PROVE  /\ e \in Requests /\ Ascending(s) => Ascending(Append(s, e))
           /\ Ascending(s) /\ (\A i \in IdsOf(s) : i < e.id) => Ascending(Append(s, e))
           /\ Distinct(s) /\ e.id \notin IdsOf(s) => Distinct(Append(s, e))
<1> DEFINE t == Append(s, e)
<1>1. /\ Len(s) \in Nat /\ Len(t) = Len(s) + 1 /\ t[Len(s) + 1] = e
      /\ \A p \in 1..Len(s) : t[p] = s[p]
  BY AppendProperties, LenProperties
<1>2. ASSUME NEW p \in 1..Len(t), NEW q \in 1..Len(t), p < q
      PROVE  p \in 1..Len(s) /\ (q \in 1..Len(s) \/ q = Len(s) + 1)
  BY <1>1, <1>2
<1> HIDE DEF t
<1>3. ASSUME e \in Requests, Ascending(s) PROVE Ascending(t)
  BY <1>1, <1>2, <1>3 DEF Ascending
<1>4. ASSUME Ascending(s), \A i \in IdsOf(s) : i < e.id PROVE Ascending(t)
  <2>1. \A p \in 1..Len(s) : s[p] \notin Requests => s[p].id < e.id
    BY <1>4, IdAt
  <2> QED BY <1>1, <1>2, <1>4, <2>1 DEF Ascending
<1>5. ASSUME Distinct(s), e.id \notin IdsOf(s) PROVE Distinct(t)
  <2>1. \A p \in 1..Len(s) : s[p] \notin Requests => s[p].id # e.id
    BY <1>5, IdAt
  <2> QED BY <1>1, <1>2, <1>5, <2>1 DEF Distinct
<1> QED BY <1>3, <1>4, <1>5 DEF t

LEMMA TailOrdered ==
    ASSUME NEW S, NEW s \in Seq(S), s # <<>>, Ascending(s)
    PROVE  /\ Ascending(Tail(s))
           /\ Head(s) \notin Requests => \A i \in IdsOf(Tail(s)) : Head(s).id < i
<1> DEFINE t == Tail(s)
<1>1. /\ Len(s) \in Nat \ {0} /\ t \in Seq(S) /\ Len(t) = Len(s) - 1 /\ Head(s) = s[1]
      /\ \A p \in 1..Len(t) : t[p] = s[p + 1] /\ p + 1 \in 1..Len(s)
  <2>1. /\ Len(s) \in Nat \ {0} /\ t \in Seq(S) /\ Len(t) = Len(s) - 1
        /\ \A p \in 1..Len(t) : t[p] = s[p + 1]
    BY HeadTailProperties, EmptySeq
  <2>2. \A p \in 1..(Len(s) - 1) : p + 1 \in 1..Len(s)
    BY <2>1
  <2> QED BY <2>1, <2>2
<1> HIDE DEF t
<1>2. Ascending(t)
  <2> SUFFICES ASSUME NEW p \in 1..Len(t), NEW q \in 1..Len(t), p < q,
                      t[p] \notin Requests, t[q] \notin Requests
               PROVE  t[p].id < t[q].id
    BY DEF Ascending
  <2>1. p + 1 \in 1..Len(s) /\ q + 1 \in 1..Len(s) /\ p + 1 < q + 1
    BY <1>1
  <2> QED BY <1>1, <2>1 DEF Ascending
<1>3. ASSUME Head(s) \notin Requests, NEW i \in IdsOf(t) PROVE Head(s).id < i
  <2>1. PICK p \in 1..Len(t) : t[p] \notin Requests /\ t[p].id = i
    BY <1>1, IdAt
  <2>2. 1 \in 1..Len(s) /\ p + 1 \in 1..Len(s) /\ 1 < p + 1 /\ t[p] = s[p + 1]
    BY <1>1
  <2> QED BY <1>1, <1>3, <2>1, <2>2 DEF Ascending
<1> QED BY <1>2, <1>3 DEF t

LEMMA ChunkOrdered ==
    ASSUME NEW q \in Seq(Item)
    PROVE  /\ Ascending(q) => Ascending(Unchunked(q))
           /\ Ascending(q) => \A i \in IdsOf(ChunkOf(q)), j \in IdsOf(Unchunked(q)) : i < j
           /\ Distinct(q) => Distinct(Unchunked(q)) /\ IdsOf(ChunkOf(q)) \cap IdsOf(Unchunked(q)) = {}
           /\ ToSet(Unchunked(q)) \subseteq ToSet(q)
           /\ IdsOf(q) = IdsOf(ChunkOf(q)) \cup IdsOf(Unchunked(q))
<1> DEFINE n == ChunkLen(q)
           c == ChunkOf(q)
           u == Unchunked(q)
<1>1. n \in 0..Len(q) /\ Len(q) \in Nat /\ n \in Nat
  BY Constants DEF ChunkLen
<1>2. c \in Seq(Item) /\ u \in Seq(Item) /\ Len(c) = n /\ ToSet(q) = ToSet(c) \cup ToSet(u)
  BY <1>1, ChunkSplits, ToSetSplit DEF ChunkOf
<1>3. u = SubSeq(q, n + 1, Len(q)) /\ Len(u) = Len(q) - n
  BY <1>1, <1>2, ToSetSplit DEF Unchunked
<1>4. \A p \in 1..n : c[p] = q[p] /\ p \in 1..Len(q)
  BY <1>1 DEF ChunkOf
<1>5. \A p \in 1..Len(u) : u[p] = q[n + p] /\ n + p \in 1..Len(q)
  BY <1>1, <1>3
<1>6. IdsOf(q) = IdsOf(c) \cup IdsOf(u)
  BY <1>2, IdsOfUnion
<1> HIDE DEF n, c, u
<1>7. ASSUME NEW p \in 1..Len(u), NEW r \in 1..Len(u), p < r
      PROVE  /\ n + p \in 1..Len(q) /\ n + r \in 1..Len(q) /\ n + p < n + r
             /\ u[p] = q[n + p] /\ u[r] = q[n + r]
  BY <1>1, <1>5, <1>7
<1>8. (Ascending(q) => Ascending(u)) /\ (Distinct(q) => Distinct(u))
  <2>1. ASSUME Ascending(q), NEW p \in 1..Len(u), NEW r \in 1..Len(u), p < r,
               u[p] \notin Requests, u[r] \notin Requests
        PROVE  u[p].id < u[r].id
    BY <1>7, <2>1 DEF Ascending
  <2>2. ASSUME Distinct(q), NEW p \in 1..Len(u), NEW r \in 1..Len(u), p < r,
               u[p] \notin Requests, u[r] \notin Requests
        PROVE  u[p].id # u[r].id
    BY <1>7, <2>2 DEF Distinct
  <2>3. Ascending(q) => Ascending(u)
    BY <2>1 DEF Ascending
  <2>4. Distinct(q) => Distinct(u)
    BY <2>2 DEF Distinct
  <2> QED BY <2>3, <2>4
<1>9. ASSUME NEW i \in IdsOf(c), NEW j \in IdsOf(u)
      PROVE  (Ascending(q) => i < j) /\ (Distinct(q) => i # j)
  <2>1. PICK p \in 1..Len(c) : c[p] \notin Requests /\ c[p].id = i
    BY <1>2, <1>9, IdAt
  <2>2. PICK r \in 1..Len(u) : u[r] \notin Requests /\ u[r].id = j
    BY <1>2, <1>9, IdAt
  <2>3. p \in 1..n /\ c[p] = q[p] /\ u[r] = q[n + r] /\ p < n + r /\ p \in 1..Len(q) /\ n + r \in 1..Len(q)
    BY <1>1, <1>2, <1>3, <1>4, <1>5
  <2> QED BY <2>1, <2>2, <2>3 DEF Ascending, Distinct
<1>10. Distinct(q) => IdsOf(c) \cap IdsOf(u) = {}
  BY <1>9
<1> QED BY <1>2, <1>6, <1>8, <1>9, <1>10 DEF c, u
-----------------------------------------------------------------------------
(* The disk buffer takes in what it is given, and nothing else *)

LEMMA SameWal ==
    ASSUME UNCHANGED log, UNCHANGED uncommitted \/ uncommitted' = <<>>
    PROVE  InWal' \subseteq InWal
BY NoFrames, IdsOfAllPrimed DEF InWal

LEMMA AppendAdds ==
    ASSUME WalShapes, NEW f \in Batches,
           AppendFails(f) \/ \E k \in 0..Len(log) : StoreInPlaceOf(k, f)
    PROVE  InWal' \subseteq InWal \cup IdsOf(f)
<1>1. CASE UNCHANGED walVars
  BY <1>1, SameWal DEF walVars
<1>2. ASSUME NEW k \in 0..Len(log), StoreInPlaceOf(k, f) PROVE InWal' \subseteq InWal \cup IdsOf(f)
  BY <1>2, StoreKeeps DEF InWal
<1>3. ASSUME NEW k \in 0..Len(log), EvictFor(k, f) \/ TearFor(k, f) PROVE InWal' \subseteq InWal \cup IdsOf(f)
  BY <1>3, EvictKeeps DEF InWal
<1> QED BY <1>1, <1>2, <1>3 DEF AppendFails
-----------------------------------------------------------------------------
(* The invariant *)

QueuesOrdered ==
    \A k \in Kinds :
        /\ Distinct(queues[k]) /\ (k # "metrics" => Ascending(queues[k]))
        /\ \A m \in ToSet(queues[k]) : m.kind = k

Apart ==
    /\ \A k, j \in Kinds : k # j => IdsOf(queues[k]) \cap IdsOf(queues[j]) = {}
    /\ InChannel \cap InQueues = {}
    /\ InWal \cap (InChannel \cup InQueues) = {}
    /\ InWal \subseteq 1..items

\* The channel is ahead of the queues its entries will join.
Ahead ==
    \A m \in ToSet(channel) : m \notin Requests /\ m.kind # "metrics" =>
        \A i \in IdsOf(queues[m.kind]) : i < m.id

Ordered == Ascending(channel) /\ QueuesOrdered /\ Apart /\ Ahead

LEMMA QueueIdsPrimed == \A k : IdsOf(queues[k])' = IdsOf(queues'[k])
BY DEF IdsOf

LEMMA OrderedPrimed ==
    /\ Ascending(channel') => Ascending(channel)'
    /\ (\A k \in Kinds :
           /\ Distinct(queues'[k]) /\ (k # "metrics" => Ascending(queues'[k]))
           /\ \A m \in ToSet(queues'[k]) : m.kind = k) => QueuesOrdered'
    /\ (/\ \A k, j \in Kinds : k # j => IdsOf(queues'[k]) \cap IdsOf(queues'[j]) = {}
        /\ InChannel' \cap InQueues' = {}
        /\ InWal' \cap (InChannel' \cup InQueues') = {}
        /\ InWal' \subseteq 1..items') => Apart'
    /\ (\A m \in ToSet(channel') : m \notin Requests /\ m.kind # "metrics" =>
           \A i \in IdsOf(queues'[m.kind]) : i < m.id) => Ahead'
<1>1. Ascending(channel') => Ascending(channel)'
  BY DEF Ascending
<1>2. (\A k \in Kinds :
           /\ Distinct(queues'[k]) /\ (k # "metrics" => Ascending(queues'[k]))
           /\ \A m \in ToSet(queues'[k]) : m.kind = k) => QueuesOrdered'
  BY DEF QueuesOrdered, Ascending, Distinct, ToSet
<1>3. (/\ \A k, j \in Kinds : k # j => IdsOf(queues'[k]) \cap IdsOf(queues'[j]) = {}
       /\ InChannel' \cap InQueues' = {}
       /\ InWal' \cap (InChannel' \cup InQueues') = {}
       /\ InWal' \subseteq 1..items') => Apart'
  BY QueueIdsPrimed DEF Apart
<1>4. (\A m \in ToSet(channel') : m \notin Requests /\ m.kind # "metrics" =>
           \A i \in IdsOf(queues'[m.kind]) : i < m.id) => Ahead'
  BY DEF Ahead, IdsOf, ToSet
<1> QED BY <1>1, <1>2, <1>3, <1>4

LEMMA SameOrder ==
    ASSUME Ordered, UNCHANGED <<channel, queues, items>>, InWal' \subseteq InWal
    PROVE  Ordered'
<1>1. InChannel' = InChannel /\ InQueues' = InQueues
  BY Unmoved
<1>2. Ascending(channel)' /\ QueuesOrdered' /\ Ahead'
  BY OrderedPrimed DEF Ordered, QueuesOrdered, Ahead
<1>3. Apart'
  BY <1>1, OrderedPrimed DEF Ordered, Apart
<1> QED BY <1>2, <1>3 DEF Ordered

LEMMA NoQueues ==
    ASSUME Shapes, Ordered, channel' = channel \/ channel' = <<>>, queues' = [k \in Kinds |-> <<>>],
           items' = items, InWal' \subseteq InWal
    PROVE  Ordered'
<1>1. InQueues' = {} /\ InChannel' \subseteq InChannel
  BY EmptyQueuesIds, NothingIds DEF InChannel, IdsOf
<1>2. \A k \in Kinds : queues'[k] = <<>> /\ IdsOf(queues'[k]) = {} /\ ToSet(queues'[k]) = {}
  BY NothingIds, ToSetEmpty
<1>3. Ascending(channel)'
  BY EmptyOrdered, OrderedPrimed DEF Ordered
<1>4. QueuesOrdered'
  BY <1>2, EmptyOrdered, OrderedPrimed
<1>5. Apart'
  BY <1>1, <1>2, OrderedPrimed DEF Ordered, Apart
<1>6. Ahead'
  <2>1. ASSUME NEW m \in ToSet(channel'), m \notin Requests, m.kind # "metrics"
        PROVE  \A i \in IdsOf(queues'[m.kind]) : i < m.id
    <3>1. m \in ToSet(channel)
      BY <2>1, ToSetEmpty
    <3>2. m \in Message
      BY <3>1, ToSetOf DEF Shapes
    <3>3. m.kind \in Kinds
      BY <2>1, <3>2 DEF Message, Item
    <3> QED BY <1>2, <3>3
  <2> QED BY <2>1, OrderedPrimed
<1> QED BY <1>3, <1>4, <1>5, <1>6 DEF Ordered

\* A chunk leaves its queue, for good or for the disk buffer.
LEMMA ChunkGone ==
    ASSUME Shapes, Ordered, NEW k \in Kinds, queues' = [queues EXCEPT ![k] = Unchunked(@)],
           UNCHANGED <<channel, items>>, InChannel \cup InQueues \subseteq 1..items,
           InWal' \subseteq InWal \cup IdsOf(ChunkOf(queues[k]))
    PROVE  Ordered'
<1> DEFINE c == ChunkOf(queues[k])
           u == Unchunked(queues[k])
<1>1. queues[k] \in Seq(Item) /\ \A j \in Kinds : queues'[j] = IF j = k THEN u ELSE queues[j]
  BY DEF Shapes
<1>2. /\ Distinct(u) /\ (k # "metrics" => Ascending(u))
      /\ ToSet(u) \subseteq ToSet(queues[k])
      /\ IdsOf(queues[k]) = IdsOf(c) \cup IdsOf(u) /\ IdsOf(c) \cap IdsOf(u) = {}
  BY <1>1, ChunkOrdered DEF Ordered, QueuesOrdered
<1> HIDE DEF c, u
<1>3. InChannel' = InChannel
  BY Unmoved
<1>4. \A j \in Kinds : IdsOf(queues'[j]) \subseteq IdsOf(queues[j]) /\ IdsOf(queues'[j]) \cap IdsOf(c) = {}
  BY <1>1, <1>2 DEF Ordered, Apart
<1>5. InQueues' \subseteq InQueues /\ InQueues' \cap IdsOf(c) = {} /\ IdsOf(c) \subseteq InQueues
  BY <1>2, <1>4, QueueIdsPrimed, InSomeQueue
<1>6. InWal' \subseteq InWal \cup IdsOf(c)
  BY DEF c
<1>7. QueuesOrdered'
  BY <1>1, <1>2, OrderedPrimed DEF Ordered, QueuesOrdered
<1>8. Apart'
  <2>1. \A i, j \in Kinds : i # j => IdsOf(queues'[i]) \cap IdsOf(queues'[j]) = {}
    BY <1>4 DEF Ordered, Apart
  <2>2. InChannel' \cap InQueues' = {}
    BY <1>3, <1>5 DEF Ordered, Apart
  <2>3. InWal' \cap (InChannel' \cup InQueues') = {}
    BY <1>3, <1>5, <1>6 DEF Ordered, Apart
  <2>4. InWal' \subseteq 1..items'
    BY <1>5, <1>6 DEF Ordered, Apart
  <2> QED BY <2>1, <2>2, <2>3, <2>4, OrderedPrimed
<1>9. Ahead'
  <2>1. ASSUME NEW m \in ToSet(channel), m \notin Requests PROVE m.kind \in Kinds
    BY <2>1, ToSetOf DEF Shapes, Message, Item
  <2> QED BY <1>4, <2>1, OrderedPrimed DEF Ordered, Ahead
<1>10. Ascending(channel)'
  BY OrderedPrimed DEF Ordered
<1> QED BY <1>7, <1>8, <1>9, <1>10 DEF Ordered

LEMMA AbsorbOrdered ==
    ASSUME Shapes, Ordered, channel # <<>>, Absorb(Head(channel)), channel' = Tail(channel),
           UNCHANGED <<items, log, uncommitted>>
    PROVE  Ordered'
<1> DEFINE h == Head(channel)
<1>1. /\ ToSet(channel) = {h} \cup ToSet(channel') /\ Ascending(channel')
      /\ h \notin Requests => \A i \in IdsOf(channel') : h.id < i
  BY TailOrdered, ToSetHeadTail DEF Ordered, Shapes
<1>2. /\ (InChannel \cup InQueues)' = InChannel \cup InQueues /\ InChannel' \subseteq InChannel
      /\ InWal' \subseteq InWal /\ InChannel' = IdsOf(channel')
  BY AbsorbIds, SameWal DEF InChannel, IdsOf
<1>3. CASE h \in Requests
  <2>1. queues' = queues
    BY <1>3 DEF Absorb
  <2>2. InQueues' = InQueues
    BY <2>1, Unmoved
  <2>3. QueuesOrdered' /\ Apart' /\ Ahead'
    BY <1>1, <1>2, <2>1, <2>2, OrderedPrimed DEF Ordered, QueuesOrdered, Apart, Ahead
  <2> QED BY <1>1, <2>3, OrderedPrimed DEF Ordered
<1>4. CASE h \notin Requests
  <2> DEFINE l == h.kind
  <2>1. h \in Item /\ l \in Kinds /\ InChannel = {h.id} \cup IdsOf(Tail(channel)) /\ h \in ToSet(channel)
    BY <1>1, <1>4, ChannelIds DEF Item
  <2>2. /\ \A k \in Kinds : queues[k] \in Seq(Item)
        /\ \A k \in Kinds : queues'[k] = IF k = l THEN Append(queues[k], h) ELSE queues[k]
    BY <1>4, <2>1 DEF Absorb, Shapes
  <2>3. /\ IdsOf(queues'[l]) = IdsOf(queues[l]) \cup {h.id}
        /\ ToSet(queues'[l]) = ToSet(queues[l]) \cup {h}
    <3>1. queues'[l] = Append(queues[l], h) /\ queues[l] \in Seq(Item)
      BY <2>1, <2>2
    <3>2. IdsOf(Append(queues[l], h)) = IdsOf(queues[l]) \cup {h.id}
      BY <2>1, QueueIds
    <3>3. ToSet(Append(queues[l], h)) = ToSet(queues[l]) \cup {h}
      BY <2>1, <3>1, ToSetAppend
    <3> QED BY <3>1, <3>2, <3>3
  <2>4. h.id \notin InQueues /\ \A k \in Kinds : h.id \notin IdsOf(queues[k])
    BY <2>1, InSomeQueue DEF Ordered, Apart
  <2>5. l # "metrics" => \A i \in IdsOf(queues[l]) : i < h.id
    BY <1>4, <2>1 DEF Ordered, Ahead
  <2>6. Distinct(queues'[l]) /\ (l # "metrics" => Ascending(queues'[l]))
    BY <2>1, <2>2, <2>4, <2>5, AppendOrdered DEF Ordered, QueuesOrdered
  <2>7. QueuesOrdered'
    BY <2>1, <2>2, <2>3, <2>6, OrderedPrimed DEF Ordered, QueuesOrdered
  <2>8. InQueues' = InQueues \cup {h.id}
    BY <2>1, <2>2, <2>3, QueueIdsPrimed, InSomeQueue
  <2>9. \A i \in IdsOf(channel') : h.id < i /\ i \in InChannel
    BY <1>1, <1>2, <1>4
  <2>10. h.id \notin InChannel'
    <3>1. h.id \in Nat
      BY <2>1, Constants DEF Item, Ids
    <3> QED BY <1>2, <2>9, <3>1
  <2>11. Apart'
    <3>1. ASSUME NEW i \in Kinds, NEW j \in Kinds, i # j
          PROVE  IdsOf(queues'[i]) \cap IdsOf(queues'[j]) = {}
      <4>1. IdsOf(queues[i]) \cap IdsOf(queues[j]) = {}
        BY <3>1 DEF Ordered, Apart
      <4>2. \A k \in Kinds : k # l => IdsOf(queues'[k]) = IdsOf(queues[k])
        BY <2>2
      <4> QED BY <2>3, <2>4, <3>1, <4>1, <4>2
    <3>2. InChannel' \cap InQueues' = {}
      BY <1>2, <2>8, <2>10 DEF Ordered, Apart
    <3> QED BY <1>2, <3>1, <3>2, OrderedPrimed DEF Ordered, Apart
  <2>12. Ahead'
    <3>1. ASSUME NEW m \in ToSet(channel'), m \notin Requests, m.kind # "metrics",
                 NEW i \in IdsOf(queues'[m.kind])
          PROVE  i < m.id
      <4>1. m \in ToSet(channel) /\ m.kind \in Kinds /\ m.id \in IdsOf(channel')
        <5>1. m \in Message
          BY <1>1, <3>1, ToSetOf DEF Shapes
        <5> QED BY <1>1, <3>1, <5>1 DEF Message, Item, IdsOf
      <4>2. CASE i \in IdsOf(queues[m.kind])
        BY <3>1, <4>1, <4>2 DEF Ordered, Ahead
      <4>3. CASE i \notin IdsOf(queues[m.kind])
        <5>1. i = h.id
          BY <2>2, <2>3, <3>1, <4>1, <4>3
        <5> QED BY <2>9, <4>1, <5>1
      <4> QED BY <4>2, <4>3
    <3> QED BY <3>1, OrderedPrimed
  <2> QED BY <1>1, <2>7, <2>11, <2>12, OrderedPrimed DEF Ordered
<1> QED BY <1>3, <1>4

LEMMA AllBelow ==
    ASSUME Shapes, Ordered, InChannel \cup InQueues \subseteq 1..items
    PROVE  /\ items \in Nat
           /\ \A i \in InChannel \cup InQueues \cup InWal : i < items + 1
           /\ \A k \in Kinds : \A i \in IdsOf(queues[k]) : i < items + 1
<1>1. items \in Nat
  BY DEF Shapes
<1>2. \A i \in InChannel \cup InQueues \cup InWal : i \in 1..items
  BY DEF Ordered, Apart
<1>3. \A i \in InChannel \cup InQueues \cup InWal : i < items + 1
  BY <1>1, <1>2
<1> QED BY <1>1, <1>3, InSomeQueue

LEMMA TrackOrdered ==
    ASSUME Shapes, Ordered, InChannel \cup InQueues \subseteq 1..items, NEW k \in Kinds,
           items < MaxItems, items' = items + 1,
           channel' = Append(channel, [kind |-> k, id |-> items + 1]),
           UNCHANGED <<queues, log, uncommitted>>
    PROVE  Ordered'
<1> DEFINE e == [kind |-> k, id |-> items + 1]
<1>1. e \in Item /\ e \in Message /\ e \notin Requests /\ e.id = items + 1 /\ e.kind = k
  BY NewItem, RequestAssumption DEF Message
<1>2. channel \in Seq(Message) /\ channel' = Append(channel, e)
  BY DEF Shapes
<1> HIDE DEF e
<1>3. Ascending(channel') /\ ToSet(channel') = ToSet(channel) \cup {e}
  <2>1. \A i \in IdsOf(channel) : i < e.id
    BY <1>1, AllBelow DEF InChannel
  <2> QED BY <1>1, <1>2, <2>1, AppendOrdered, ToSetAppend DEF Ordered
<1>4. InChannel' = InChannel \cup {items + 1} /\ InQueues' = InQueues /\ InWal' \subseteq InWal
  <2>1. IdsOf(Append(channel, e)) = InChannel \cup {e.id}
    BY <1>1, ChannelIds
  <2> QED BY <1>1, <1>2, <2>1, Unmoved, SameWal DEF InChannel, IdsOf
<1>5. QueuesOrdered'
  BY OrderedPrimed DEF Ordered, QueuesOrdered
<1>6. Apart'
  <2>1. \A i, j \in Kinds : i # j => IdsOf(queues'[i]) \cap IdsOf(queues'[j]) = {}
    BY DEF Ordered, Apart
  <2>2. items + 1 \notin InQueues \cup InWal /\ 1..items \subseteq 1..items'
    BY AllBelow
  <2> QED BY <1>4, <2>1, <2>2, OrderedPrimed DEF Ordered, Apart
<1>7. Ahead'
  BY <1>1, <1>3, AllBelow, OrderedPrimed DEF Ordered, Ahead
<1> QED BY <1>3, <1>5, <1>6, <1>7, OrderedPrimed DEF Ordered

LEMMA RequestOrdered ==
    ASSUME Shapes, Ordered, NEW r \in Requests, channel' = Append(channel, r),
           UNCHANGED <<items, queues, log, uncommitted>>
    PROVE  Ordered'
<1>1. r \in Message /\ channel \in Seq(Message)
  BY DEF Message, Shapes
<1>2. Ascending(channel') /\ ToSet(channel') = ToSet(channel) \cup {r}
  BY <1>1, AppendOrdered, ToSetAppend DEF Ordered
<1>3. InChannel' = InChannel /\ InQueues' = InQueues /\ InWal' \subseteq InWal
  BY ChannelIds, Unmoved, SameWal DEF InChannel, IdsOf
<1>4. QueuesOrdered' /\ Apart' /\ Ahead'
  <2>1. QueuesOrdered'
    BY OrderedPrimed DEF Ordered, QueuesOrdered
  <2>2. Apart'
    BY <1>3, OrderedPrimed DEF Ordered, Apart
  <2>3. Ahead'
    BY <1>2, OrderedPrimed DEF Ordered, Ahead
  <2> QED BY <2>1, <2>2, <2>3
<1> QED BY <1>2, <1>4, OrderedPrimed DEF Ordered

LEMMA SampleOrdered ==
    ASSUME Shapes, Ordered, InChannel \cup InQueues \subseteq 1..items,
           items < MaxItems, items' = items + 1,
           queues' = [queues EXCEPT !["metrics"] = Append(@, [kind |-> "metrics", id |-> items + 1])],
           UNCHANGED <<channel, log, uncommitted>>
    PROVE  Ordered'
<1> DEFINE e == [kind |-> "metrics", id |-> items + 1]
           q == queues["metrics"]
<1>1. "metrics" \in Kinds /\ e \in Item /\ e \notin Requests /\ e.id = items + 1 /\ e.kind = "metrics"
  BY Constants, NewItem, RequestAssumption
<1>2. /\ q \in Seq(Item)
      /\ \A k \in Kinds : queues'[k] = IF k = "metrics" THEN Append(q, e) ELSE queues[k]
  BY <1>1 DEF Shapes
<1> HIDE DEF e
<1>3. /\ \A k \in Kinds : \A i \in IdsOf(queues[k]) : i # items + 1
      /\ items + 1 \notin InChannel \cup InQueues \cup InWal /\ 1..items \subseteq 1..items'
  <2>1. items \in Nat /\ ~(items + 1 < items + 1) /\ 1..items \subseteq 1..items'
    BY AllBelow
  <2> QED BY <2>1, AllBelow
<1>4. IdsOf(Append(q, e)) = IdsOf(q) \cup {items + 1} /\ ToSet(Append(q, e)) = ToSet(q) \cup {e}
  <2>1. IdsOf(Append(q, e)) = IdsOf(q) \cup {e.id}
    BY <1>1, QueueIds
  <2> QED BY <1>1, <1>2, <2>1, ToSetAppend
<1>5. Distinct(Append(q, e))
  BY <1>1, <1>2, <1>3, AppendOrdered DEF Ordered, QueuesOrdered
<1>6. \A k \in Kinds : k # "metrics" => queues'[k] = queues[k] /\ IdsOf(queues'[k]) = IdsOf(queues[k])
  BY <1>2
<1>7. IdsOf(queues'["metrics"]) = IdsOf(q) \cup {items + 1}
  BY <1>1, <1>2, <1>4
<1> HIDE DEF q
<1>8. InQueues' = InQueues \cup {items + 1}
  BY <1>1, <1>6, <1>7, QueueIdsPrimed, InSomeQueue DEF q
<1>9. InChannel' = InChannel /\ InWal' \subseteq InWal
  BY Unmoved, SameWal
<1>10. QueuesOrdered'
  BY <1>1, <1>2, <1>4, <1>5, OrderedPrimed DEF Ordered, QueuesOrdered, q
<1>11. Apart'
  <2>1. ASSUME NEW i \in Kinds, NEW j \in Kinds, i # j
        PROVE  IdsOf(queues'[i]) \cap IdsOf(queues'[j]) = {}
    <3>1. IdsOf(queues[i]) \cap IdsOf(queues[j]) = {}
      BY <2>1 DEF Ordered, Apart
    <3> QED BY <1>3, <1>6, <1>7, <2>1, <3>1 DEF q
  <2>2. InChannel' \cap InQueues' = {}
    BY <1>3, <1>8, <1>9 DEF Ordered, Apart
  <2>3. InWal' \cap (InChannel' \cup InQueues') = {}
    BY <1>3, <1>8, <1>9 DEF Ordered, Apart
  <2>4. InWal' \subseteq 1..items'
    BY <1>3, <1>9 DEF Ordered, Apart
  <2> QED BY <2>1, <2>2, <2>3, <2>4, OrderedPrimed
<1>12. Ahead'
  <2>1. ASSUME NEW m \in ToSet(channel), m \notin Requests PROVE m.kind \in Kinds
    BY <2>1, ToSetOf DEF Shapes, Message, Item
  <2> QED BY <1>6, <2>1, OrderedPrimed DEF Ordered, Ahead
<1> QED BY <1>10, <1>11, <1>12, OrderedPrimed DEF Ordered

LEMMA VanishOrdered ==
    ASSUME Shapes, Ordered, Vanish, items' = items, InWal' \subseteq InWal
    PROVE  Ordered'
BY NoQueues DEF Vanish
-----------------------------------------------------------------------------
LEMMA OrderedStep ==
    Shapes /\ InChannel \cup InQueues \subseteq 1..items /\ Balanced /\ Ordered /\ [Next]_vars
      => Ordered'
<1> SUFFICES ASSUME Shapes, InChannel \cup InQueues \subseteq 1..items, Balanced, Ordered,
                    [Next]_vars
             PROVE  Ordered'
  OBVIOUS
<1>0. WalShapes /\ TrackKinds \subseteq Kinds
  BY Constants DEF Balanced
<1> USE <1>0
<1>1. CASE UNCHANGED vars
  BY <1>1, SameOrder, SameWal DEF vars
<1>2. ASSUME NEW k \in TrackKinds, Track(k) PROVE Ordered'
  BY <1>2, TrackOrdered DEF Track, workerVars, walVars
<1>3. ASSUME NEW r \in Requests, Call(r) PROVE Ordered'
  BY <1>3, SameOrder, SameWal DEF Call, clientVars, workerVars, walVars, Begin
<1>4. ASSUME NEW r \in Requests, SendControl(r) PROVE Ordered'
  BY <1>4, RequestOrdered DEF SendControl, workerVars, walVars
<1>5. ASSUME NEW r \in Requests, SendControlFails(r) PROVE Ordered'
  BY <1>5, SameOrder, SameWal DEF SendControlFails, clientVars, workerVars, walVars, Begin
<1>6. CASE DropClients
  BY <1>6, SameOrder, SameWal DEF DropClients, clientVars, workerVars, walVars, Begin
<1>7. CASE NewSender
  BY <1>7, SameOrder, SameWal DEF NewSender, clientVars, workerVars, walVars, Begin
<1>8. CASE NewTicks
  BY <1>8, SameOrder, SameWal DEF NewTicks, clientVars, workerVars, walVars, Begin
<1>9. CASE IntervalPanics
  <2>1. Vanish /\ items' = items /\ DropDiskBuffer
    BY <1>9 DEF IntervalPanics
  <2>2. InWal' \subseteq InWal
    BY <2>1, SameWal DEF DropDiskBuffer
  <2> QED BY <2>1, <2>2, VanishOrdered
<1>10. CASE TryRecv
  BY <1>10, AbsorbOrdered DEF TryRecv, walVars
<1>11. CASE Dispatch
  BY <1>11, SameOrder, SameWal DEF Dispatch, clientVars, workerVars, walVars, Begin
<1>12. CASE RecvFails
  BY <1>12, SameOrder, SameWal DEF RecvFails, clientVars, workerVars, walVars, Begin
<1>13. CASE EnterStage
  BY <1>13, SameOrder, SameWal DEF EnterStage, clientVars, workerVars, walVars, Begin
<1>14. CASE SkipStage
  BY <1>14, SameOrder, SameWal DEF SkipStage, clientVars, workerVars, walVars, Begin
<1>15. CASE EndStages
  BY <1>15, SameOrder, SameWal DEF EndStages, clientVars, workerVars, walVars, Begin
<1>16. CASE DrainNext
  <2>1. InWal' \subseteq InWal
    BY <1>16, TakeKeeps DEF DrainNext, InWal
  <2> QED BY <1>16, <2>1, SameOrder DEF DrainNext, clientVars
<1>17. CASE DrainEnds
  BY <1>17, SameOrder, SameWal DEF DrainEnds, clientVars, workerVars, walVars, Begin
<1>18. CASE CommitWal
  <2>1. log' \in LeftOf(log) /\ (uncommitted' = uncommitted \/ uncommitted' = <<>>)
    BY <1>18 DEF CommitWal
  <2>2. InWal' \subseteq InWal
    BY <2>1, LeftKeeps, NoFrames, IdsOfAllPrimed DEF InWal, WalShapes
  <2> QED BY <1>18, <2>2, SameOrder DEF CommitWal, clientVars
<1>19. CASE Chunk
  BY <1>19, SameOrder, SameWal DEF Chunk, clientVars, workerVars, walVars, Begin
<1>20. CASE ChunksEnd
  BY <1>20, SameOrder, SameWal DEF ChunksEnd, clientVars, workerVars, walVars, Begin
<1>21. CASE SendOk
  <2>1. UNCHANGED <<channel, items>> /\ InWal' \subseteq InWal
    BY <1>21, SameWal DEF SendOk, clientVars, walVars
  <2>2. CASE FromWal
    BY <1>21, <2>1, <2>2, SameOrder DEF SendOk
  <2>3. CASE ~FromWal
    BY <1>21, <2>1, <2>3, ChunkGone DEF SendOk, ChunkDone, FromWal, Balanced
  <2> QED BY <2>2, <2>3
<1>22. CASE PutBack
  <2>1. IdsOf(frame) \subseteq InWal /\ frame \in Batches
    BY <1>22 DEF PutBack, Balanced, Aloft, InWal
  <2>2. AppendFails(frame) \/ \E k \in 0..Len(log) : StoreInPlaceOf(k, frame)
    BY <1>22 DEF PutBack
  <2>3. InWal' \subseteq InWal
    BY <2>1, <2>2, AppendAdds
  <2> QED BY <1>22, <2>3, SameOrder DEF PutBack, clientVars
<1>23. CASE FallBack
  <2>1. frame \in Batches /\ Stage \in Kinds /\ frame = ChunkOf(queues[Stage])
    BY <1>23 DEF FallBack, FromWal, Balanced
  <2>2. InWal' \subseteq InWal \cup IdsOf(frame)
    BY <1>23, <2>1, AppendAdds DEF FallBack, AppendToWal
  <2> QED BY <1>23, <2>1, <2>2, ChunkGone DEF FallBack, ChunkDone, clientVars
<1>24. CASE Retry
  BY <1>24, SameOrder, SameWal DEF Retry, clientVars, workerVars, walVars, Begin
<1>25. CASE GiveUp
  <2>1. UNCHANGED <<channel, items>> /\ InWal' \subseteq InWal /\ Stage \in Kinds
    BY <1>25, SameWal DEF GiveUp, FromWal, Balanced, clientVars, walVars
  <2> QED BY <1>25, <2>1, ChunkGone DEF GiveUp, ChunkDone
<1>26. CASE ShutdownTimeout
  <2>1. UNCHANGED <<channel, items>> /\ InWal' \subseteq InWal
    BY <1>26, SameWal DEF ShutdownTimeout, clientVars, walVars
  <2> QED BY <1>26, <2>1, SameOrder, NoQueues DEF ShutdownTimeout
<1>27. ASSUME NEW k \in Kinds, SaveChunk(k) PROVE Ordered'
  <2>1. ChunkOf(queues[k]) \in Batches
    BY ChunkSplits DEF Shapes
  <2>2. InWal' \subseteq InWal \cup IdsOf(ChunkOf(queues[k]))
    BY <1>27, <2>1, AppendAdds DEF SaveChunk, AppendToWal
  <2> QED BY <1>27, <2>2, ChunkGone DEF SaveChunk, clientVars
<1>28. CASE SaveEnds
  BY <1>28, SameOrder, SameWal DEF SaveEnds, clientVars, workerVars, walVars, Begin
<1>29. CASE CloseAcks
  BY <1>29, SameOrder, SameWal DEF CloseAcks, clientVars, workerVars, walVars, Begin
<1>30. CASE Exit
  <2>1. Vanish /\ items' = items /\ DropDiskBuffer
    BY <1>30 DEF Exit
  <2>2. InWal' \subseteq InWal
    BY <2>1, SameWal DEF DropDiskBuffer
  <2> QED BY <2>1, <2>2, VanishOrdered
<1>31. CASE Recv
  BY <1>31, AbsorbOrdered DEF Recv, walVars
<1>32. CASE FlushTick
  BY <1>32, SameOrder, SameWal DEF FlushTick, clientVars, workerVars, walVars, Begin
<1>33. CASE SampleTick
  BY <1>33, SameOrder, SameWal DEF SampleTick, clientVars, walVars
<1>34. CASE RuntimeDropped
  <2>1. Vanish /\ items' = items /\ DropDiskBuffer
    BY <1>34 DEF RuntimeDropped
  <2>2. InWal' \subseteq InWal
    BY <2>1, SameWal DEF DropDiskBuffer
  <2> QED BY <2>1, <2>2, VanishOrdered
<1>35. CASE Restart
  <2>1. InWal' \subseteq InWal
    BY <1>35, RestartKeeps DEF InWal
  <2> QED BY <1>35, <2>1, VanishOrdered DEF Restart
<1>36. ASSUME NEW r \in Requests, SendControlRefused(r) PROVE Ordered'
  BY <1>36, SameOrder, SameWal DEF SendControlRefused, workerVars, walVars
<1>37. CASE SamplePoint
  BY <1>37, SampleOrdered DEF SamplePoint, walVars
<1>38. CASE SampleEnds
  BY <1>38, SameOrder, SameWal DEF SampleEnds, clientVars, walVars
<1>39. CASE DrainMisreads
  <2>1. PICK k \in 0..Len(log) : log' = Wal!Rest(log, k) /\ uncommitted' = uncommitted \o SubSeq(log, 1, k)
    BY <1>39 DEF DrainMisreads
  <2>2. InWal' \subseteq InWal
    BY <2>1, RestKeeps, TakenKeeps, IdsOfAllPrimed DEF InWal
  <2> QED BY <1>39, <2>2, SameOrder DEF DrainMisreads, clientVars
<1>40. CASE DrainFails
  <2>1. IdsOfAll(log)' = IdsOfAll(log) /\ IdsOfAll(uncommitted)' = IdsOfAll(uncommitted)
    BY <1>40, AstrayKeeps, Unmoved DEF DrainFails
  <2> QED BY <1>40, <2>1, SameOrder DEF DrainFails, clientVars, InWal
<1>41. CASE DrainResets
  <2>1. PICK k \in 0..Len(log) :
            log' = Wal!Rest(log, k) /\ (uncommitted' = <<>> \/ uncommitted' = uncommitted \o SubSeq(log, 1, k))
    BY <1>41 DEF DrainResets
  <2>2. InWal' \subseteq InWal
    BY <2>1, RestKeeps, TakenKeeps, NoFrames, IdsOfAllPrimed DEF InWal
  <2> QED BY <1>41, <2>2, SameOrder DEF DrainResets, clientVars
<1> QED
  BY <1>1, <1>2, <1>3, <1>4, <1>5, <1>6, <1>7, <1>8, <1>9, <1>10, <1>11, <1>12, <1>13, <1>14,
       <1>15, <1>16, <1>17, <1>18, <1>19, <1>20, <1>21, <1>22, <1>23, <1>24, <1>25, <1>26, <1>27,
       <1>28, <1>29, <1>30, <1>31, <1>32, <1>33, <1>34, <1>35,
       <1>36, <1>37, <1>38, <1>39, <1>40, <1>41
     DEF Next, ClientStep, WorkerStep, SampleStep, FlushStep, SendStep, EndStep

LEMMA InitOrdered == Init => Ordered
<1> SUFFICES ASSUME Init PROVE Ordered
  OBVIOUS
<1>1. channel = <<>> /\ (\A k \in Kinds : queues[k] = <<>>) /\ log = <<>> /\ uncommitted = <<>>
  BY DEF Init
<1>2. /\ ToSet(channel) = {} /\ InChannel = {} /\ InQueues = {} /\ InWal = {}
      /\ \A k \in Kinds : IdsOf(queues[k]) = {} /\ ToSet(queues[k]) = {}
  BY <1>1, ToSetEmpty, NothingIds, EmptyQueuesIds, NoFrames DEF InChannel, InWal
<1> QED BY <1>1, <1>2, EmptyOrdered DEF Ordered, QueuesOrdered, Apart, Ahead

LEMMA OrderInvariance == Spec => [](WorkerInv /\ Ordered)
<1>1. Init => WorkerInv /\ Ordered
  BY InitInv, InitOrdered
<1>2. (WorkerInv /\ Ordered) /\ [Next]_vars => (WorkerInv /\ Ordered)'
  BY NextInv, OrderedStep DEF WorkerInv, MemoryInv, Fifo
<1> QED BY <1>1, <1>2, PTL DEF Spec

\* Only a frame sent with Ok counts as received.
LEMMA OnlySendOkReceives ==
    ASSUME [Next]_vars
    PROVE  SendOk \/ received' = received
BY DEF Next, ClientStep, WorkerStep, SampleStep, FlushStep, SendStep, EndStep, ghosts, vars, Call, Chunk,
       ChunksEnd, CloseAcks, CommitWal, Dispatch, DrainEnds, DrainFails, DrainMisreads, DrainNext,
       DrainResets, DropClients, EndStages,
       EnterStage, Exit, FallBack, FlushTick, GiveUp, IntervalPanics, NewSender, NewTicks, PutBack,
       Recv, RecvFails, Restart, Retry, RuntimeDropped, SampleEnds, SamplePoint, SampleTick, SaveChunk, SaveEnds,
       SendControl, SendControlFails, SendControlRefused, ShutdownTimeout, SkipStage, Track, TryRecv

LEMMA SentInOrder ==
    ASSUME WorkerInv, Ordered, SendOk, NEW k \in Kinds \ {"metrics"}, NEW i \in IdsOf(queues[k]),
           received'[i] > received[i], NEW j \in Waiting(k)'
    PROVE  j > i
<1>1. /\ Shapes /\ Balanced /\ InChannel \cup InQueues \subseteq 1..items
      /\ queues[k] \in Seq(Item) /\ k # "metrics" /\ k \in Kinds
  BY DEF WorkerInv, MemoryInv, Shapes, Fifo
<1>2. i \in Ids /\ i \in InQueues
  <2>1. i \in InQueues
    BY <1>1, InSomeQueue
  <2> QED BY <1>1, <2>1, SeqIds
<1>3. i \in IdsOf(frame)
  <2>1. received[i] \in Nat /\ received'[i] = IF i \in IdsOf(frame) THEN received[i] + 1 ELSE received[i]
    BY <1>1, <1>2 DEF SendOk, Balanced
  <2> QED BY <2>1
<1>4. ~FromWal
  <2> SUFFICES ASSUME FromWal PROVE FALSE
    OBVIOUS
  <2>1. i \in InWal
    BY <1>1, <1>3 DEF SendOk, Balanced, Aloft, InWal
  <2> QED BY <1>2, <2>1 DEF Ordered, Apart
<1>5. Stage = k /\ frame = ChunkOf(queues[k])
  <2>1. Stage \in Kinds /\ frame = ChunkOf(queues[Stage])
    BY <1>1, <1>4 DEF SendOk, Balanced, FromWal
  <2>2. i \in IdsOf(queues[Stage])
    BY <1>1, <1>3, <2>1, QueueIds
  <2> QED BY <1>1, <2>1, <2>2 DEF Ordered, Apart
<1>6. channel' = channel /\ queues'[k] = Unchunked(queues[k])
  BY <1>1, <1>4, <1>5 DEF SendOk, ChunkDone, clientVars, Shapes
<1>7. PICK m \in ToSet(channel) \cup ToSet(Unchunked(queues[k])) :
         m \notin Requests /\ m.kind = k /\ m.id = j
  <2>1. Unchunked(queues[k]) \in Seq(Message) /\ channel \in Seq(Message)
    BY <1>1, ChunkSplits DEF Shapes, Message
  <2>2. ToSet(channel \o Unchunked(queues[k])) = ToSet(channel) \cup ToSet(Unchunked(queues[k]))
    BY <2>1, ToSetConcat
  <2>3. Waiting(k)' = {n.id : n \in {o \in ToSet(channel' \o queues'[k]) : o \notin Requests /\ o.kind = k}}
    BY DEF Waiting, ToSet
  <2> QED BY <1>6, <2>2, <2>3
<1>8. i < j
  <2>1. CASE m \in ToSet(channel)
    BY <1>1, <1>7, <2>1 DEF Ordered, Ahead
  <2>2. CASE m \in ToSet(Unchunked(queues[k]))
    <3>1. j \in IdsOf(Unchunked(queues[k]))
      BY <1>7, <2>2 DEF IdsOf
    <3> QED BY <1>1, <1>3, <1>5, <3>1, ChunkOrdered DEF Ordered, QueuesOrdered
  <2> QED BY <1>7, <2>1, <2>2
<1>9. j \in Nat
  <2>1. m \in Message
    <3>1. ToSet(channel) \subseteq Message
      BY <1>1, ToSetOf DEF Shapes
    <3>2. ToSet(Unchunked(queues[k])) \subseteq Item
      BY <1>1, ChunkSplits, ToSetOf
    <3> QED BY <3>1, <3>2 DEF Message
  <2> QED BY <1>7, <2>1 DEF Message, Item, Ids
<1> QED BY <1>2, <1>8, <1>9 DEF Ids

\* Whatever was retried, put back on disk, given up, cut off by a deadline or
\* lost in a crash: when flush_queue gets a batch out, no older entry of the
\* kind is left behind in the queue or in the channel.
THEOREM QueuesKeepOrder == Spec => KindsStayInOrder
<1> DEFINE InOrder == \A k \in Kinds \ {"metrics"} : \A i \in IdsOf(queues[k]) :
                         received'[i] > received[i] => \A j \in Waiting(k)' : j > i
<1>1. (WorkerInv /\ Ordered) /\ [Next]_vars => [InOrder]_vars
  <2> SUFFICES ASSUME WorkerInv, Ordered, [Next]_vars PROVE InOrder
    OBVIOUS
  <2>1. CASE SendOk
    BY <2>1, SentInOrder
  <2>2. CASE received' = received
    <3>1. \A k \in Kinds : \A i \in IdsOf(queues[k]) : received[i] \in Nat
      BY InSomeQueue, SeqIds DEF WorkerInv, MemoryInv, Balanced
    <3> QED BY <2>2, <3>1
  <2> QED BY <2>1, <2>2, OnlySendOkReceives
<1>2. [][InOrder]_vars => KindsStayInOrder
  BY PTL DEF KindsStayInOrder
<1> QED BY <1>1, <1>2, OrderInvariance, PTL DEF Spec

(* How often an entry is sent *)

\* The frames of a sequence that hold an entry.
Holding(i, fs) == {n \in 1..Len(fs) : i \in IdsOf(fs[n])}
Copies(i, fs)  == Cardinality(Holding(i, fs))
Once(i, ids)   == IF i \in ids THEN 1 ELSE 0

LEMMA CopiesNat ==
    ASSUME NEW S, NEW fs \in Seq(S), NEW i
    PROVE  Copies(i, fs) \in Nat /\ IsFiniteSet(Holding(i, fs))
<1>1. IsFiniteSet(1..Len(fs)) /\ Holding(i, fs) \subseteq 1..Len(fs)
  BY LenProperties, FS_Interval DEF Holding
<1> QED BY <1>1, FS_Subset, FS_CardinalityType DEF Copies

LEMMA Shifted ==
    ASSUME NEW T, T \subseteq Nat, IsFiniteSet(T), NEW c \in Nat
    PROVE  LET U == {c + n : n \in T}
           IN  IsFiniteSet(U) /\ Cardinality(U) = Cardinality(T)
<1> DEFINE U == {c + n : n \in T}
           f == [n \in T |-> c + n]
<1>1. f \in Bijection(T, U)
  <2>1. f \in [T -> U] /\ (\A u \in U : \E n \in T : f[n] = u)
    OBVIOUS
  <2>2. \A n, m \in T : f[n] = f[m] => n = m
    OBVIOUS
  <2> HIDE DEF f, U
  <2> QED BY <2>1, <2>2 DEF Bijection, Injection, Surjection, IsInjective
<1>2. ExistsBijection(T, U)
  BY <1>1 DEF ExistsBijection
<1> HIDE DEF U
<1>3. IsFiniteSet(U) /\ Cardinality(U) = Cardinality(T)
  BY <1>2, FS_Bijection
<1> QED BY <1>3 DEF U

LEMMA CopiesConcat ==
    ASSUME NEW S, NEW s \in Seq(S), NEW t \in Seq(S), NEW i
    PROVE  Copies(i, s \o t) = Copies(i, s) + Copies(i, t)
<1> DEFINE P == Holding(i, s)
           Q == {Len(s) + n : n \in Holding(i, t)}
<1>1. Len(s) \in Nat /\ Len(t) \in Nat /\ Len(s \o t) = Len(s) + Len(t)
  BY ConcatProperties, LenProperties
<1>2. /\ \A n \in 1..Len(s) : (s \o t)[n] = s[n]
      /\ \A n \in 1..Len(t) : (s \o t)[Len(s) + n] = t[n]
  BY <1>1, ConcatProperties
<1>3. P \subseteq Holding(i, s \o t) /\ Q \subseteq Holding(i, s \o t)
  <2>1. ASSUME NEW n \in P PROVE n \in Holding(i, s \o t)
    BY <1>1, <1>2 DEF Holding
  <2>2. ASSUME NEW n \in Holding(i, t) PROVE Len(s) + n \in Holding(i, s \o t)
    <3>1. n \in 1..Len(t) /\ i \in IdsOf(t[n]) /\ Len(s) + n \in 1..Len(s \o t)
      BY <1>1 DEF Holding
    <3> QED BY <3>1, <1>2 DEF Holding
  <2> QED BY <2>1, <2>2
<1>4. Holding(i, s \o t) \subseteq P \cup Q
  <2> SUFFICES ASSUME NEW n \in Holding(i, s \o t), n \notin P PROVE n \in Q
    OBVIOUS
  <2>1. n \in 1..(Len(s) + Len(t)) /\ i \in IdsOf((s \o t)[n])
    BY <1>1 DEF Holding
  <2>2. n \notin 1..Len(s)
    BY <1>2, <2>1 DEF Holding
  <2>3. PICK m \in 1..Len(t) : n = Len(s) + m
    <3>1. n - Len(s) \in 1..Len(t) /\ n = Len(s) + (n - Len(s))
      BY <1>1, <2>1, <2>2
    <3> QED BY <3>1
  <2>4. m \in Holding(i, t)
    BY <1>2, <2>1, <2>3 DEF Holding
  <2> QED BY <2>3, <2>4
<1>5. P \cap Q = {}
  BY <1>1 DEF Holding
<1>6. Holding(i, s \o t) = P \cup Q
  BY <1>3, <1>4
<1>7. /\ IsFiniteSet(P) /\ IsFiniteSet(Holding(i, t)) /\ Holding(i, t) \subseteq Nat
  <2>1. Holding(i, t) \subseteq Nat
    BY <1>1 DEF Holding
  <2> QED BY <2>1, CopiesNat
<1>8. IsFiniteSet(Q) /\ Cardinality(Q) = Copies(i, t)
  BY <1>1, <1>7, Shifted DEF Copies
<1> HIDE DEF Q
<1>9. Cardinality(P \cup Q) = Cardinality(P) + Cardinality(Q) - Cardinality(P \cap Q)
  BY <1>7, <1>8, FS_Union
<1>10. Cardinality(P \cap Q) = 0
  BY <1>5, FS_EmptySet
<1>11. Cardinality(P) \in Nat /\ Cardinality(Q) \in Nat
  BY <1>7, <1>8, FS_CardinalityType
<1> QED BY <1>6, <1>8, <1>9, <1>10, <1>11 DEF Copies

LEMMA CopiesOfOne ==
    /\ \A i : Copies(i, <<>>) = 0
    /\ \A i, f : Copies(i, <<f>>) = Once(i, IdsOf(f))
<1>1. ASSUME NEW i PROVE Copies(i, <<>>) = 0
  <2>1. Holding(i, <<>>) = {}
    BY DEF Holding
  <2> QED BY <2>1, FS_EmptySet DEF Copies
<1>2. ASSUME NEW i, NEW f PROVE Copies(i, <<f>>) = Once(i, IdsOf(f))
  <2>1. Len(<<f>>) = 1 /\ <<f>>[1] = f
    OBVIOUS
  <2>2. Holding(i, <<f>>) = IF i \in IdsOf(f) THEN {1} ELSE {}
    BY <2>1 DEF Holding
  <2> QED BY <2>2, FS_EmptySet, FS_Singleton DEF Copies, Once
<1> QED BY <1>1, <1>2

LEMMA CopiesSplit ==
    /\ \A i : \A fs \in Seq(Batches) : \A f \in Batches :
          Copies(i, Append(fs, f)) = Copies(i, fs) + Once(i, IdsOf(f))
    /\ \A i : \A fs \in Seq(Batches) : fs # <<>> =>
          Copies(i, fs) = Once(i, IdsOf(Head(fs))) + Copies(i, Tail(fs))
    /\ \A i : \A fs \in Seq(Batches) : \A k \in 0..Len(fs) :
          Copies(i, fs) = Copies(i, SubSeq(fs, 1, k)) + Copies(i, SubSeq(fs, k + 1, Len(fs)))
<1> SUFFICES ASSUME NEW i, NEW fs \in Seq(Batches)
             PROVE  /\ \A f \in Batches :
                         Copies(i, Append(fs, f)) = Copies(i, fs) + Once(i, IdsOf(f))
                    /\ fs # <<>> =>
                         Copies(i, fs) = Once(i, IdsOf(Head(fs))) + Copies(i, Tail(fs))
                    /\ \A k \in 0..Len(fs) :
                         Copies(i, fs) = Copies(i, SubSeq(fs, 1, k)) + Copies(i, SubSeq(fs, k + 1, Len(fs)))
  OBVIOUS
<1>1. ASSUME NEW f \in Batches PROVE Copies(i, Append(fs, f)) = Copies(i, fs) + Once(i, IdsOf(f))
  <2>1. PICK one : one = <<f>>
    OBVIOUS
  <2>2. Append(fs, f) = fs \o one /\ one \in Seq(Batches)
    BY <2>1
  <2> QED BY <2>1, <2>2, CopiesConcat, CopiesOfOne
<1>2. ASSUME fs # <<>> PROVE Copies(i, fs) = Once(i, IdsOf(Head(fs))) + Copies(i, Tail(fs))
  <2>1. PICK one, rest : one = <<Head(fs)>> /\ rest = Tail(fs)
    OBVIOUS
  <2>2. fs = one \o rest /\ one \in Seq(Batches) /\ rest \in Seq(Batches)
    BY <1>2, <2>1
  <2> QED BY <2>1, <2>2, CopiesConcat, CopiesOfOne
<1>3. ASSUME NEW k \in 0..Len(fs)
      PROVE  Copies(i, fs) = Copies(i, SubSeq(fs, 1, k)) + Copies(i, SubSeq(fs, k + 1, Len(fs)))
  <2>1. PICK s, t : s = SubSeq(fs, 1, k) /\ t = SubSeq(fs, k + 1, Len(fs))
    OBVIOUS
  <2>2. s \in Seq(Batches) /\ t \in Seq(Batches)
    BY <2>1, ToSetSplit
  <2>3. s \o t = fs
    <3>1. Len(fs) \in Nat /\ k \in Nat /\ 1 \in 1..(Len(fs) + 1) /\ k \in (1 - 1)..Len(fs) /\ Len(fs) \in k..Len(fs)
      BY LenProperties
    <3>2. SubSeq(fs, 1, k) \o SubSeq(fs, k + 1, Len(fs)) = SubSeq(fs, 1, Len(fs))
      BY <3>1, ConcatAdjacentSubSeq
    <3> QED BY <2>1, <3>2, SubSeqFull
  <2> QED BY <2>1, <2>2, <2>3, CopiesConcat, ZenonT(40), SMTT(30)
<1> QED BY <1>1, <1>2, <1>3

\* An entry that is in no frame has no copies.
LEMMA NoCopies ==
    ASSUME NEW fs \in Seq(Batches), NEW i, i \notin IdsOfAll(fs)
    PROVE  Copies(i, fs) = 0
<1>1. Holding(i, fs) = {}
  <2>1. \A n \in 1..Len(fs) : fs[n] \in ToSet(fs)
    BY ToSetOf
  <2> QED BY <2>1 DEF Holding, IdsOfAll
<1> QED BY <1>1, FS_EmptySet DEF Copies

LEMMA SomeCopy ==
    ASSUME NEW fs \in Seq(Batches), NEW i \in IdsOfAll(fs)
    PROVE  Copies(i, fs) >= 1
<1>1. PICK n \in 1..Len(fs) : i \in IdsOf(fs[n])
  BY AllIdsOf
<1>2. n \in Holding(i, fs) /\ IsFiniteSet(Holding(i, fs)) /\ Copies(i, fs) \in Nat
  BY <1>1, CopiesNat DEF Holding
<1>3. Cardinality(Holding(i, fs)) # 0
  BY <1>2, FS_EmptySet
<1> QED BY <1>2, <1>3 DEF Copies

LEMMA PartCopies ==
    ASSUME NEW fs \in Seq(Batches), NEW part \in SubSeqs(fs), NEW i
    PROVE  Copies(i, part) <= Copies(i, fs)
<1>1. PICK m \in 0..Len(fs), n \in 0..Len(fs) : part = SubSeq(fs, m + 1, n)
  BY DEF SubSeqs
<1>2. CASE n <= m
  <2>1. part = <<>>
    BY <1>1, <1>2, SubSeqEmpty
  <2> QED BY <2>1, CopiesOfOne, CopiesNat
<1>3. CASE m < n
  <2>1. PICK a, b, c : a = SubSeq(fs, 1, n) /\ b = SubSeq(fs, n + 1, Len(fs)) /\ c = SubSeq(fs, 1, m)
    OBVIOUS
  <2>2. Copies(i, fs) = Copies(i, a) + Copies(i, b)
    BY <2>1, CopiesSplit
  <2>3. c \o part = a
    <3>1. 1 \in 1..(Len(fs) + 1) /\ m \in (1 - 1)..Len(fs) /\ n \in m..Len(fs)
      BY <1>3
    <3> QED BY <1>1, <2>1, <3>1, ConcatAdjacentSubSeq
  <2>4. a \in Seq(Batches) /\ b \in Seq(Batches) /\ c \in Seq(Batches) /\ part \in Seq(Batches)
    BY <2>1, ToSetSplit, PartKeeps
  <2>5. Copies(i, a) = Copies(i, c) + Copies(i, part)
    BY <2>3, <2>4, CopiesConcat
  <2>6. Copies(i, a) \in Nat /\ Copies(i, b) \in Nat /\ Copies(i, c) \in Nat /\ Copies(i, part) \in Nat
    BY <2>4, CopiesNat
  <2> QED BY <2>2, <2>5, <2>6
<1> QED BY <1>2, <1>3

LEMMA DoublingsStep ==
    /\ Doublings \in [Nat -> Nat \ {0}] /\ Doublings[0] = 1
    /\ \A n \in Nat : Doublings[n + 1] = 2 * Doublings[n]
<1> DEFINE Is(d) == d = [n \in Nat |-> IF n = 0 THEN 1 ELSE 2 * d[n - 1]]
<1>1. \E d : Is(d)
  <2> DEFINE double == [x \in Nat \X Int |-> 2 * x[2]]
  <2>1. double \in [Nat \X Int -> Int] /\ 1 \in Int
    OBVIOUS
  <2>2. \A n \in Nat : \A m \in Int : double[<<n, m>>] = 2 * m
    OBVIOUS
  <2> HIDE DEF double
  <2>3. PICK d \in [Nat -> Int] : d[0] = 1 /\ \A n \in Nat : d[n + 1] = double[<<n, d[n]>>]
    BY <2>1, IntegerRecursion
  <2>4. \A n \in Nat : d[n] = IF n = 0 THEN 1 ELSE 2 * d[n - 1]
    <3> SUFFICES ASSUME NEW n \in Nat, n # 0 PROVE d[n] = 2 * d[n - 1]
      BY <2>3
    <3>1. n - 1 \in Nat /\ (n - 1) + 1 = n
      OBVIOUS
    <3>2. d[(n - 1) + 1] = double[<<n - 1, d[n - 1]>>] /\ d[n - 1] \in Int
      BY <2>3, <3>1
    <3> QED BY <2>2, <3>1, <3>2
  <2>5. Is(d)
    BY <2>4
  <2> QED BY <2>5
<1>2. Is(Doublings)
  BY <1>1 DEF Doublings
<1>3. /\ Doublings[0] = 1 /\ DOMAIN Doublings = Nat
      /\ \A n \in Nat : Doublings[n + 1] = 2 * Doublings[n]
  BY <1>2
<1> HIDE DEF Is
<1>4. Nat \subseteq {n \in Nat : Doublings[n] \in Nat \ {0}}
  <2> DEFINE T == {n \in Nat : Doublings[n] \in Nat \ {0}}
  <2>1. 0 \in T /\ \A n \in Nat : n \in T => n + 1 \in T
    BY <1>3
  <2> HIDE DEF T
  <2>2. Nat \subseteq T
    BY <2>1, Induction
  <2> QED BY <2>2 DEF T
<1>5. Doublings \in [Nat -> Nat \ {0}]
  <2>1. Doublings = [n \in Nat |-> Doublings[n]]
    BY <1>2 DEF Is
  <2> QED BY <1>4, <2>1
<1> QED BY <1>3, <1>5

LEMMA CopiesPrimed ==
    \A i : Copies(i, log)' = Copies(i, log') /\ Copies(i, uncommitted)' = Copies(i, uncommitted')
BY DEF Copies, Holding, IdsOf

LEMMA SplitCopies ==
    ASSUME WalShapes, NEW k \in 0..Len(log), NEW i
    PROVE  /\ Copies(i, log) = Copies(i, SubSeq(log, 1, k)) + Copies(i, Wal!Rest(log, k))
           /\ Copies(i, uncommitted \o SubSeq(log, 1, k)) = Copies(i, uncommitted) + Copies(i, SubSeq(log, 1, k))
           /\ Copies(i, SubSeq(log, 1, k)) \in Nat /\ Copies(i, Wal!Rest(log, k)) \in Nat
           /\ Copies(i, log) \in Nat /\ Copies(i, uncommitted) \in Nat
<1> DEFINE rest == Wal!Rest(log, k)
           old == SubSeq(log, 1, k)
<1>1. rest \in Seq(Batches) /\ old \in Seq(Batches) /\ log \in Seq(Batches) /\ uncommitted \in Seq(Batches)
  BY RestKeeps DEF WalShapes
<1>2. Copies(i, log) = Copies(i, old) + Copies(i, rest)
  BY <1>1, CopiesSplit DEF Wal!Rest
<1> HIDE DEF rest, old
<1>3. Copies(i, uncommitted \o old) = Copies(i, uncommitted) + Copies(i, old)
  BY <1>1, CopiesConcat
<1>4. /\ Copies(i, rest) \in Nat /\ Copies(i, old) \in Nat
      /\ Copies(i, log) \in Nat /\ Copies(i, uncommitted) \in Nat
  BY <1>1, CopiesNat
<1> QED BY <1>2, <1>3, <1>4 DEF rest, old

\* What is left of some frames, with or without f behind it.
LEMMA LeftCopies ==
    ASSUME NEW frames \in Seq(Batches), NEW left \in LeftOf(frames), NEW f \in Batches, NEW i
    PROVE  /\ Copies(i, left) <= Copies(i, frames)
           /\ Copies(i, Append(left, f)) <= Copies(i, frames) + Once(i, IdsOf(f))
           /\ Copies(i, Behind(left, f)) <= Copies(i, frames) + Once(i, IdsOf(f))
<1>1. left \in Seq(Batches)
  BY LeftKeeps
<1>2. Copies(i, left) \in Nat /\ Copies(i, frames) \in Nat /\ Once(i, IdsOf(f)) \in Nat
  BY <1>1, CopiesNat DEF Once
<1>3. Copies(i, left) <= Copies(i, frames)
  <2>1. CASE damage = "none"
    BY <1>2, <2>1 DEF LeftOf
  <2>2. CASE damage # "none"
    BY <2>2, PartCopies DEF LeftOf
  <2> QED BY <2>1, <2>2
<1>4. Copies(i, Append(left, f)) = Copies(i, left) + Once(i, IdsOf(f))
  BY <1>1, CopiesSplit
<1>5. Behind(left, f) \in {left, Append(left, f)}
  BY DEF Behind
<1>6. Copies(i, Append(left, f)) <= Copies(i, frames) + Once(i, IdsOf(f))
  BY <1>2, <1>3, <1>4
<1>7. CASE Behind(left, f) = left
  BY <1>2, <1>3, <1>6, <1>7
<1>8. CASE Behind(left, f) = Append(left, f)
  BY <1>3, <1>6, <1>8
<1> QED BY <1>5, <1>7, <1>8

LEMMA StoreCopies ==
    ASSUME WalShapes, NEW f \in Batches, NEW k \in 0..Len(log), StoreInPlaceOf(k, f), NEW i
    PROVE  /\ Copies(i, log') <= Copies(i, log) + Once(i, IdsOf(f))
           /\ Copies(i, uncommitted') <= Copies(i, uncommitted)
<1>1. PICK left \in LeftOf(Wal!Rest(log, k)) : log' = Append(left, f) \/ log' = Behind(left, f)
  <2>1. CASE damage = "none" /\ Wal!StoreInPlaceOf(k, f)
    BY <2>1 DEF Wal!StoreInPlaceOf, LeftOf
  <2>2. CASE damage # "none"
    BY <2>2 DEF StoreInPlaceOf
  <2> QED BY <2>1, <2>2 DEF StoreInPlaceOf
<1>2. uncommitted' = <<>> \/ uncommitted' = uncommitted
  BY DEF StoreInPlaceOf, Wal!StoreInPlaceOf
<1>3. Copies(i, log') <= Copies(i, Wal!Rest(log, k)) + Once(i, IdsOf(f))
  <2>1. Wal!Rest(log, k) \in Seq(Batches)
    BY RestKeeps
  <2> QED BY <1>1, <2>1, LeftCopies
<1>4. Copies(i, log') \in Nat /\ Once(i, IdsOf(f)) \in Nat
  BY StoreKeeps, CopiesNat DEF WalShapes, Once
<1>5. Copies(i, uncommitted') <= Copies(i, uncommitted)
  BY <1>2, SplitCopies, CopiesOfOne
<1> QED BY <1>3, <1>4, <1>5, SplitCopies

LEMMA EvictCopies ==
    ASSUME WalShapes, NEW f \in Batches, NEW k \in 0..Len(log), EvictFor(k, f) \/ TearFor(k, f), NEW i
    PROVE  /\ Copies(i, log') <= Copies(i, log) + Once(i, IdsOf(f))
           /\ Copies(i, log') + Copies(i, uncommitted')
                <= Copies(i, log) + Copies(i, uncommitted) + Once(i, IdsOf(f))
<1> DEFINE rest == Wal!Rest(log, k)
           old == SubSeq(log, 1, k)
<1>1. PICK left \in LeftOf(rest) :
         \/ log' = left /\ uncommitted' \in {uncommitted, <<>>, uncommitted \o old}
         \/ log' = Behind(left, f) /\ uncommitted' \in {uncommitted, <<>>}
  <2>1. CASE TearFor(k, f)
    BY <2>1 DEF TearFor
  <2>2. CASE damage = "none" /\ Wal!GiveUp(k, Len(f))
    BY <2>2 DEF Wal!GiveUp, LeftOf
  <2>3. CASE EvictFor(k, f) /\ damage # "none"
    BY <2>3 DEF EvictFor
  <2> QED BY <2>1, <2>2, <2>3 DEF EvictFor
<1>2. rest \in Seq(Batches)
  BY RestKeeps
<1>3. /\ Copies(i, log) = Copies(i, old) + Copies(i, rest)
      /\ Copies(i, uncommitted \o old) = Copies(i, uncommitted) + Copies(i, old)
      /\ Copies(i, old) \in Nat /\ Copies(i, rest) \in Nat /\ Copies(i, uncommitted) \in Nat
  BY SplitCopies
<1>4. Copies(i, log') \in Nat /\ Copies(i, uncommitted') \in Nat /\ Once(i, IdsOf(f)) \in Nat
  BY EvictKeeps, CopiesNat DEF WalShapes, Once
<1> HIDE DEF rest, old
<1>5. CASE log' = left /\ uncommitted' \in {uncommitted, <<>>, uncommitted \o old}
  <2>1. Copies(i, uncommitted') \in {0, Copies(i, uncommitted), Copies(i, uncommitted) + Copies(i, old)}
    BY <1>3, <1>5, CopiesOfOne
  <2>2. Copies(i, log') <= Copies(i, rest)
    BY <1>2, <1>5, LeftCopies
  <2> QED BY <1>3, <1>4, <2>1, <2>2
<1>6. CASE log' = Behind(left, f) /\ uncommitted' \in {uncommitted, <<>>}
  <2>1. Copies(i, uncommitted') \in {0, Copies(i, uncommitted)}
    BY <1>6, CopiesOfOne
  <2>2. Copies(i, log') <= Copies(i, rest) + Once(i, IdsOf(f))
    BY <1>2, <1>6, LeftCopies
  <2> QED BY <1>3, <1>4, <2>1, <2>2
<1> QED BY <1>1, <1>5, <1>6

\* What an append of f does to the copies of i.
AppendCopies(i, f) ==
    /\ Copies(i, log') <= Copies(i, log) + Once(i, IdsOf(f))
    /\ Copies(i, log') + Copies(i, uncommitted')
         <= Copies(i, log) + Copies(i, uncommitted) + Once(i, IdsOf(f))
    /\ Copies(i, log') \in Nat /\ Copies(i, uncommitted') \in Nat
    /\ faults' = faults \/ faults' = faults + 1

LEMMA AppendsCopy ==
    ASSUME WalShapes, NEW f \in Batches,
           \/ AppendFails(f)
           \/ faults' = faults /\ \E k \in 0..Len(log) : StoreInPlaceOf(k, f),
           NEW i
    PROVE  AppendCopies(i, f)
<1>1. /\ Copies(i, log) \in Nat /\ Copies(i, uncommitted) \in Nat /\ Once(i, IdsOf(f)) \in Nat
  BY CopiesNat DEF WalShapes, Once
<1>2. WalShapes'
  <2>1. AppendFails(f) => WalShapes'
    BY FailedAppendKeeps DEF AppendKeeps
  <2> QED BY <2>1, StoreKeeps
<1>3. Copies(i, log') \in Nat /\ Copies(i, uncommitted') \in Nat
  BY <1>2, CopiesNat DEF WalShapes
<1>4. CASE AppendFails(f) /\ UNCHANGED <<log, uncommitted>>
  BY <1>1, <1>4 DEF AppendFails, AppendCopies, Fault
<1>5. ASSUME AppendFails(f), NEW k \in 0..Len(log), EvictFor(k, f) \/ TearFor(k, f)
      PROVE  AppendCopies(i, f)
  <2>1. faults' = faults + 1
    BY <1>5 DEF AppendFails, Fault
  <2> QED BY <1>1, <1>3, <1>5, <2>1, EvictCopies DEF AppendCopies
<1>6. CASE faults' = faults /\ \E k \in 0..Len(log) : StoreInPlaceOf(k, f)
  <2>1. /\ Copies(i, log') <= Copies(i, log) + Once(i, IdsOf(f))
        /\ Copies(i, uncommitted') <= Copies(i, uncommitted)
    BY <1>6, StoreCopies
  <2> QED BY <1>1, <1>3, <1>6, <2>1 DEF AppendCopies
<1> QED BY <1>4, <1>5, <1>6 DEF AppendFails, walVars
-----------------------------------------------------------------------------
(* The invariant *)

\* The times an entry was sent, and the places it can still be sent from.
Remembered(i) == Once(i, InChannel \cup InQueues)
Again(i) == Copies(i, log) + Remembered(i)
Load(i)  == received[i] + Once(i, Aloft) + Again(i)
\* What it would come to if every copy there is were sent once more, or put
\* back, before a crash.
Threat(i) == Load(i) + Copies(i, uncommitted) + Again(i)
Limit == Doublings[crashes] * (1 + faults)

\* The commit at the end of a drain forgets the copies of the one frame that
\* may have been put back, or counts as a fault.
Repeated(i) ==
    /\ received[i] > 0 => i <= items
    /\ Load(i) + faults <= Limit
    /\ IF pc = "commit"
       THEN /\ Load(i) + Copies(i, uncommitted) + faults <= 2 * Limit
            /\ Threat(i) + faults <= 2 * Limit + 1
       ELSE Threat(i) + faults <= 2 * Limit

Repeats == damage # "astray" => \A i \in Ids : Repeated(i)

Numbers(i) ==
    /\ received[i] \in Nat /\ Once(i, Aloft) \in 0..1 /\ Remembered(i) \in 0..1
    /\ Copies(i, log) \in Nat /\ Copies(i, uncommitted) \in Nat
    /\ faults \in Nat /\ crashes \in Nat /\ Doublings[crashes] \in Nat \ {0} /\ items \in Nat

LEMMA AreNumbers ==
    ASSUME Shapes, Balanced, Flags, NEW i \in Ids
    PROVE  Numbers(i)
<1>1. log \in Seq(Batches) /\ uncommitted \in Seq(Batches) /\ received[i] \in Nat
  BY DEF Balanced, WalShapes
<1>2. Copies(i, log) \in Nat /\ Copies(i, uncommitted) \in Nat
  BY <1>1, CopiesNat
<1>3. faults \in Nat /\ crashes \in Nat /\ items \in Nat
  BY Constants, BoundAssumption DEF Flags, Shapes
<1>4. Doublings[crashes] \in Nat \ {0}
  BY <1>3, DoublingsStep
<1> QED BY <1>1, <1>2, <1>3, <1>4 DEF Numbers, Once, Remembered

LEMMA LimitGrows ==
    ASSUME NEW d \in Nat \ {0}, NEW f \in Nat
    PROVE  /\ d * (1 + f) \in Nat /\ d * (1 + (f + 1)) = d * (1 + f) + d
           /\ 1 + f <= d * (1 + f)
           /\ (2 * d) * (1 + f) = 2 * (d * (1 + f))
<1>1. PICK e \in Nat : d = e + 1
  <2>1. d - 1 \in Nat /\ d = (d - 1) + 1
    OBVIOUS
  <2> QED BY <2>1
<1>2. d * (1 + f) = d + d * f /\ d * f \in Nat /\ d * f = e * f + f /\ e * f \in Nat
  BY <1>1
<1> QED BY <1>1, <1>2

\* How the numbers of an entry, with the reading of a step's primes spelt out.
LoadPrimed(i) ==
    /\ Again(i)' = Copies(i, log') + Remembered(i)'
    /\ Load(i)' = received'[i] + Once(i, Aloft)' + Again(i)'
    /\ Threat(i)' = Load(i)' + Copies(i, uncommitted') + Again(i)'

LEMMA Primed == \A i : LoadPrimed(i)
BY CopiesPrimed DEF LoadPrimed, Again, Load, Threat

LEMMA LimitMoves ==
    ASSUME NEW i, Numbers(i), Numbers(i)', crashes' = crashes \/ crashes' = crashes + 1,
           faults' = faults \/ faults' = faults + 1
    PROVE  /\ Limit \in Nat /\ Limit' \in Nat /\ Limit + (faults' - faults) <= Limit'
           /\ crashes' = crashes + 1 /\ faults' = faults => Limit' = 2 * Limit
<1>1. Doublings' = Doublings
  BY DEF Doublings
<1>2. PICK d, e : d = Doublings[crashes] /\ e = (Doublings[crashes])'
  OBVIOUS
<1>3. d \in Nat \ {0} /\ e \in Nat \ {0} /\ faults \in Nat /\ (e = d \/ e = 2 * d)
      /\ (crashes' = crashes + 1 => e = 2 * d)
  BY <1>1, <1>2, DoublingsStep DEF Numbers
<1>4. Limit = d * (1 + faults) /\ Limit' = e * (1 + faults')
  BY <1>1, <1>2 DEF Limit
<1>5. /\ d * (1 + faults) \in Nat /\ e * (1 + faults) \in Nat
      /\ (2 * d) * (1 + faults) = 2 * (d * (1 + faults))
      /\ e * (1 + (faults + 1)) = e * (1 + faults) + e
  BY <1>3, LimitGrows
<1>6. e * (1 + faults) = d * (1 + faults) \/ e * (1 + faults) = 2 * (d * (1 + faults))
  BY <1>3, <1>5
<1>7. PICK l, m : l = d * (1 + faults) /\ m = e * (1 + faults)
  OBVIOUS
<1>8. l \in Nat /\ m \in Nat /\ (m = l \/ m = 2 * l) /\ (crashes' = crashes + 1 => m = 2 * l)
  BY <1>3, <1>5, <1>6, <1>7
<1>9. /\ Limit = l
      /\ \/ Limit' = m /\ faults' = faults
         \/ Limit' = m + e /\ faults' = faults + 1
  <2>1. CASE faults' = faults
    <3>1. Limit' = e * (1 + faults)
      BY <1>4, <2>1
    <3> QED BY <1>4, <1>7, <2>1, <3>1
  <2>2. CASE faults' = faults + 1
    BY <1>4, <1>5, <1>7, <2>2
  <2> QED BY <2>1, <2>2
<1>10. faults' # faults + 1 \/ faults' # faults
  BY <1>3
<1> QED BY <1>3, <1>8, <1>9, <1>10

\* A step that brings nothing back.
LEMMA NoNewCopies ==
    ASSUME NEW i \in Ids, Numbers(i), Numbers(i)', Repeated(i),
           crashes' = crashes \/ crashes' = crashes + 1, faults' = faults \/ faults' = faults + 1,
           items <= items', received'[i] > 0 => received[i] > 0 \/ i <= items,
           \/ pc # "commit"
           \/ pc' = pc /\ Copies(i, uncommitted') <= Copies(i, uncommitted),
           Load(i)' <= Load(i), Again(i)' <= Again(i),
           Again(i)' + Copies(i, uncommitted') <= Again(i) + Copies(i, uncommitted)
    PROVE  Repeated(i)'
<1>1. Limit \in Nat /\ Limit' \in Nat /\ Limit + (faults' - faults) <= Limit'
  BY LimitMoves
<1>2. /\ Load(i) \in Nat /\ Again(i) \in Nat /\ Again(i) <= Load(i) /\ Copies(i, uncommitted) \in Nat
      /\ faults \in Nat
  BY DEF Numbers, Load, Again
<1>3. Load(i)' \in Nat /\ Again(i)' \in Nat /\ Copies(i, uncommitted') \in Nat
  BY Primed, CopiesPrimed DEF Numbers, LoadPrimed
<1>4. Threat(i) = Load(i) + Copies(i, uncommitted) + Again(i)
      /\ Threat(i)' = Load(i)' + Copies(i, uncommitted') + Again(i)'
  BY Primed DEF Threat, LoadPrimed
<1>5. (received[i] > 0 => i <= items)'
  <2>1. items \in Nat /\ items' \in Nat /\ i \in Nat
    BY DEF Numbers, Ids
  <2> QED BY <2>1 DEF Repeated
<1>6. Load(i)' + faults' <= Limit'
  BY <1>1, <1>2, <1>3 DEF Repeated
<1>7. CASE pc # "commit"
  <2>1. Threat(i)' + faults' <= 2 * Limit'
    BY <1>1, <1>2, <1>3, <1>4, <1>7 DEF Repeated
  <2>2. Load(i)' + Copies(i, uncommitted') + faults' <= 2 * Limit'
    BY <1>1, <1>2, <1>3, <1>4, <2>1
  <2> QED BY <1>1, <1>2, <1>3, <1>4, <1>5, <1>6, <2>1, <2>2, CopiesPrimed DEF Repeated
<1>8. CASE pc = "commit" /\ pc' = pc /\ Copies(i, uncommitted') <= Copies(i, uncommitted)
  <2>1. Threat(i)' + faults' <= 2 * Limit' + 1
    BY <1>1, <1>2, <1>3, <1>4, <1>8 DEF Repeated
  <2>2. Load(i)' + Copies(i, uncommitted') + faults' <= 2 * Limit'
    BY <1>1, <1>2, <1>3, <1>4, <1>8 DEF Repeated
  <2> QED BY <1>5, <1>6, <1>8, <2>1, <2>2, CopiesPrimed DEF Repeated
<1> QED BY <1>7, <1>8

LEMMA StillNumbers ==
    ASSUME Shapes', Balanced', Flags', NEW i \in Ids
    PROVE  Numbers(i)'
<1>1. log' \in Seq(Batches) /\ uncommitted' \in Seq(Batches) /\ received'[i] \in Nat
  BY DEF Balanced, WalShapes
<1>2. Copies(i, log)' \in Nat /\ Copies(i, uncommitted)' \in Nat
  BY <1>1, CopiesNat, CopiesPrimed
<1>3. faults' \in Nat /\ crashes' \in Nat /\ items' \in Nat
  BY Constants, BoundAssumption DEF Flags, Shapes
<1>4. (Doublings[crashes])' \in Nat \ {0}
  <2>1. Doublings' = Doublings
    BY DEF Doublings
  <2> QED BY <1>3, <2>1, DoublingsStep
<1> QED BY <1>1, <1>2, <1>3, <1>4 DEF Numbers, Once, Remembered

\* Steps that neither send nor store anything.
LEMMA NothingMoves ==
    ASSUME NEW i \in Ids, Numbers(i), Numbers(i)', Repeated(i),
           UNCHANGED <<log, uncommitted, received, crashes>>, faults' = faults \/ faults' = faults + 1,
           items <= items', pc # "commit" \/ pc' = pc,
           i \in Aloft' => i \in Aloft,
           i \in (InChannel \cup InQueues)' => i \in InChannel \cup InQueues
    PROVE  Repeated(i)'
<1>1. /\ received'[i] = received[i] /\ Copies(i, log') = Copies(i, log)
      /\ Copies(i, uncommitted') = Copies(i, uncommitted)
  OBVIOUS
<1>2. Remembered(i)' <= Remembered(i) /\ Once(i, Aloft)' <= Once(i, Aloft)
  BY DEF Remembered, Once
<1>3. /\ received[i] \in Nat /\ Once(i, Aloft) \in Nat /\ Once(i, Aloft)' \in Nat
      /\ Remembered(i) \in Nat /\ Remembered(i)' \in Nat
      /\ Copies(i, log) \in Nat /\ Copies(i, uncommitted) \in Nat
  BY DEF Numbers
<1>4. /\ Load(i)' <= Load(i) /\ Again(i)' <= Again(i)
      /\ Again(i)' + Copies(i, uncommitted') <= Again(i) + Copies(i, uncommitted)
  BY <1>1, <1>2, <1>3, Primed DEF LoadPrimed, Load, Again
<1> QED BY <1>1, <1>3, <1>4, NoNewCopies

\* A chunk leaves memory, and is nowhere else in it.
LEMMA ChunkForgotten ==
    ASSUME Shapes, Ordered, NEW k \in Kinds, queues' = [queues EXCEPT ![k] = Unchunked(@)],
           UNCHANGED channel, NEW i
    PROVE  Remembered(i)' + Once(i, IdsOf(ChunkOf(queues[k]))) <= Remembered(i)
<1> DEFINE c == ChunkOf(queues[k])
           u == Unchunked(queues[k])
<1>1. queues[k] \in Seq(Item) /\ \A j \in Kinds : queues'[j] = IF j = k THEN u ELSE queues[j]
  BY DEF Shapes
<1>2. IdsOf(queues[k]) = IdsOf(c) \cup IdsOf(u) /\ IdsOf(c) \cap IdsOf(u) = {}
  BY <1>1, ChunkOrdered DEF Ordered, QueuesOrdered
<1> HIDE DEF c, u
<1>3. InChannel' = InChannel
  BY Unmoved
<1>4. \A j \in Kinds : IdsOf(queues'[j]) \subseteq IdsOf(queues[j]) /\ IdsOf(queues'[j]) \cap IdsOf(c) = {}
  BY <1>1, <1>2 DEF Ordered, Apart
<1>5. InQueues' \subseteq InQueues /\ InQueues' \cap IdsOf(c) = {} /\ IdsOf(c) \subseteq InQueues
  BY <1>2, <1>4, QueueIdsPrimed, InSomeQueue
<1>6. InChannel \cap IdsOf(c) = {}
  BY <1>5 DEF Ordered, Apart
<1>7. /\ (InChannel \cup InQueues)' \subseteq InChannel \cup InQueues
      /\ (InChannel \cup InQueues)' \cap IdsOf(c) = {} /\ IdsOf(c) \subseteq InChannel \cup InQueues
  BY <1>3, <1>5, <1>6
<1> QED BY <1>7 DEF Remembered, Once, c

\* A step that stores a frame which then is in memory no more, or in the air.
LEMMA FrameStored ==
    ASSUME NEW i \in Ids, Numbers(i), Numbers(i)', Repeated(i), NEW f, AppendCopies(i, f),
           UNCHANGED <<received, crashes, items>>, pc # "commit",
           Once(i, Aloft)' <= Once(i, Aloft),
           Remembered(i)' + Once(i, IdsOf(f)) <= Remembered(i)
    PROVE  Repeated(i)'
<1>1. Once(i, IdsOf(f)) \in Nat
  BY DEF Once
<1>2. /\ received[i] \in Nat /\ Once(i, Aloft) \in Nat /\ Once(i, Aloft)' \in Nat
      /\ Remembered(i) \in Nat /\ Remembered(i)' \in Nat
      /\ Copies(i, log) \in Nat /\ Copies(i, uncommitted) \in Nat
      /\ Copies(i, log') \in Nat /\ Copies(i, uncommitted') \in Nat
  BY DEF Numbers, AppendCopies
<1>3. /\ Load(i)' <= Load(i) /\ Again(i)' <= Again(i)
      /\ Again(i)' + Copies(i, uncommitted') <= Again(i) + Copies(i, uncommitted)
  BY <1>1, <1>2, Primed DEF LoadPrimed, Load, Again, AppendCopies
<1>4. items <= items'
  BY DEF Numbers
<1> QED BY <1>2, <1>3, <1>4, NoNewCopies DEF AppendCopies

\* The frame in the air is put back, or lost in the attempt.
LEMMA FramePutBack ==
    ASSUME NEW i \in Ids, Numbers(i), Numbers(i)', Repeated(i), AppendCopies(i, frame),
           UNCHANGED <<received, crashes, items>>, pc # "commit", pc' = "commit",
           Once(i, Aloft) = Once(i, IdsOf(frame)), Once(i, Aloft)' = 0,
           Remembered(i)' = Remembered(i)
    PROVE  Repeated(i)'
<1>1. Limit \in Nat /\ Limit' \in Nat /\ Limit + (faults' - faults) <= Limit'
  BY LimitMoves DEF AppendCopies
<1>2. /\ received[i] \in Nat /\ Once(i, Aloft) \in 0..1
      /\ Remembered(i) \in Nat /\ faults \in Nat
      /\ Copies(i, log) \in Nat /\ Copies(i, uncommitted) \in Nat
      /\ Copies(i, log') \in Nat /\ Copies(i, uncommitted') \in Nat
  BY DEF Numbers, AppendCopies
<1>3. /\ Copies(i, log') <= Copies(i, log) + Once(i, Aloft)
      /\ Copies(i, log') + Copies(i, uncommitted') <= Copies(i, log) + Copies(i, uncommitted) + Once(i, Aloft)
      /\ faults' = faults \/ faults' = faults + 1
  BY DEF AppendCopies
<1>4. /\ Load(i)' = received[i] + Copies(i, log') + Remembered(i)
      /\ Threat(i)' = Load(i)' + Copies(i, uncommitted') + Copies(i, log') + Remembered(i)
  BY <1>2, Primed DEF LoadPrimed
<1>5. /\ Load(i) = received[i] + Once(i, Aloft) + Copies(i, log) + Remembered(i)
      /\ Threat(i) = Load(i) + Copies(i, uncommitted) + Copies(i, log) + Remembered(i)
  BY <1>2 DEF Load, Again, Threat
<1>6. Load(i) + faults <= Limit /\ Threat(i) + faults <= 2 * Limit
  BY DEF Repeated
<1>7. Load(i)' + faults' <= Limit'
  BY <1>1, <1>2, <1>3, <1>4, <1>5, <1>6
<1>8. Load(i)' + Copies(i, uncommitted') + faults' <= 2 * Limit'
  BY <1>1, <1>2, <1>3, <1>4, <1>5, <1>6
<1>9. Threat(i)' + faults' <= 2 * Limit' + 1
  BY <1>1, <1>2, <1>3, <1>4, <1>5, <1>6
<1> QED BY <1>7, <1>8, <1>9, CopiesPrimed DEF Repeated

\* A commit, at the end of a drain or of a worker.
LEMMA Committed ==
    ASSUME NEW i \in Ids, Numbers(i), Numbers(i)', Repeated(i),
           UNCHANGED <<received, items>>, uncommitted' = <<>>,
           Copies(i, log') \in Nat, Copies(i, log') <= Copies(i, log),
           crashes' = crashes \/ crashes' = crashes + 1, faults' = faults \/ faults' = faults + 1,
           pc' # "commit", Once(i, Aloft)' = 0,
           Remembered(i)' <= Remembered(i)
    PROVE  Repeated(i)'
<1>1. Limit \in Nat /\ Limit' \in Nat /\ Limit + (faults' - faults) <= Limit'
  BY LimitMoves
<1>2. /\ received[i] \in Nat /\ Once(i, Aloft) \in 0..1
      /\ Remembered(i) \in Nat /\ Remembered(i)' \in Nat /\ faults \in Nat
      /\ Copies(i, log) \in Nat /\ Copies(i, uncommitted') = 0
  BY CopiesOfOne DEF Numbers
<1>3. /\ Load(i)' = received[i] + Copies(i, log') + Remembered(i)'
      /\ Threat(i)' = Load(i)' + Copies(i, log') + Remembered(i)'
  BY <1>2, Primed DEF LoadPrimed
<1>4. Load(i) = received[i] + Once(i, Aloft) + Copies(i, log) + Remembered(i) /\ Load(i) + faults <= Limit
  BY <1>2 DEF Load, Again, Repeated
<1>5. Load(i)' <= Load(i) /\ Load(i)' \in Nat /\ Load(i) \in Nat
  BY <1>2, <1>3, <1>4, SMTT(30), ZenonT(30)
<1>6. Load(i)' + faults' <= Limit'
  BY <1>1, <1>2, <1>4, <1>5
<1>7. Threat(i)' <= 2 * Load(i)' /\ Threat(i)' \in Nat
  BY <1>2, <1>3
<1>8. Threat(i)' + faults' <= 2 * Limit'
  BY <1>1, <1>2, <1>5, <1>6, <1>7
<1> QED BY <1>6, <1>8 DEF Repeated

\* A commit that fails.
LEMMA NotCommitted ==
    ASSUME NEW i \in Ids, Numbers(i), Numbers(i)', Repeated(i),
           UNCHANGED <<uncommitted, received, items, crashes>>, faults' = faults + 1,
           Copies(i, log') \in Nat, Copies(i, log') <= Copies(i, log),
           pc = "commit", pc' # "commit", Once(i, Aloft)' = 0, Remembered(i)' = Remembered(i)
    PROVE  Repeated(i)'
<1>1. Limit \in Nat /\ Limit' \in Nat /\ Limit + 1 <= Limit'
  <2>1. Limit \in Nat /\ Limit' \in Nat /\ Limit + (faults' - faults) <= Limit' /\ faults \in Nat
    BY LimitMoves DEF Numbers
  <2> QED BY <2>1
<1>2. /\ received[i] \in Nat /\ Once(i, Aloft) \in 0..1
      /\ Remembered(i) \in Nat /\ faults \in Nat
      /\ Copies(i, log) \in Nat /\ Copies(i, uncommitted) \in Nat
  BY DEF Numbers
<1>3. /\ Load(i)' = received[i] + Copies(i, log') + Remembered(i)
      /\ Threat(i)' = Load(i)' + Copies(i, uncommitted) + Copies(i, log') + Remembered(i)
  BY <1>2, Primed DEF LoadPrimed
<1>4. /\ Load(i) = received[i] + Once(i, Aloft) + Copies(i, log) + Remembered(i) /\ Load(i) + faults <= Limit
      /\ Threat(i) = Load(i) + Copies(i, uncommitted) + Copies(i, log) + Remembered(i)
      /\ Threat(i) + faults <= 2 * Limit + 1
  BY <1>2 DEF Load, Again, Repeated, Threat
<1>5. Load(i)' + faults' <= Limit' /\ Threat(i)' + faults' <= 2 * Limit'
  BY <1>1, <1>2, <1>3, <1>4
<1> QED BY <1>5 DEF Repeated

\* A disk buffer that goes with its worker, and may fail to commit.
LEMMA Dropped ==
    ASSUME NEW i \in Ids, Numbers(i), Numbers(i)', Repeated(i), DropDiskBuffer,
           UNCHANGED <<received, items>>, crashes' = crashes \/ crashes' = crashes + 1,
           pc # "commit", pc' # "commit", Once(i, Aloft)' = 0, Remembered(i)' <= Remembered(i)
    PROVE  Repeated(i)'
<1>1. Copies(i, log') = Copies(i, log) /\ Copies(i, log) \in Nat /\ Copies(i, uncommitted) \in Nat
  BY DEF DropDiskBuffer, Numbers
<1>2. CASE uncommitted' = <<>> /\ faults' = faults
  <2>1. Copies(i, log') <= Copies(i, log)
    BY <1>1
  <2> QED BY <1>1, <1>2, <2>1, Committed
<1>3. CASE uncommitted' = uncommitted /\ faults' = faults + 1
  <2>1. /\ received[i] \in Nat /\ Once(i, Aloft) \in Nat /\ Remembered(i) \in Nat /\ Remembered(i)' \in Nat
        /\ items <= items'
    BY DEF Numbers
  <2>2. /\ Load(i)' <= Load(i) /\ Again(i)' <= Again(i)
        /\ Again(i)' + Copies(i, uncommitted') <= Again(i) + Copies(i, uncommitted)
    BY <1>1, <1>3, <2>1, Primed DEF LoadPrimed, Load, Again
  <2>3. received'[i] > 0 => received[i] > 0
    OBVIOUS
  <2> QED BY <1>3, <2>1, <2>2, <2>3, NoNewCopies
<1> QED BY <1>2, <1>3 DEF DropDiskBuffer, Fault

LEMMA CrashSum ==
    ASSUME NEW r \in Nat, NEW a \in 0..1, NEW l \in Nat, NEW u \in Nat, NEW m \in Nat, NEW f \in Nat,
           NEW limit \in Nat, r + a + l + m + u + f <= 2 * limit, NEW n \in Nat, n <= u + l
    PROVE  r + n + f <= 2 * limit /\ r + n + n + f <= 2 * (2 * limit)
OBVIOUS

\* A crash hands out again what was not committed.
LEMMA HandedOutAgain ==
    ASSUME NEW i \in Ids, Numbers(i), Numbers(i)', Repeated(i), uncommitted' = <<>>,
           Copies(i, log') \in Nat, Copies(i, log') <= Copies(i, uncommitted) + Copies(i, log),
           UNCHANGED <<received, items, faults>>, crashes' = crashes + 1,
           pc' # "commit", Once(i, Aloft)' = 0, Remembered(i)' = 0
    PROVE  Repeated(i)'
<1>1. Limit \in Nat /\ Limit' = 2 * Limit
  BY LimitMoves
<1>2. Copies(i, uncommitted') = 0
  BY CopiesOfOne
<1>3. /\ received[i] \in Nat /\ Once(i, Aloft) \in 0..1 /\ Remembered(i) \in Nat /\ faults \in Nat
      /\ Copies(i, log) \in Nat /\ Copies(i, uncommitted) \in Nat
  BY DEF Numbers
<1>4. Load(i)' = received[i] + Copies(i, log') /\ Threat(i)' = Load(i)' + Copies(i, log')
  BY <1>2, <1>3, Primed DEF LoadPrimed
<1>5. /\ Load(i) = received[i] + Once(i, Aloft) + Copies(i, log) + Remembered(i) /\ Load(i) + faults <= Limit
      /\ Load(i) + Copies(i, uncommitted) + faults <= 2 * Limit
  <2>1. Threat(i) = Load(i) + Copies(i, uncommitted) + Copies(i, log) + Remembered(i)
    BY <1>3 DEF Load, Again, Threat
  <2>2. Load(i) = received[i] + Once(i, Aloft) + Copies(i, log) + Remembered(i) /\ Load(i) \in Nat
    BY <1>3, SMTT(30), ZenonT(30) DEF Load, Again
  <2> QED BY <1>1, <1>3, <2>1, <2>2, SMTT(30), ZenonT(30) DEF Repeated
<1>6. faults' = faults
  OBVIOUS
<1>7. PICK r, a, l, u, m :
         /\ r = received[i] /\ a = Once(i, Aloft) /\ l = Copies(i, log)
         /\ u = Copies(i, uncommitted) /\ m = Remembered(i)
  OBVIOUS
<1>8. PICK n : n = Copies(i, log')
  OBVIOUS
<1>9. n \in Nat /\ n <= u + l /\ Load(i)' = r + n /\ Threat(i)' = r + n + n
  BY <1>3, <1>4, <1>7, <1>8
<1>10. r + a + l + m + u + faults <= 2 * Limit
  BY <1>3, <1>5, <1>7
<1>11. r + n + faults <= 2 * Limit /\ r + n + n + faults <= 2 * (2 * Limit)
  <2>1. r \in Nat /\ a \in 0..1 /\ l \in Nat /\ u \in Nat /\ m \in Nat /\ faults \in Nat /\ Limit \in Nat
    BY <1>1, <1>3, <1>7
  <2> QED BY <1>9, <1>10, <2>1, CrashSum
<1>12. Load(i)' + faults <= Limit' /\ Threat(i)' + faults <= 2 * Limit'
  BY <1>1, <1>9, <1>11
<1> QED BY <1>6, <1>12 DEF Repeated

\* A new entry has been sent by nobody and is nowhere else.
LEMMA EntryArrives ==
    ASSUME NEW i \in Ids, Numbers(i), Numbers(i)', Repeated(i), Balanced, Ordered,
           UNCHANGED <<log, uncommitted, received, crashes, faults>>, items' = items + 1,
           (InChannel \cup InQueues)' = InChannel \cup InQueues \cup {items + 1},
           Aloft' = Aloft, pc # "commit" \/ pc' = pc
    PROVE  Repeated(i)'
<1>1. CASE i # items + 1
  <2>1. items <= items'
    BY DEF Numbers
  <2> QED BY <1>1, <2>1, NothingMoves
<1>2. CASE i = items + 1
  <2>1. items \in Nat /\ received[i] \in Nat /\ ~(i <= items)
    BY <1>2 DEF Numbers
  <2>2. received[i] = 0
    BY <2>1 DEF Repeated
  <2>3. i \notin InWal /\ i \notin IdsOfAll(log) /\ i \notin IdsOfAll(uncommitted) /\ i \notin Aloft
    <3>1. i \notin 1..items
      BY <2>1
    <3> QED BY <3>1 DEF Ordered, Apart, Balanced, InWal
  <2>4. Copies(i, log) = 0 /\ Copies(i, uncommitted) = 0
    BY <2>3, NoCopies DEF Balanced, WalShapes
  <2>5. /\ received'[i] = 0 /\ Copies(i, log') = 0 /\ Copies(i, uncommitted') = 0
        /\ Once(i, Aloft)' = 0 /\ Remembered(i)' = 1
    BY <1>2, <2>2, <2>3, <2>4 DEF Once, Remembered
  <2>6. Load(i)' = 1 /\ Threat(i)' = 2
    BY <2>5, Primed DEF LoadPrimed
  <2>7. Limit' \in Nat /\ 1 + faults' <= Limit' /\ faults' \in Nat
    BY LimitGrows DEF Numbers, Limit
  <2>8. /\ Load(i)' + faults' <= Limit' /\ Threat(i)' + faults' <= 2 * Limit'
        /\ Threat(i)' + faults' <= 2 * Limit' + 1
        /\ Load(i)' + Copies(i, uncommitted') + faults' <= 2 * Limit'
    <3>1. Load(i)' + Copies(i, uncommitted') = 1
      BY <2>5, <2>6
    <3>2. 1 + faults' <= 2 * Limit' /\ 2 + faults' <= 2 * Limit' /\ 2 + faults' <= 2 * Limit' + 1
      <4>1. \A x, y \in Nat : 1 + y <= x => 1 + y <= 2 * x /\ 2 + y <= 2 * x /\ 2 + y <= 2 * x + 1
        OBVIOUS
      <4> QED BY <2>7, <4>1
    <3> QED BY <2>6, <2>7, <3>1, <3>2
  <2> QED BY <2>5, <2>8, CopiesPrimed DEF Repeated
<1> QED BY <1>1, <1>2

\* What makes NothingMoves fit most steps.
LEMMA QuietStep ==
    ASSUME NEW i \in Ids, Numbers(i), Numbers(i)', Repeated(i),
           UNCHANGED <<log, uncommitted, received, crashes, items>>,
           faults' = faults \/ faults' = faults + 1,
           pc # "commit" \/ pc' = pc,
           UNCHANGED <<pc, stages, frame>> \/ pc' # "send",
           UNCHANGED <<channel, queues>>
    PROVE  Repeated(i)'
<1>1. (InChannel \cup InQueues)' = InChannel \cup InQueues /\ (i \in Aloft' => i \in Aloft)
  BY Unmoved
<1>2. items <= items'
  BY DEF Numbers
<1> QED BY <1>1, <1>2, NothingMoves

LEMMA NoMemory ==
    ASSUME Vanish, Shapes, NEW i
    PROVE  Remembered(i)' = 0
<1>1. InQueues' = {} /\ InChannel' = {}
  BY EmptyQueuesIds, NothingIds DEF Vanish, InChannel, IdsOf
<1> QED BY <1>1 DEF Remembered, Once

LEMMA RepeatedStep ==
    ASSUME Shapes, QueueInv, Balanced, Flags, Ordered, InChannel \cup InQueues \subseteq 1..items,
           [Next]_vars, Shapes', Balanced', Flags',
           damage' # "astray", NEW i \in Ids, Repeated(i)
    PROVE  Repeated(i)'
<1>a. Numbers(i) /\ Numbers(i)' /\ WalShapes
  BY AreNumbers, StillNumbers DEF Balanced
<1>b. pc' # "send" => Once(i, Aloft)' = 0
  BY Unmoved DEF Once
<1>c. /\ UNCHANGED channel => InChannel' = InChannel
      /\ UNCHANGED queues => InQueues' = InQueues
      /\ UNCHANGED <<channel, queues>> => Remembered(i)' = Remembered(i)
  BY Unmoved DEF Remembered
<1>1. CASE UNCHANGED vars
  BY <1>1, <1>a, QuietStep DEF vars
<1>2. ASSUME NEW k \in TrackKinds, Track(k) PROVE Repeated(i)'
  <2> DEFINE m == [kind |-> k, id |-> items + 1]
  <2>1. m \in Item /\ items' = items + 1 /\ channel' = Append(channel, m)
    BY <1>2, NewItem, Constants DEF Track, Shapes
  <2>2. InChannel' = InChannel \cup {items + 1} /\ InQueues' = InQueues /\ Aloft' = Aloft
    BY <1>2, <2>1, ChannelIds, Unmoved DEF InChannel, IdsOf, Track, workerVars
  <2>3. (InChannel \cup InQueues)' = InChannel \cup InQueues \cup {items + 1}
    BY <2>2
  <2> QED BY <1>2, <1>a, <2>2, <2>3, EntryArrives DEF Track, workerVars, walVars, ghosts, bounds
<1>3. ASSUME NEW r \in Requests, Call(r) PROVE Repeated(i)'
  BY <1>3, <1>a, QuietStep DEF Call, workerVars, walVars, ghosts, bounds
<1>4. ASSUME NEW r \in Requests, SendControl(r) PROVE Repeated(i)'
  <2>1. InChannel' = InChannel
    BY <1>4, ChannelIds DEF SendControl, InChannel, IdsOf
  <2>2. InQueues' = InQueues /\ Aloft' = Aloft
    BY <1>4, Unmoved DEF SendControl, workerVars
  <2>3. items <= items'
    BY <1>4, <1>a DEF SendControl, Numbers
  <2> QED BY <1>4, <1>a, <2>1, <2>2, <2>3, NothingMoves DEF SendControl, workerVars, walVars, ghosts, bounds
<1>5. ASSUME NEW r \in Requests, SendControlFails(r) PROVE Repeated(i)'
  BY <1>5, <1>a, QuietStep DEF SendControlFails, workerVars, walVars, ghosts, bounds
<1>6. CASE DropClients
  BY <1>6, <1>a, QuietStep DEF DropClients, workerVars, walVars, ghosts, bounds
<1>7. CASE NewSender
  BY <1>7, <1>a, QuietStep DEF NewSender, OpenOrGoWithout, Fault, clientVars, walVars, ghosts
<1>8. CASE NewTicks
  BY <1>8, <1>a, QuietStep DEF NewTicks, clientVars, walVars, ghosts, bounds
<1>9. CASE IntervalPanics
  <2>1. /\ Vanish /\ DropDiskBuffer /\ UNCHANGED <<items, received, crashes>>
        /\ pc = "ticks" /\ pc' = "done"
    BY <1>9 DEF IntervalPanics
  <2>2. Remembered(i)' <= Remembered(i)
    BY <1>a, <2>1, NoMemory DEF Numbers
  <2> QED BY <1>a, <1>b, <2>1, <2>2, Dropped
<1>10. CASE TryRecv
  <2>1. (InChannel \cup InQueues)' = InChannel \cup InQueues
    BY <1>10, AbsorbIds DEF TryRecv
  <2>2. pc' = pc /\ pc # "send" /\ items <= items'
    BY <1>10, <1>a DEF TryRecv, Numbers
  <2> QED BY <1>10, <1>a, <2>1, <2>2, Unmoved, NothingMoves DEF TryRecv, walVars, ghosts, bounds
<1>11. CASE Dispatch
  BY <1>11, <1>a, QuietStep DEF Dispatch, Begin, clientVars, walVars, ghosts, bounds
<1>12. CASE RecvFails
  BY <1>12, <1>a, QuietStep DEF RecvFails, Begin, clientVars, walVars, ghosts, bounds
<1>13. CASE EnterStage
  BY <1>13, <1>a, QuietStep DEF EnterStage, clientVars, walVars, ghosts, bounds
<1>14. CASE SkipStage
  BY <1>14, <1>a, QuietStep DEF SkipStage, clientVars, walVars, ghosts, bounds
<1>15. CASE EndStages
  BY <1>15, <1>a, QuietStep DEF EndStages, walVars, ghosts, bounds
<1>16. CASE DrainNext
  <2>1. /\ Wal!Take /\ frame' = Head(log) /\ pc = "drain" /\ pc' = "send" /\ Stage' = "wal"
        /\ UNCHANGED <<channel, queues, items, received, crashes, faults>>
    BY <1>16 DEF DrainNext, Sending, QueueInv, Stage, clientVars, ghosts, bounds
  <2>2. Aloft = {} /\ Aloft' = IdsOf(Head(log))
    BY <2>1 DEF Aloft, FromWal, IdsOf
  <2>3. Once(i, Aloft) = 0 /\ Once(i, Aloft)' = Once(i, IdsOf(Head(log)))
    BY <2>2 DEF Once
  <2>4. log # <<>> /\ log' = Tail(log) /\ uncommitted' = Append(uncommitted, Head(log)) /\ Head(log) \in Batches
    BY <2>1, TakeKeeps, <1>a DEF Wal!Take
  <2>5. /\ Copies(i, log) = Once(i, IdsOf(Head(log))) + Copies(i, log')
        /\ Copies(i, uncommitted') = Copies(i, uncommitted) + Once(i, IdsOf(Head(log)))
    BY <1>a, <2>4, CopiesSplit DEF WalShapes
  <2>6. /\ received[i] \in Nat /\ Remembered(i) \in Nat /\ Copies(i, log) \in Nat /\ Copies(i, log') \in Nat
        /\ Copies(i, uncommitted) \in Nat /\ Once(i, IdsOf(Head(log))) \in Nat
    BY <1>a, CopiesPrimed DEF Numbers, Once
  <2>7. /\ Load(i)' <= Load(i) /\ Again(i)' <= Again(i)
        /\ Again(i)' + Copies(i, uncommitted') <= Again(i) + Copies(i, uncommitted)
    BY <1>c, <2>1, <2>3, <2>5, <2>6, Primed DEF LoadPrimed, Load, Again
  <2>8. items <= items'
    BY <2>1, <1>a DEF Numbers
  <2> QED BY <1>a, <2>1, <2>7, <2>8, NoNewCopies
<1>17. CASE DrainEnds
  BY <1>17, <1>a, QuietStep DEF DrainEnds, clientVars, walVars, ghosts, bounds
<1>18. CASE CommitWal
  <2>1. /\ pc = "commit" /\ pc' = "stage"
        /\ UNCHANGED <<channel, queues, items, received, crashes>>
        /\ log' \in LeftOf(log)
        /\ \/ uncommitted' = <<>> /\ (faults' = faults \/ faults' = faults + 1)
           \/ uncommitted' = uncommitted /\ faults' = faults + 1
    BY <1>18 DEF CommitWal, Fault, clientVars
  <2>2. Remembered(i)' = Remembered(i) /\ Remembered(i) \in Nat
    BY <1>a, <1>c, <2>1 DEF Numbers
  <2>3. Copies(i, log') \in Nat /\ Copies(i, log') <= Copies(i, log)
    <3>1. frame \in Batches
      BY DEF Balanced
    <3> QED BY <1>a, <2>1, <3>1, LeftCopies, CopiesPrimed DEF Numbers, WalShapes
  <2>4. CASE uncommitted' = <<>> /\ (faults' = faults \/ faults' = faults + 1)
    BY <1>a, <1>b, <2>1, <2>2, <2>3, <2>4, Committed
  <2>5. CASE uncommitted' = uncommitted /\ faults' = faults + 1
    BY <1>a, <1>b, <2>1, <2>2, <2>3, <2>5, NotCommitted
  <2> QED BY <2>1, <2>4, <2>5
<1>19. CASE Chunk
  <2>1. pc = "chunk" /\ Stage' = Stage /\ Stage \in Kinds /\ "wal" \notin Kinds
    BY <1>19, Constants DEF Chunk, Sending, QueueInv, Stage
  <2>2. Aloft' = {} /\ items <= items'
    BY <1>19, <1>a, <2>1 DEF Aloft, FromWal, Chunk, clientVars, Numbers
  <2>3. (InChannel \cup InQueues)' = InChannel \cup InQueues
    BY <1>19, <1>c DEF Chunk, clientVars
  <2> QED BY <1>19, <1>a, <2>1, <2>2, <2>3, NothingMoves DEF Chunk, clientVars, walVars, ghosts, bounds
<1>20. CASE ChunksEnd
  BY <1>20, <1>a, QuietStep DEF ChunksEnd, clientVars, walVars, ghosts, bounds
<1>21. CASE SendOk
  <2>1. /\ UNCHANGED <<channel, items, log, uncommitted, crashes, faults>> /\ pc = "send"
        /\ received'[i] = received[i] + Once(i, IdsOf(frame))
    BY <1>21, <1>a DEF SendOk, clientVars, walVars, bounds, Once, Balanced, Numbers
  <2>2. /\ received[i] \in Nat /\ Remembered(i) \in Nat /\ Remembered(i)' \in Nat /\ Copies(i, log) \in Nat
        /\ Copies(i, uncommitted) \in Nat /\ Once(i, IdsOf(frame)) \in Nat /\ items <= items'
    BY <1>a, <2>1 DEF Numbers, Once
  <2>3. Once(i, IdsOf(frame)) = 0 \/ i <= items
    <3>1. CASE FromWal
      BY <2>1, <3>1 DEF Once, Balanced, Aloft, InWal, Ordered, Apart
    <3>2. CASE ~FromWal
      <4>1. Stage \in Kinds /\ frame = ChunkOf(queues[Stage])
        BY <2>1, <3>2 DEF Balanced, FromWal
      <4>2. queues[Stage] \in Seq(Item)
        BY <4>1 DEF Shapes
      <4>3. IdsOf(frame) \subseteq InQueues
        BY <4>1, <4>2, ChunkOrdered, InSomeQueue
      <4>4. IdsOf(frame) \subseteq 1..items
        BY <4>3
      <4> QED BY <4>4 DEF Once
    <3> QED BY <3>1, <3>2
  <2>4. received'[i] > 0 => received[i] > 0 \/ i <= items
    BY <2>1, <2>2, <2>3
  <2>5. Once(i, Aloft)' = 0 /\ Once(i, Aloft) \in Nat
    BY <1>21, <1>a, <1>b DEF SendOk, ChunkDone, Numbers
  <2>6. \/ Once(i, Aloft) = Once(i, IdsOf(frame)) /\ Remembered(i)' = Remembered(i)
        \/ Once(i, Aloft) = 0 /\ Remembered(i)' + Once(i, IdsOf(frame)) <= Remembered(i)
    <3>1. CASE FromWal
      BY <1>21, <1>c, <2>1, <3>1 DEF SendOk, Aloft
    <3>2. CASE ~FromWal
      <4>1. Stage \in Kinds /\ frame = ChunkOf(queues[Stage]) /\ queues' = [queues EXCEPT ![Stage] = Unchunked(@)]
        BY <1>21, <2>1, <3>2 DEF Balanced, FromWal, SendOk, ChunkDone
      <4> QED BY <2>1, <3>2, <4>1, ChunkForgotten DEF Aloft, Once
    <3> QED BY <3>1, <3>2
  <2>7. /\ Load(i)' <= Load(i) /\ Again(i)' <= Again(i)
        /\ Again(i)' + Copies(i, uncommitted') <= Again(i) + Copies(i, uncommitted)
    BY <2>1, <2>2, <2>5, <2>6, Primed DEF LoadPrimed, Load, Again
  <2> QED BY <1>a, <2>1, <2>2, <2>4, <2>7, NoNewCopies
<1>22. CASE PutBack
  <2>1. /\ UNCHANGED <<channel, queues, items, received, crashes>> /\ pc = "send" /\ FromWal /\ pc' = "commit"
        /\ frame \in Batches
    BY <1>22 DEF PutBack, clientVars, Balanced
  <2>2. AppendFails(frame) \/ (faults' = faults /\ \E k \in 0..Len(log) : StoreInPlaceOf(k, frame))
    BY <1>22 DEF PutBack
  <2>3. AppendCopies(i, frame)
    BY <1>a, <2>1, <2>2, AppendsCopy
  <2>4. Once(i, Aloft) = Once(i, IdsOf(frame))
    BY <2>1 DEF Aloft
  <2> QED BY <1>a, <1>b, <1>c, <2>1, <2>3, <2>4, FramePutBack
<1>23. CASE FallBack
  <2>1. /\ UNCHANGED <<channel, items, received, crashes>> /\ pc = "send" /\ ~FromWal /\ pc' = "chunk"
        /\ queues' = [queues EXCEPT ![Stage] = Unchunked(@)]
    BY <1>23 DEF FallBack, ChunkDone, clientVars
  <2>2. frame \in Batches /\ Stage \in Kinds /\ frame = ChunkOf(queues[Stage])
    BY <2>1 DEF FromWal, Balanced
  <2>3. AppendFails(frame) \/ (faults' = faults /\ \E k \in 0..Len(log) : StoreInPlaceOf(k, frame))
    BY <1>23 DEF FallBack, AppendToWal
  <2>4. AppendCopies(i, frame)
    BY <1>a, <2>2, <2>3, AppendsCopy
  <2>5. Once(i, Aloft)' <= Once(i, Aloft)
    BY <1>a, <1>b, <2>1 DEF Numbers
  <2>6. Remembered(i)' + Once(i, IdsOf(frame)) <= Remembered(i)
    BY <2>1, <2>2, ChunkForgotten
  <2> QED BY <1>a, <2>1, <2>4, <2>5, <2>6, FrameStored
<1>24. CASE Retry
  BY <1>24, <1>a, QuietStep DEF Retry, clientVars, walVars, ghosts, bounds
<1>25. CASE GiveUp
  <2>1. /\ UNCHANGED <<channel, items, received, crashes, faults, log, uncommitted>> /\ pc = "send" /\ pc' = "chunk"
        /\ queues' = [queues EXCEPT ![Stage] = Unchunked(@)] /\ Stage \in Kinds
    BY <1>25 DEF GiveUp, ChunkDone, clientVars, walVars, bounds, FromWal, Balanced
  <2>2. Remembered(i)' + Once(i, IdsOf(ChunkOf(queues[Stage]))) <= Remembered(i)
    BY <2>1, ChunkForgotten
  <2>3. i \in (InChannel \cup InQueues)' => i \in InChannel \cup InQueues
    BY <2>2, <1>a DEF Remembered, Once, Numbers
  <2>4. items <= items' /\ Aloft' = {}
    BY <1>a, <2>1, Unmoved DEF Numbers
  <2> QED BY <1>a, <2>1, <2>3, <2>4, NothingMoves
<1>26. CASE ShutdownTimeout
  <2>1. /\ UNCHANGED <<channel, items, received, crashes, faults, log, uncommitted>> /\ pc = "send" /\ pc' # "send"
        /\ (queues' = queues \/ queues' = [k \in Kinds |-> <<>>])
    BY <1>26 DEF ShutdownTimeout, clientVars, walVars, bounds
  <2>2. InQueues' \subseteq InQueues /\ InChannel' = InChannel
    BY <2>1, Unmoved, EmptyQueuesIds
  <2>3. items <= items' /\ Aloft' = {}
    BY <1>a, <2>1, Unmoved DEF Numbers
  <2> QED BY <1>a, <2>1, <2>2, <2>3, NothingMoves
<1>27. ASSUME NEW k \in Kinds, SaveChunk(k) PROVE Repeated(i)'
  <2> DEFINE f == ChunkOf(queues[k])
  <2>1. /\ UNCHANGED <<channel, items, received, crashes>> /\ pc = "save" /\ pc' = "save"
        /\ queues' = [queues EXCEPT ![k] = Unchunked(@)] /\ f \in Batches
    BY <1>27, ChunkSplits DEF SaveChunk, clientVars, Shapes
  <2>2. AppendFails(f) \/ (faults' = faults /\ \E n \in 0..Len(log) : StoreInPlaceOf(n, f))
    BY <1>27 DEF SaveChunk, AppendToWal
  <2>3. Remembered(i)' + Once(i, IdsOf(f)) <= Remembered(i)
    BY <2>1, ChunkForgotten
  <2> HIDE DEF f
  <2>4. AppendCopies(i, f)
    BY <1>a, <2>1, <2>2, AppendsCopy
  <2>5. Once(i, Aloft)' <= Once(i, Aloft)
    BY <1>a, <1>b, <2>1 DEF Numbers
  <2> QED BY <1>a, <2>1, <2>3, <2>4, <2>5, FrameStored
<1>28. CASE SaveEnds
  BY <1>28, <1>a, QuietStep DEF SaveEnds, clientVars, walVars, ghosts, bounds
<1>29. CASE CloseAcks
  BY <1>29, <1>a, QuietStep DEF CloseAcks, walVars, ghosts, bounds
<1>30. CASE Exit
  <2>1. /\ Vanish /\ DropDiskBuffer /\ UNCHANGED <<items, received, crashes>>
        /\ pc = "exit" /\ pc' = "done"
    BY <1>30 DEF Exit
  <2>2. Remembered(i)' <= Remembered(i)
    BY <1>a, <2>1, NoMemory DEF Numbers
  <2> QED BY <1>a, <1>b, <2>1, <2>2, Dropped
<1>31. CASE Recv
  <2>1. (InChannel \cup InQueues)' = InChannel \cup InQueues
    BY <1>31, AbsorbIds DEF Recv
  <2>2. pc = "select" /\ pc' = "absorb" /\ items <= items' /\ Aloft' = {}
    BY <1>31, <1>a, Unmoved DEF Recv, Numbers
  <2> QED BY <1>31, <1>a, <2>1, <2>2, NothingMoves DEF Recv, walVars, ghosts, bounds
<1>32. CASE FlushTick
  BY <1>32, <1>a, QuietStep DEF FlushTick, Begin, clientVars, walVars, ghosts, bounds
<1>33. CASE SampleTick
  BY <1>33, <1>a, QuietStep DEF SampleTick, clientVars, walVars, ghosts, bounds
<1>34. CASE RuntimeDropped
  <2>1. /\ Vanish /\ DropDiskBuffer /\ UNCHANGED <<items, received>> /\ crashes' = crashes + 1
        /\ pc # "commit" /\ pc' = "done"
    BY <1>34 DEF RuntimeDropped
  <2>2. Remembered(i)' <= Remembered(i)
    BY <1>a, <2>1, NoMemory DEF Numbers
  <2> QED BY <1>a, <1>b, <2>1, <2>2, Dropped
<1>35. CASE Restart
  <2>1. /\ Vanish /\ UNCHANGED <<items, received, faults>> /\ pc' = "start" /\ crashes' = crashes + 1
        /\ uncommitted' = <<>> /\ (log' = uncommitted \o log \/ log' \in SubSeqs(uncommitted \o log))
    BY <1>35 DEF Restart
  <2>2. Remembered(i)' = 0
    BY <2>1, NoMemory
  <2>3. uncommitted \o log \in Seq(Batches)
    BY <1>a, ConcatProperties DEF WalShapes
  <2>4. Copies(i, uncommitted \o log) = Copies(i, uncommitted) + Copies(i, log)
    BY <1>a, CopiesConcat DEF WalShapes
  <2>5. Copies(i, log') <= Copies(i, uncommitted \o log)
    <3>1. CASE log' = uncommitted \o log
      <4>1. Copies(i, uncommitted \o log) \in Nat
        BY <2>3, CopiesNat
      <4> QED BY <3>1, <4>1
    <3>2. CASE log' \in SubSeqs(uncommitted \o log)
      BY <2>3, <3>2, PartCopies
    <3> QED BY <2>1, <3>1, <3>2
  <2>6. Copies(i, log') \in Nat
    BY <1>a, CopiesPrimed DEF Numbers
  <2> QED BY <1>a, <1>b, <2>1, <2>2, <2>4, <2>5, <2>6, HandedOutAgain
<1>36. ASSUME NEW r \in Requests, SendControlRefused(r) PROVE Repeated(i)'
  BY <1>36, <1>a, QuietStep DEF SendControlRefused, workerVars, walVars, ghosts, bounds
<1>37. CASE SamplePoint
  <2> DEFINE m == [kind |-> "metrics", id |-> items + 1]
  <2>1. m \in Item /\ m.id = items + 1 /\ items' = items + 1 /\ items \in Nat /\ "metrics" \in Kinds
    BY <1>37, NewItem, Constants DEF SamplePoint, Shapes
  <2>2. \A k \in Kinds : queues'[k] = IF k = "metrics" THEN Append(queues[k], m) ELSE queues[k]
    BY <1>37, <2>1 DEF SamplePoint, Shapes
  <2>3. \A k \in Kinds : IdsOf(queues[k])' = IdsOf(queues[k]) \cup (IF k = "metrics" THEN {items + 1} ELSE {})
    BY <2>1, <2>2, QueueIdsPrimed, QueueIds
  <2>4. InQueues' = InQueues \cup {items + 1} /\ InChannel' = InChannel
    BY <1>37, <2>1, <2>3, InSomeQueue, Unmoved, SMTT(30), ZenonT(30) DEF SamplePoint
  <2>5. (InChannel \cup InQueues)' = InChannel \cup InQueues \cup {items + 1}
    BY <2>4
  <2>6. pc' = pc /\ Aloft' = Aloft
    BY <1>37, Unmoved DEF SamplePoint
  <2> QED BY <1>37, <1>a, <2>1, <2>5, <2>6, EntryArrives DEF SamplePoint, walVars, ghosts, bounds
<1>38. CASE SampleEnds
  BY <1>38, <1>a, QuietStep DEF SampleEnds, Begin, clientVars, walVars, ghosts, bounds
<1>39. CASE DrainMisreads
  <2>1. PICK k \in 0..Len(log), f \in {<<>>} \cup ToSet(log) :
            /\ f # <<>> => k > 0 /\ f = log[k]
            /\ frame' = f
            /\ log' = Wal!Rest(log, k)
            /\ uncommitted' = uncommitted \o SubSeq(log, 1, k)
    BY <1>39 DEF DrainMisreads, Sending
  <2>2. /\ pc = "drain" /\ pc' = "send"
        /\ UNCHANGED <<channel, queues, items, received, crashes, faults>>
    BY <1>39 DEF DrainMisreads, Sending, clientVars, bounds
  <2>3. Aloft = {} /\ Aloft' \subseteq IdsOf(f)
    BY <2>1, <2>2 DEF Aloft, IdsOf
  <2>4. Once(i, Aloft) = 0 /\ Once(i, Aloft)' <= Once(i, IdsOf(f)) /\ Once(i, Aloft)' \in Nat
    BY <2>3 DEF Once
  <2>5. /\ Copies(i, log) = Copies(i, SubSeq(log, 1, k)) + Copies(i, log')
        /\ Copies(i, uncommitted') = Copies(i, uncommitted) + Copies(i, SubSeq(log, 1, k))
        /\ Copies(i, SubSeq(log, 1, k)) \in Nat /\ Copies(i, log') \in Nat
        /\ Copies(i, log) \in Nat /\ Copies(i, uncommitted) \in Nat
    BY <1>a, <2>1, SplitCopies
  <2>6. Once(i, IdsOf(f)) \in Nat /\ Once(i, IdsOf(f)) <= Copies(i, SubSeq(log, 1, k))
    <3>1. CASE i \in IdsOf(f)
      <4>1. SubSeq(log, 1, k) \in Seq(Batches) /\ i \in Oldest(k)
        BY <1>a, <2>1, <3>1, RestKeeps, MisreadKeeps
      <4>2. Copies(i, SubSeq(log, 1, k)) >= 1
        BY <4>1, SomeCopy DEF Oldest
      <4> QED BY <2>5, <3>1, <4>2 DEF Once
    <3>2. CASE i \notin IdsOf(f)
      BY <2>5, <3>2 DEF Once
    <3> QED BY <3>1, <3>2
  <2>7. received[i] \in Nat /\ Remembered(i) \in Nat /\ items <= items' /\ Remembered(i)' = Remembered(i)
    BY <1>a, <1>c, <2>2 DEF Numbers
  <2>8. /\ Load(i)' <= Load(i) /\ Again(i)' <= Again(i)
        /\ Again(i)' + Copies(i, uncommitted') <= Again(i) + Copies(i, uncommitted)
    <3>1. PICK x, l, n, m, u, o :
             /\ x = Once(i, Aloft)' /\ l = Copies(i, log) /\ n = Copies(i, log') /\ m = Remembered(i)
             /\ u = Copies(i, uncommitted) /\ o = Copies(i, SubSeq(log, 1, k))
      OBVIOUS
    <3>2. /\ x \in Nat /\ n \in Nat /\ m \in Nat /\ u \in Nat /\ o \in Nat /\ received[i] \in Nat
          /\ x <= o /\ l = o + n /\ Copies(i, uncommitted') = u + o
      BY <2>4, <2>5, <2>6, <2>7, <3>1
    <3>3. /\ Load(i)' = received[i] + x + (n + m) /\ Again(i)' = n + m
          /\ Load(i) = received[i] + 0 + (l + m) /\ Again(i) = l + m
      BY <2>2, <2>4, <2>7, <3>1, Primed DEF LoadPrimed, Load, Again
    <3>4. Load(i)' <= Load(i) /\ Again(i)' <= Again(i)
      BY <3>2, <3>3
    <3>5. (n + m) + (u + o) <= (l + m) + u
      BY <3>2
    <3> QED BY <3>1, <3>2, <3>3, <3>4, <3>5
  <2> QED BY <1>a, <2>2, <2>7, <2>8, NoNewCopies
<1>40. CASE DrainFails
  <2>1. UNCHANGED log
    BY <1>40 DEF DrainFails, LosePlace
  <2> QED BY <1>40, <1>a, <2>1, QuietStep DEF DrainFails, Fault, clientVars, ghosts
<1>41. CASE DrainResets
  <2>1. PICK k \in 0..Len(log) :
            /\ log' = Wal!Rest(log, k)
            /\ uncommitted' = <<>> \/ uncommitted' = uncommitted \o SubSeq(log, 1, k)
    BY <1>41 DEF DrainResets
  <2>2. /\ pc = "drain" /\ pc' = "commit" /\ (faults' = faults \/ faults' = faults + 1)
        /\ UNCHANGED <<channel, queues, items, received, crashes>>
    BY <1>41 DEF DrainResets, Fault, clientVars
  <2>3. Once(i, Aloft) = 0 /\ Once(i, Aloft)' = 0
    BY <2>2 DEF Aloft, Once
  <2>4. /\ Copies(i, log) = Copies(i, SubSeq(log, 1, k)) + Copies(i, log')
        /\ Copies(i, uncommitted') \in {0, Copies(i, uncommitted) + Copies(i, SubSeq(log, 1, k))}
        /\ Copies(i, SubSeq(log, 1, k)) \in Nat /\ Copies(i, log') \in Nat
        /\ Copies(i, log) \in Nat /\ Copies(i, uncommitted) \in Nat
    BY <1>a, <2>1, SplitCopies, CopiesOfOne
  <2>5. received[i] \in Nat /\ Remembered(i) \in Nat /\ items <= items' /\ Remembered(i)' = Remembered(i)
    BY <1>a, <1>c, <2>2 DEF Numbers
  <2>6. /\ Load(i)' <= Load(i) /\ Again(i)' <= Again(i)
        /\ Again(i)' + Copies(i, uncommitted') <= Again(i) + Copies(i, uncommitted)
    <3>1. PICK l, n, m, u, o :
             /\ l = Copies(i, log) /\ n = Copies(i, log') /\ m = Remembered(i)
             /\ u = Copies(i, uncommitted) /\ o = Copies(i, SubSeq(log, 1, k))
      OBVIOUS
    <3>2. /\ n \in Nat /\ m \in Nat /\ u \in Nat /\ o \in Nat /\ received[i] \in Nat
          /\ l = o + n /\ Copies(i, uncommitted') \in {0, u + o}
      BY <2>4, <2>5, <3>1
    <3>3. /\ Load(i)' = received[i] + 0 + (n + m) /\ Again(i)' = n + m
          /\ Load(i) = received[i] + 0 + (l + m) /\ Again(i) = l + m
      BY <2>2, <2>3, <2>5, <3>1, Primed DEF LoadPrimed, Load, Again
    <3>4. Load(i)' <= Load(i) /\ Again(i)' <= Again(i)
      BY <3>2, <3>3
    <3>5. (n + m) + (u + o) <= (l + m) + u /\ (n + m) + 0 <= (l + m) + u
      BY <3>2
    <3> QED BY <3>1, <3>2, <3>3, <3>4, <3>5
  <2> QED BY <1>a, <2>2, <2>5, <2>6, NoNewCopies
<1> QED
  BY <1>1, <1>2, <1>3, <1>4, <1>5, <1>6, <1>7, <1>8, <1>9, <1>10, <1>11, <1>12, <1>13, <1>14,
       <1>15, <1>16, <1>17, <1>18, <1>19, <1>20, <1>21, <1>22, <1>23, <1>24, <1>25, <1>26,
       <1>27,
       <1>28, <1>29, <1>30, <1>31, <1>32, <1>33, <1>34, <1>35,
       <1>36, <1>37, <1>38, <1>39, <1>40, <1>41
     DEF Next, ClientStep, WorkerStep, SampleStep, FlushStep, SendStep, EndStep

AppendStep == \E f : AppendFails(f) \/ \E k \in 0..Len(log) : StoreInPlaceOf(k, f)

\* A reader that has lost its place does not find it again.
LEMMA StaysAstray ==
    ASSUME [Next]_vars, damage = "astray"
    PROVE  damage' = "astray"
<1>1. AppendStep \/ UNCHANGED damage \/ Tear \/ LosePlace
  BY DEF Next, ClientStep, WorkerStep, SampleStep, FlushStep, SendStep, EndStep, walVars, vars, AppendStep,
       AppendToWal, Call, Chunk, ChunksEnd, CloseAcks, CommitWal, Dispatch, DrainEnds, DrainFails,
       DrainMisreads, DrainNext, DrainResets, DropClients, DropDiskBuffer, EndStages, EnterStage, Exit,
       FallBack, FlushTick, GiveUp, IntervalPanics, NewSender, NewTicks, PutBack, Recv, RecvFails, Restart,
       Retry, RuntimeDropped, SampleEnds, SamplePoint, SampleTick, SaveChunk, SaveEnds, SendControl,
       SendControlFails, SendControlRefused, SendOk, ShutdownTimeout, SkipStage, Track, TryRecv
<1>2. AppendStep => UNCHANGED damage \/ Tear
  BY DEF AppendStep, AppendFails, StoreInPlaceOf, EvictFor, TearFor, walVars
<1> QED BY <1>1, <1>2 DEF Tear, LosePlace

LEMMA InitRepeats == Init => Repeats
<1> SUFFICES ASSUME Init, NEW i \in Ids PROVE Repeated(i)
  BY DEF Repeats
<1>1. InChannel = {} /\ InQueues = {} /\ Aloft = {}
  BY NothingIds, EmptyQueuesIds DEF Init, InChannel, Aloft
<1>2. received[i] = 0 /\ Copies(i, log) = 0 /\ Copies(i, uncommitted) = 0 /\ faults = 0 /\ pc # "commit"
  BY CopiesOfOne DEF Init
<1>3. Remembered(i) = 0 /\ Once(i, Aloft) = 0
  BY <1>1 DEF Remembered, Once
<1>4. Load(i) = 0 /\ Threat(i) = 0
  BY <1>2, <1>3 DEF Load, Again, Threat
<1>5. Limit = 1
  BY DoublingsStep DEF Limit, Init
<1> QED BY <1>2, <1>4, <1>5 DEF Repeated

\* Retries, the fallback to disk, frames that are put back and the saving of the
\* queues at shutdown never send an entry twice by themselves: for that it takes
\* a crash, a dropped runtime or a disk error, of which each crash may at most double what
\* was sent, and each error adds at most one copy for the crashes to come, unless the
\* error stopped the reader half way through a frame.
THEOREM CrashesAtMostDouble == Spec => []SentOnceUnlessCrash
<1>1. Init => WorkerInv /\ Ordered /\ Repeats
  BY InitInv, InitOrdered, InitRepeats
<1>2. (WorkerInv /\ Ordered /\ Repeats) /\ [Next]_vars => (WorkerInv /\ Ordered /\ Repeats)'
  <2> SUFFICES ASSUME WorkerInv, Ordered, Repeats, [Next]_vars
               PROVE  (WorkerInv /\ Ordered /\ Repeats)'
    OBVIOUS
  <2>1. InChannel \cup InQueues \subseteq 1..items
    BY DEF WorkerInv, MemoryInv, Fifo
  <2>2. WorkerInv' /\ Ordered'
    BY <2>1, NextInv, OrderedStep DEF WorkerInv, MemoryInv
  <2>3. /\ Shapes /\ QueueInv /\ Balanced /\ Flags
        /\ Shapes' /\ Balanced' /\ Flags'
    BY <2>2 DEF WorkerInv, MemoryInv
  <2>4. ASSUME damage' # "astray", NEW i \in Ids PROVE Repeated(i)'
    <3>1. damage # "astray"
      BY <2>4, StaysAstray
    <3> QED BY <2>1, <2>3, <2>4, <3>1, RepeatedStep DEF Repeats
  <2>5. Repeats'
    BY <2>4 DEF Repeats, Ids
  <2> QED BY <2>2, <2>5
<1>3. WorkerInv /\ Repeats => SentOnceUnlessCrash
  <2> SUFFICES ASSUME WorkerInv, Repeats, damage # "astray", NEW i \in Ids
               PROVE  received[i] + faults <= Doublings[crashes] * (1 + faults)
    BY DEF SentOnceUnlessCrash
  <2>1. Numbers(i)
    BY AreNumbers DEF WorkerInv, MemoryInv
  <2>2. Limit \in Nat /\ received[i] \in Nat /\ faults \in Nat /\ Load(i) \in Nat /\ received[i] <= Load(i)
    BY <2>1, LimitGrows DEF Numbers, Limit, Load, Again
  <2>3. Load(i) + faults <= Limit
    BY DEF Repeats, Repeated
  <2>4. received[i] + faults <= Limit
    BY <2>2, <2>3
  <2> QED BY <2>4 DEF Limit
<1> QED BY <1>1, <1>2, <1>3, PTL DEF Spec

-----------------------------------------------------------------------------
(* What the disk buffer evicts *)

\* g[n] is what the first n frames take.
Sums(g, fs) ==
    /\ g \in [0..Len(fs) -> Nat] /\ g[0] = 0
    /\ \A n \in 1..Len(fs) : g[n] = g[n - 1] + Len(fs[n])

LEMMA BytesAreSums ==
    ASSUME NEW fs \in Seq(Batches)
    PROVE  \E g : Sums(g, fs) /\ Wal!Bytes(fs) = g[Len(fs)]
<1> DEFINE k == Len(fs)
           step == [p \in Nat \X Int |-> IF p[1] + 1 \in 1..k THEN p[2] + Len(fs[p[1] + 1]) ELSE 0]
<1>1. k \in Nat /\ \A n \in 1..k : fs[n] \in Batches /\ Len(fs[n]) \in Nat
  BY DEF Batches
<1>2. step \in [Nat \X Int -> Int]
  BY <1>1
<1>3. PICK f \in [Nat -> Int] : f[0] = 0 /\ \A n \in Nat : f[n + 1] = step[<<n, f[n]>>]
  <2> HIDE DEF step
  <2>1. 0 \in Int
    OBVIOUS
  <2> QED BY <1>2, <2>1, IntegerRecursion
<1>4. ASSUME NEW n \in 1..k PROVE f[n] = f[n - 1] + Len(fs[n])
  <2>1. n - 1 \in Nat /\ (n - 1) + 1 = n /\ f[n - 1] \in Int
    BY <1>1
  <2>2. f[n] = step[<<n - 1, f[n - 1]>>]
    <3> HIDE DEF step
    <3> QED BY <1>3, <2>1
  <2> QED BY <2>1, <2>2
<1> HIDE DEF step
<1> DEFINE h == [n \in 0..k |-> f[n]]
<1>5. h = [n \in 0..k |-> IF n = 0 THEN 0 ELSE h[n - 1] + Len(fs[n])]
  BY <1>1, <1>3, <1>4
<1> DEFINE upTo[n \in 0..k] == IF n = 0 THEN 0 ELSE upTo[n - 1] + Len(fs[n])
<1>6. upTo = [n \in 0..k |-> IF n = 0 THEN 0 ELSE upTo[n - 1] + Len(fs[n])]
  <2> HIDE DEF h, k
  <2>1. \E g : g = [n \in 0..k |-> IF n = 0 THEN 0 ELSE g[n - 1] + Len(fs[n])]
    BY <1>5
  <2> QED BY <2>1, Zenon DEF upTo
<1>7. Wal!Bytes(fs) = upTo[k]
  BY Zenon DEF Wal!Bytes, upTo, k
<1> HIDE DEF upTo
<1>8. upTo[0] = 0 /\ \A n \in 1..k : upTo[n] = upTo[n - 1] + Len(fs[n])
  <2> HIDE DEF k
  <2>1. 0 \in 0..k /\ \A n \in 1..k : n \in 0..k /\ n # 0
    BY <1>1
  <2>2. \A n \in 0..k : upTo[n] = IF n = 0 THEN 0 ELSE upTo[n - 1] + Len(fs[n])
    BY <1>6, Zenon
  <2> QED BY <2>1, <2>2
<1>9. upTo \in [0..k -> Nat]
  <2> DEFINE T == {n \in Nat : n \in 0..k => upTo[n] \in Nat}
  <2>1. 0 \in T
    BY <1>8
  <2>2. ASSUME NEW n \in Nat, n \in T PROVE n + 1 \in T
    <3> SUFFICES ASSUME n + 1 \in 0..k PROVE upTo[n + 1] \in Nat
      OBVIOUS
    <3>1. n \in 0..k /\ n + 1 \in 1..k /\ (n + 1) - 1 = n
      BY <1>1
    <3>2. upTo[n] \in Nat /\ Len(fs[n + 1]) \in Nat
      BY <1>1, <2>2, <3>1
    <3>3. upTo[n + 1] = upTo[n] + Len(fs[n + 1])
      BY <1>8, <3>1
    <3> QED BY <3>2, <3>3
  <2>3. Nat \subseteq T
    <3> HIDE DEF T
    <3> QED BY <2>1, <2>2, Induction
  <2>4. \A n \in 0..k : upTo[n] \in Nat
    BY <2>3
  <2> QED BY <1>6, <2>4
<1> QED BY <1>7, <1>8, <1>9 DEF Sums

LEMMA NoBytes == Wal!Bytes(<<>>) = 0
<1>1. PICK g : Sums(g, <<>>) /\ Wal!Bytes(<<>>) = g[Len(<<>>)]
  BY EmptySeq, BytesAreSums
<1> QED BY <1>1 DEF Sums

\* The frames before the k-th take something, the frames after it the rest.
LEMMA BytesSplit ==
    ASSUME NEW fs \in Seq(Batches), NEW k \in 0..Len(fs)
    PROVE  \E n \in Nat : /\ Wal!Bytes(fs) = n + Wal!Bytes(Wal!Rest(fs, k))
                          /\ k = 1 => n = Len(fs[1])
<1> DEFINE r == Wal!Rest(fs, k)
<1>1. r \in Seq(Batches) /\ Len(r) = Len(fs) - k /\ Len(fs) \in Nat
  BY ToSetSplit DEF Wal!Rest
<1>2. \A i \in 1..(Len(fs) - k) : r[i] = fs[k + i]
  BY <1>1, SubSeqProperties DEF Wal!Rest
<1> HIDE DEF r
<1>3. PICK g : Sums(g, fs) /\ Wal!Bytes(fs) = g[Len(fs)]
  BY BytesAreSums
<1>4. PICK h : Sums(h, r) /\ Wal!Bytes(r) = h[Len(r)]
  BY <1>1, BytesAreSums
<1>5. /\ \A n \in 0..Len(fs) : g[n] \in Nat
      /\ \A n \in 0..Len(r) : h[n] \in Nat
      /\ g[0] = 0 /\ h[0] = 0
  BY <1>3, <1>4 DEF Sums
<1> DEFINE T == {n \in Nat : n \in 0..Len(r) => g[k + n] = g[k] + h[n]}
<1>6. 0 \in T
  BY <1>1, <1>5
<1>7. ASSUME NEW n \in Nat, n \in T PROVE n + 1 \in T
  <2> SUFFICES ASSUME n + 1 \in 0..Len(r) PROVE g[k + (n + 1)] = g[k] + h[n + 1]
    OBVIOUS
  <2>1. /\ n \in 0..Len(r) /\ n + 1 \in 1..Len(r) /\ (n + 1) - 1 = n
        /\ k + (n + 1) \in 1..Len(fs) /\ (k + (n + 1)) - 1 = k + n /\ k + n \in 0..Len(fs)
        /\ n + 1 \in 1..(Len(fs) - k)
    BY <1>1
  <2>2. h[n + 1] = h[n] + Len(r[n + 1])
    BY <1>4, <2>1 DEF Sums
  <2>3. g[k + (n + 1)] = g[k + n] + Len(fs[k + (n + 1)])
    BY <1>3, <2>1 DEF Sums
  <2>4. r[n + 1] = fs[k + (n + 1)] /\ g[k + n] = g[k] + h[n]
    BY <1>2, <1>7, <2>1
  <2>5. r[n + 1] \in Batches
    BY <1>1, <2>1
  <2>6. PICK l \in Nat : l = Len(r[n + 1])
    BY <2>5 DEF Batches
  <2>7. g[k] \in Nat /\ h[n] \in Nat
    BY <1>5, <2>1
  <2> QED BY <2>2, <2>3, <2>4, <2>6, <2>7
<1>8. Nat \subseteq T
  <2> HIDE DEF T
  <2> QED BY <1>6, <1>7, Induction
<1>9. g[k + Len(r)] = g[k] + h[Len(r)]
  BY <1>1, <1>8
<1>10. k + Len(r) = Len(fs) /\ g[k] \in Nat
  BY <1>1, <1>5
<1>11. ASSUME k = 1 PROVE g[k] = Len(fs[1])
  <2>1. 1 \in 1..Len(fs) /\ fs[1] \in Batches
    BY <1>1, <1>11
  <2>2. g[1] = g[1 - 1] + Len(fs[1])
    BY <1>3, <2>1 DEF Sums
  <2> QED BY <1>5, <1>11, <2>1, <2>2 DEF Batches
<1> QED BY <1>3, <1>4, <1>9, <1>10, <1>11 DEF r

LEMMA BytesAppended ==
    ASSUME NEW fs \in Seq(Batches), NEW f \in Batches
    PROVE  Wal!Bytes(Append(fs, f)) = Wal!Bytes(fs) + Len(f) /\ Wal!Bytes(fs) \in Nat
<1> DEFINE t == Append(fs, f)
<1>1. /\ t \in Seq(Batches) /\ Len(t) = Len(fs) + 1 /\ Len(fs) \in Nat
      /\ t[Len(fs) + 1] = f /\ \A n \in 1..Len(fs) : t[n] = fs[n]
  BY AppendProperties
<1> HIDE DEF t
<1>2. PICK g : Sums(g, fs) /\ Wal!Bytes(fs) = g[Len(fs)]
  BY BytesAreSums
<1>3. PICK h : Sums(h, t) /\ Wal!Bytes(t) = h[Len(t)]
  BY <1>1, BytesAreSums
<1> DEFINE T == {n \in Nat : n \in 0..Len(fs) => g[n] = h[n]}
<1>4. 0 \in T
  BY <1>2, <1>3 DEF Sums
<1>5. ASSUME NEW n \in Nat, n \in T PROVE n + 1 \in T
  <2> SUFFICES ASSUME n + 1 \in 0..Len(fs) PROVE g[n + 1] = h[n + 1]
    OBVIOUS
  <2>1. n \in 0..Len(fs) /\ n + 1 \in 1..Len(fs) /\ n + 1 \in 1..Len(t) /\ (n + 1) - 1 = n
    BY <1>1
  <2>2. g[n + 1] = g[n] + Len(fs[n + 1]) /\ h[n + 1] = h[n] + Len(t[n + 1])
    BY <1>2, <1>3, <2>1 DEF Sums
  <2> QED BY <1>1, <1>5, <2>1, <2>2
<1>6. Nat \subseteq T
  <2> HIDE DEF T
  <2> QED BY <1>4, <1>5, Induction
<1>7. Len(fs) \in T
  <2> HIDE DEF T
  <2> QED BY <1>1, <1>6
<1>8. g[Len(fs)] = h[Len(fs)] /\ g[Len(fs)] \in Nat
  BY <1>1, <1>2, <1>7 DEF Sums
<1>9. h[Len(t)] = h[Len(fs)] + Len(f)
  <2>1. Len(t) \in 1..Len(t) /\ Len(t) - 1 = Len(fs) /\ t[Len(t)] = f
    BY <1>1
  <2> QED BY <1>3, <2>1 DEF Sums
<1> QED BY <1>2, <1>3, <1>8, <1>9 DEF t

NoTrouble == crashes = 0 /\ faults = 0

\* The log is within its limit, or it holds one frame that takes more.
WithinLimit == Len(log) <= 1 \/ Wal!Bytes(log) <= WalLimit

\* A frame that was taken from the log can be put back, for nothing was stored
\* in its place.
RoomToPutBack == (pc = "send" /\ FromWal) => log = <<>> \/ Wal!Bytes(log) + Len(frame) <= WalLimit

Unevicted == NoTrouble => damage = "none" /\ silent = {} /\ WithinLimit /\ RoomToPutBack

LEMMA StoreWithinLimit ==
    ASSUME WalShapes, NEW f \in Batches, NEW k \in 0..Len(log), Wal!StoreInPlaceOf(k, f)
    PROVE  WithinLimit'
<1> DEFINE r == Wal!Rest(log, k)
<1>1. log' = Append(r, f) /\ r \in Seq(Batches) /\ Len(r) = Len(log) - k /\ Len(log) \in Nat
  BY RestKeeps, ToSetSplit DEF Wal!StoreInPlaceOf, Wal!Rest, WalShapes
<1>2. k < Len(log) => Wal!Bytes(r) + Len(f) <= WalLimit
  BY DEF Wal!StoreInPlaceOf, Wal!MakesRoom
<1> HIDE DEF r
<1>3. Wal!Bytes(log') = Wal!Bytes(r) + Len(f) /\ Len(log') = Len(r) + 1
  BY <1>1, BytesAppended, AppendProperties
<1>4. WithinLimit' = (Len(log') <= 1 \/ Wal!Bytes(log') <= WalLimit)
  BY DEF WithinLimit, Wal!Bytes
<1>5. CASE k < Len(log)
  <2>1. Wal!Bytes(log') <= WalLimit
    BY <1>2, <1>3, <1>5
  <2> QED BY <1>4, <2>1
<1>6. CASE ~(k < Len(log))
  <2>1. Len(r) = 0
    BY <1>1, <1>6
  <2>2. Len(log') <= 1
    BY <1>3, <2>1
  <2> QED BY <1>4, <2>2
<1> QED BY <1>5, <1>6

LEMMA PutBackEvictsNothing ==
    ASSUME WalShapes, frame \in Batches, NEW k \in 0..Len(log), Wal!StoreInPlaceOf(k, frame),
           log = <<>> \/ Wal!Bytes(log) + Len(frame) <= WalLimit
    PROVE  Oldest(k) = {}
<1>1. log \in Seq(Batches) /\ Len(log) \in Nat /\ WalLimit \in Nat /\ Len(frame) \in Nat
  BY CapacityAssumption DEF WalShapes, Batches
<1>2. k = 0
  <2>1. SUFFICES ASSUME k > 0 PROVE FALSE
    BY <1>1
  <2>2. k - 1 \in 0..Len(log) /\ log # <<>>
    BY <1>1, <2>1
  <2>3. PICK n \in Nat : Wal!Bytes(log) = n + Wal!Bytes(Wal!Rest(log, k - 1))
    BY <1>1, <2>2, BytesSplit
  <2>4. Wal!Bytes(Wal!Rest(log, k - 1)) + Len(frame) > WalLimit
    BY <2>1 DEF Wal!StoreInPlaceOf, Wal!MakesRoom
  <2>5. Wal!Rest(log, k - 1) \in Seq(Batches)
    BY <2>2, RestKeeps
  <2>6. Wal!Bytes(Wal!Rest(log, k - 1)) \in Nat
    BY <1>1, <2>5, BytesAppended
  <2> QED BY <1>1, <2>2, <2>3, <2>4, <2>6
<1>3. Oldest(0) = {}
  <2>1. SubSeq(log, 1, 0) = <<>>
    BY <1>1, SubSeqEmpty
  <2> QED BY <2>1, NoFrames DEF Oldest
<1> QED BY <1>2, <1>3

LEMMA TakeLeavesRoom ==
    ASSUME WalShapes, WithinLimit, log # <<>>, Wal!Take
    PROVE  /\ WithinLimit'
           /\ log' = <<>> \/ Wal!Bytes(log') + Len(Head(log)) <= WalLimit
<1>1. log \in Seq(Batches) /\ log' = Tail(log) /\ Len(log) \in Nat /\ Len(log) >= 1 /\ WalLimit \in Nat
  BY CapacityAssumption, EmptySeq DEF WalShapes, Wal!Take
<1>2. Head(log) = log[1] /\ Tail(log) = Wal!Rest(log, 1) /\ Tail(log) \in Seq(Batches)
      /\ Len(Tail(log)) = Len(log) - 1
  <2>1. Tail(log) \in Seq(Batches) /\ Len(Tail(log)) = Len(log) - 1 /\ Head(log) = log[1]
    BY <1>1, HeadTailProperties
  <2>2. Tail(log) = SubSeq(log, 2, Len(log))
    BY <1>1, TailIsSubSeq
  <2> QED BY <2>1, <2>2 DEF Wal!Rest
<1>3. PICK n \in Nat : Wal!Bytes(log) = n + Wal!Bytes(Wal!Rest(log, 1)) /\ n = Len(log[1])
  <2>1. 1 \in 0..Len(log)
    BY <1>1
  <2> QED BY <1>1, <2>1, BytesSplit
<1>4. Head(log) \in Batches /\ Len(Head(log)) \in Nat
  BY <1>1, <1>2 DEF Batches
<1>5. Wal!Bytes(log') \in Nat
  BY <1>1, <1>2, <1>4, BytesAppended
<1>6. Wal!Bytes(log) = Wal!Bytes(log') + Len(Head(log))
  <2>1. Wal!Bytes(Wal!Rest(log, 1)) = Wal!Bytes(log') /\ n = Len(Head(log))
    BY <1>1, <1>2, <1>3
  <2>2. \A a, b \in Nat : a + b = b + a
    OBVIOUS
  <2> QED BY <1>3, <1>4, <1>5, <2>1, <2>2
<1>7. log' = <<>> \/ Wal!Bytes(log') + Len(Head(log)) <= WalLimit
  <2>1. Len(log') = Len(log) - 1 /\ log' \in Seq(Batches)
    BY <1>1, <1>2
  <2>2. CASE Len(log) <= 1
    BY <1>1, <2>1, <2>2, EmptySeq
  <2>3. CASE Wal!Bytes(log) <= WalLimit
    BY <1>6, <2>3
  <2> QED BY <2>2, <2>3 DEF WithinLimit
<1>8. WithinLimit' = (Len(log') <= 1 \/ Wal!Bytes(log') <= WalLimit)
  BY DEF WithinLimit, Wal!Bytes
<1>9. Len(log') <= 1 \/ Wal!Bytes(log') <= WalLimit
  <2>1. CASE log' = <<>>
    BY <2>1
  <2>2. CASE Wal!Bytes(log') + Len(Head(log)) <= WalLimit
    BY <1>1, <1>4, <1>5, <2>2
  <2> QED BY <1>7, <2>1, <2>2
<1> QED BY <1>7, <1>8, <1>9

\* Steps that leave the log alone and do not put a frame in the air.
LEMMA LogStays ==
    ASSUME Unevicted, UNCHANGED <<log, damage, silent>>, NoTrouble' => NoTrouble,
           UNCHANGED <<pc, stages, frame>> \/ pc' # "send" \/ ~FromWal'
    PROVE  Unevicted'
BY DEF Unevicted, WithinLimit, RoomToPutBack, FromWal, Stage, Wal!Bytes

LEMMA Trouble ==
    ASSUME Flags, faults' = faults + 1 \/ crashes' = crashes + 1
    PROVE  Unevicted'
BY BoundAssumption DEF Flags, Unevicted, NoTrouble

LEMMA NothingLost ==
    ASSUME WalShapes, NEW k \in 0..Len(log), NEW f \in Batches, log' = Append(Wal!Rest(log, k), f),
           NEW frames \in Seq(Batches), IdsOfAll(frames) \subseteq IdsOfAll(Wal!Rest(log, k)),
           Unnoticed(frames)
    PROVE  silent' = silent
<1>1. IdsOfAll(Append(Wal!Rest(log, k), f)) = IdsOfAll(Wal!Rest(log, k)) \cup IdsOf(f)
  BY RestKeeps, AppendedIds
<1>2. IdsOfAll(frames) \subseteq IdsOfAll(log')
  BY <1>1
<1> QED BY <1>2 DEF Unnoticed

LEMMA FrameStoredInLimit ==
    ASSUME Flags, WalShapes, Unevicted, NEW f \in Batches, pc' # "send", UNCHANGED <<crashes>>,
           AppendToWal(f)
    PROVE  Unevicted'
<1>1. CASE AppendFails(f)
  BY <1>1, Trouble DEF AppendFails, Fault
<1>2. ASSUME NEW k \in 0..Len(log), StoreInPlaceOf(k, f), Unnoticed(Wal!Rest(log, k)), UNCHANGED faults
      PROVE  Unevicted'
  <2>1. SUFFICES ASSUME NoTrouble' PROVE damage' = "none" /\ silent' = {} /\ WithinLimit' /\ RoomToPutBack'
    BY DEF Unevicted
  <2>2. NoTrouble /\ damage = "none" /\ silent = {}
    BY <1>2, <2>1 DEF Unevicted, NoTrouble
  <2>3. Wal!StoreInPlaceOf(k, f) /\ damage' = damage
    BY <1>2, <2>2 DEF StoreInPlaceOf
  <2>4. WithinLimit'
    BY <2>3, StoreWithinLimit
  <2>5. silent' = silent
    <3>1. log' = Append(Wal!Rest(log, k), f) /\ Wal!Rest(log, k) \in Seq(Batches)
      BY <2>3, RestKeeps DEF Wal!StoreInPlaceOf
    <3> QED BY <1>2, <3>1, NothingLost
  <2> QED BY <2>2, <2>3, <2>4, <2>5 DEF RoomToPutBack
<1> QED BY <1>1, <1>2 DEF AppendToWal

LEMMA UnevictedStep ==
    ASSUME QueueInv, Shapes, Balanced, Flags, Unevicted, [Next]_vars
    PROVE  Unevicted'
<1> USE DEF NoTrouble
<1>a. WalShapes
  BY DEF Balanced
<1>1. CASE UNCHANGED vars
  BY <1>1, LogStays DEF vars
<1>2. ASSUME NEW k \in TrackKinds, Track(k) PROVE Unevicted'
  BY <1>2, LogStays DEF Track, workerVars, walVars, ghosts, bounds
<1>3. ASSUME NEW r \in Requests, Call(r) \/ SendControl(r) \/ SendControlFails(r) \/ SendControlRefused(r)
      PROVE  Unevicted'
  BY <1>3, LogStays DEF Call, SendControl, SendControlFails, SendControlRefused, workerVars, walVars, ghosts, bounds
<1>4. CASE DropClients
  BY <1>4, LogStays DEF DropClients, workerVars, walVars, ghosts, bounds
<1>5. CASE NewSender
  <2>1. CASE faults' = faults
    BY <1>5, <2>1, LogStays DEF NewSender, walVars, ghosts
  <2>2. CASE faults' = faults + 1
    BY <2>2, Trouble
  <2> QED BY <1>5, <2>1, <2>2 DEF NewSender, OpenOrGoWithout, Fault
<1>6. CASE NewTicks
  BY <1>6, LogStays DEF NewTicks, walVars, ghosts, bounds
<1>7. CASE IntervalPanics \/ Exit
  <2>1. pc' # "send" /\ UNCHANGED <<log, damage, silent, crashes>> /\ (faults' = faults \/ faults' = faults + 1)
    BY <1>7 DEF IntervalPanics, Exit, DropDiskBuffer, Fault
  <2> QED BY <2>1, LogStays, Trouble
<1>8. CASE TryRecv
  BY <1>8, LogStays DEF TryRecv, walVars, ghosts, bounds
<1>9. CASE Dispatch \/ RecvFails \/ FlushTick \/ SampleTick \/ SampleEnds \/ SamplePoint
  BY <1>9, LogStays DEF Dispatch, RecvFails, FlushTick, SampleTick, SampleEnds, SamplePoint, Begin, walVars, ghosts, bounds
<1>10. CASE EnterStage \/ SkipStage \/ EndStages
  BY <1>10, LogStays DEF EnterStage, SkipStage, EndStages, walVars, ghosts, bounds
<1>11. CASE DrainNext
  <2>1. /\ log # <<>> /\ Wal!Take /\ frame' = Head(log)
        /\ UNCHANGED <<damage, silent, crashes, faults>>
    BY <1>11 DEF DrainNext, Sending, ghosts, bounds
  <2>2. WithinLimit => WithinLimit' /\ (log' = <<>> \/ Wal!Bytes(log') + Len(Head(log)) <= WalLimit)
    BY <1>a, <2>1, TakeLeavesRoom
  <2>3. (log' = <<>> \/ Wal!Bytes(log') + Len(frame') <= WalLimit) => RoomToPutBack'
    BY DEF RoomToPutBack, Wal!Bytes
  <2> QED BY <2>1, <2>2, <2>3 DEF Unevicted
<1>12. CASE DrainEnds
  BY <1>12, LogStays DEF DrainEnds, walVars, ghosts, bounds
<1>13. CASE CommitWal
  <2>1. CASE faults' = faults /\ UNCHANGED damage
    <3>1. SUFFICES ASSUME NoTrouble' PROVE damage' = "none" /\ silent' = {} /\ WithinLimit' /\ RoomToPutBack'
      BY DEF Unevicted
    <3>2. NoTrouble /\ damage = "none" /\ silent = {}
      BY <1>13, <2>1, <3>1 DEF Unevicted, CommitWal
    <3>3. log' = log /\ silent' = silent
      BY <1>13, <3>2 DEF CommitWal, LeftOf, Unnoticed
    <3> QED BY <1>13, <2>1, <3>1, <3>2, <3>3 DEF CommitWal, Unevicted, WithinLimit, RoomToPutBack, Wal!Bytes
  <2>2. CASE faults' = faults + 1
    BY <2>2, Trouble
  <2> QED BY <1>13, <2>1, <2>2 DEF CommitWal, Fault
<1>14. CASE Chunk
  <2>1. Stage' = Stage /\ Stage # "wal"
    BY <1>14, Constants DEF Chunk, Sending, QueueInv, Stage
  <2> QED BY <1>14, <2>1, LogStays DEF Chunk, FromWal, walVars, ghosts, bounds
<1>15. CASE ChunksEnd
  BY <1>15, LogStays DEF ChunksEnd, walVars, ghosts, bounds
<1>16. CASE SendOk
  <2>1. pc' # "send"
    BY <1>16 DEF SendOk, ChunkDone
  <2> QED BY <1>16, <2>1, LogStays DEF SendOk, walVars, bounds
<1>17. CASE PutBack
  <2>1. /\ frame \in Batches /\ pc = "send" /\ FromWal /\ pc' # "send" /\ UNCHANGED crashes
    BY <1>17 DEF PutBack, Balanced
  <2>2. CASE AppendFails(frame)
    BY <2>2, Trouble DEF AppendFails, Fault
  <2>3. ASSUME NEW k \in 0..Len(log), StoreInPlaceOf(k, frame), Unnoticed(log), faults' = faults
        PROVE  Unevicted'
    <3>1. SUFFICES ASSUME NoTrouble'
                   PROVE  damage' = "none" /\ silent' = {} /\ WithinLimit' /\ RoomToPutBack'
      BY DEF Unevicted
    <3>2. NoTrouble /\ damage = "none" /\ silent = {} /\ RoomToPutBack
      BY <2>1, <2>3, <3>1 DEF Unevicted
    <3>3. Wal!StoreInPlaceOf(k, frame) /\ damage' = damage
      BY <2>3, <3>2 DEF StoreInPlaceOf
    <3>4. IdsOfAll(log) = IdsOfAll(Wal!Rest(log, k))
      <4>1. Oldest(k) = {}
        BY <1>a, <2>1, <3>2, <3>3, PutBackEvictsNothing DEF RoomToPutBack
      <4> QED BY <1>a, <4>1, RestKeeps
    <3>5. silent' = silent
      BY <1>a, <2>1, <2>3, <3>3, <3>4, NothingLost DEF Wal!StoreInPlaceOf, WalShapes
    <3>6. WithinLimit'
      BY <1>a, <2>1, <3>3, StoreWithinLimit
    <3> QED BY <2>1, <3>2, <3>3, <3>5, <3>6 DEF RoomToPutBack
  <2> QED BY <1>17, <2>2, <2>3 DEF PutBack
<1>18. CASE FallBack
  <2>1. AppendToWal(frame) /\ pc' # "send" /\ UNCHANGED crashes /\ frame \in Batches
    BY <1>18 DEF FallBack, ChunkDone, FromWal, Balanced
  <2> QED BY <1>a, <2>1, FrameStoredInLimit
<1>19. CASE Retry
  BY <1>19, LogStays DEF Retry, walVars, ghosts, bounds
<1>20. CASE GiveUp
  BY <1>20, LogStays DEF GiveUp, ChunkDone, walVars, bounds
<1>21. CASE ShutdownTimeout
  <2>1. pc' # "send" /\ UNCHANGED <<log, uncommitted, damage, silent, crashes, faults>>
    BY <1>21 DEF ShutdownTimeout, walVars, bounds
  <2> QED BY <2>1, LogStays
<1>22. ASSUME NEW k \in Kinds, SaveChunk(k) PROVE Unevicted'
  <2>1. AppendToWal(ChunkOf(queues[k])) /\ pc' # "send" /\ UNCHANGED crashes /\ ChunkOf(queues[k]) \in Batches
    BY <1>22, ChunkSplits DEF SaveChunk, Shapes
  <2> QED BY <1>a, <2>1, FrameStoredInLimit
<1>23. CASE SaveEnds \/ CloseAcks
  BY <1>23, LogStays DEF SaveEnds, CloseAcks, walVars, ghosts, bounds
<1>24. CASE Recv
  BY <1>24, LogStays DEF Recv, walVars, ghosts, bounds
<1>25. CASE RuntimeDropped \/ Restart
  BY <1>25, Trouble DEF RuntimeDropped, Restart
<1>26. CASE DrainMisreads \/ DrainResets
  <2>1. damage # "none" /\ crashes' = crashes /\ (faults' = faults \/ faults' = faults + 1)
    BY <1>26 DEF DrainMisreads, DrainResets, Fault, bounds
  <2>2. ~NoTrouble /\ ~NoTrouble'
    BY <2>1, BoundAssumption DEF Unevicted, Flags
  <2> QED BY <2>2 DEF Unevicted
<1>27. CASE DrainFails
  BY <1>27, Trouble DEF DrainFails, Fault
<1> QED
  BY <1>1, <1>2, <1>3, <1>4, <1>5, <1>6, <1>7, <1>8, <1>9, <1>10, <1>11, <1>12, <1>13, <1>14,
       <1>15, <1>16, <1>17, <1>18, <1>19, <1>20, <1>21, <1>22, <1>23, <1>24, <1>25,
       <1>26, <1>27
     DEF Next, ClientStep, WorkerStep, SampleStep, FlushStep, SendStep, EndStep

\* As long as nothing crashes and the disk buffer does not fail, a frame put back
\* into a full buffer evicts nothing: every eviction is one that is reported.
THEOREM NoSilentEviction == Spec => []EvictionsReported
<1>1. Init => Unevicted
  BY EmptySeq DEF Init, Unevicted, WithinLimit, RoomToPutBack
<1>2. WorkerInv /\ Unevicted /\ [Next]_vars => Unevicted'
  BY UnevictedStep DEF WorkerInv, MemoryInv
<1>3. Unevicted => EvictionsReported
  BY DEF Unevicted, NoTrouble, EvictionsReported
<1> QED BY <1>1, <1>2, <1>3, Invariance, PTL DEF Spec
=============================================================================
