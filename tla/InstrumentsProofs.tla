-------------------------- MODULE InstrumentsProofs --------------------------
(***************************************************************************)
(* Theorems about the clock and about the registry with its counters and   *)
(* gauges (modules Clock and Instruments), for every value of their        *)
(* constants.                                                              *)
(*                                                                         *)
(*   ClockInv      what the anchor and the correction say was read, and    *)
(*                 when; the timestamps follow from it by the arithmetic   *)
(*                 of whole milliseconds                                   *)
(*   Types         the types, and which steps a thread may have to take    *)
(*   Counting      what a counter has told and has still to tell, also     *)
(*                 between the load and the swap of a sample, which are    *)
(*                 always together in what the worker has to do            *)
(*   Registration  an instrument is pushed once                            *)
(*   Pass          what a pass has shipped, has planned, and will plan     *)
(*                 when it reaches a kind: never two of these, and what    *)
(*                 was there when the pass began is one of them            *)
(***************************************************************************)
EXTENDS Instruments, InductionLemmas, SequenceTheorems, FiniteSetTheorems

(* Whole milliseconds *)

LEMMA Milliseconds ==
    ASSUME NEW x \in Int
    PROVE  /\ TicksPerMs \in Int /\ TicksPerMs > 0 /\ x \div TicksPerMs \in Int
           /\ TicksPerMs * (x \div TicksPerMs) <= x
           /\ x <= TicksPerMs * (x \div TicksPerMs) + (TicksPerMs - 1)
           /\ x >= 0 => x \div TicksPerMs >= 0
BY ClockAssumption

LEMMA Spread ==
    ASSUME NEW t \in Int, NEW a \in Int, NEW b \in Int, NEW c \in Int, NEW d \in Int
    PROVE  t * (a - (b - c + d)) = t * a - t * b + t * c - t * d
OBVIOUS

LEMMA NotBelow == \A n \in Int : NotBelowZero(n) \in Nat /\ (n >= 0 => NotBelowZero(n) = n)
BY DEF NotBelowZero

(* The clock *)

\* What a system reading says, and how many milliseconds the counter was past
\* the anchor at the monotonic reading.
SystemAt(r) == NotBelowZero(r.at + r.offset) \div TicksPerMs
CounterAt(r) == (r.at + r.lag - anchor.raw) \div TicksPerMs
SinceAnchor(r) == anchor.raw <= r.at + r.lag /\ r.at + r.lag <= raw

\* The anchor and the correction together are what was read for the correction
\* in force.
InForce ==
    /\ anchor.taken = 1 => 
        /\ inForce.at <= raw /\ inForce.lag = 0 /\ correction = 0
        /\ anchor.system = SystemAt(inForce)
    /\ Anchored =>
        /\ SinceAnchor(inForce)
        /\ anchor.system + correction = SystemAt(inForce) - CounterAt(inForce)

\* What a worker has read so far in its resync.
HasRead ==
    \A w \in Workers :
        /\ done[w] = 1 => taken[w].at <= raw /\ taken[w].lag = 0
        /\ done[w] >= 1 => seen[w]["system"] = SystemAt(taken[w])
        /\ done[w] = 2 =>
            /\ Anchored /\ SinceAnchor(taken[w])
            /\ seen[w]["monotonic"] = anchor.system + CounterAt(taken[w])

ClockInv == ClockTypeOK /\ (anchor.taken = 0 => correction = 0) /\ InForce /\ HasRead

LEMMA ClockInvInit == ClockInit => ClockInv
BY ClockAssumption DEF ClockInit, ClockInv, ClockTypeOK, InForce, HasRead, Anchored, NotTaken, Taken,
   NothingSeen, Readings

LEMMA Fields ==
    ASSUME ClockTypeOK
    PROVE  /\ anchor.taken \in 0..2 /\ anchor.system \in Nat /\ anchor.raw \in Nat
           /\ inForce.offset \in Int /\ inForce.at \in Nat /\ inForce.lag \in Nat
           /\ \A w \in Workers : taken[w].offset \in Int /\ taken[w].at \in Nat /\ taken[w].lag \in Nat
BY DEF ClockTypeOK, Taken

LEMMA SystemReading ==
    ASSUME ClockTypeOK
    PROVE  /\ system_ms \in Nat /\ Offset \in Int
           /\ \A lag : SystemAt([offset |-> Offset, at |-> raw, lag |-> lag]) = system_ms
<1>1. NotBelowZero(sys) \in Nat /\ sys - raw \in Int /\ raw + (sys - raw) = sys
  BY NotBelow DEF ClockTypeOK
<1>2. NotBelowZero(sys) \div TicksPerMs \in Nat
  BY <1>1, Milliseconds
<1> QED BY <1>1, <1>2 DEF system_ms, Offset, SystemAt

LEMMA MonotonicReading ==
    ASSUME ClockTypeOK, Anchored, anchor.raw <= raw
    PROVE  monotonic_ms \in Nat
<1>1. raw - anchor.raw \in Int /\ raw - anchor.raw >= 0 /\ anchor.system \in Nat
  BY Fields DEF ClockTypeOK
<1>2. (raw - anchor.raw) \div TicksPerMs \in Int /\ (raw - anchor.raw) \div TicksPerMs >= 0
  BY <1>1, Milliseconds
<1>3. PICK n \in Nat : (raw - anchor.raw) \div TicksPerMs = n
  BY <1>2
<1> QED BY <1>1, <1>3 DEF monotonic_ms

\* Timestamps behind the system clock: as TracksSystem says.
LEMMA InvTracks == ClockInv => TracksSystem
<1> SUFFICES ASSUME ClockInv, Anchored, sys >= 0, inForce.at + inForce.offset >= 0
             PROVE  Within(Behind - (Offset - inForce.offset) - inForce.lag)
  BY DEF TracksSystem
<1> DEFINE t == TicksPerMs
           s1 == inForce.at + inForce.offset
           r2 == inForce.at + inForce.lag - anchor.raw
           r == raw - anchor.raw
           a == sys \div t
           b == r \div t
           c == r2 \div t
           d == s1 \div t
           n == b - c + d
<1>1. /\ sys \in Int /\ s1 \in Int /\ r2 \in Int /\ r \in Int /\ s1 >= 0 /\ r2 >= 0 /\ r >= r2
      /\ anchor.system \in Int /\ correction \in Int /\ inForce.lag \in Int /\ inForce.offset \in Int
      /\ raw \in Int /\ sys - s1 - (r - r2) = (Offset - inForce.offset) + inForce.lag
  BY Fields DEF ClockInv, ClockTypeOK, InForce, SinceAnchor, Offset
<1>2. /\ t \in Int /\ t > 0
      /\ a \in Int /\ t * a <= sys /\ sys <= t * a + (t - 1)
      /\ b \in Int /\ t * b <= r /\ r <= t * b + (t - 1)
      /\ c \in Int /\ t * c <= r2 /\ r2 <= t * c + (t - 1)
      /\ d \in Int /\ t * d <= s1 /\ s1 <= t * d + (t - 1)
  BY <1>1, Milliseconds
<1>3. system_ms = a
  BY <1>1, NotBelow DEF system_ms
<1>4. monotonic_ms + correction = n
  <2>1. anchor.system + correction = d - c
    BY <1>1, NotBelow DEF ClockInv, InForce, SystemAt, CounterAt
  <2> QED BY <1>1, <1>2, <2>1 DEF monotonic_ms
<1>5. /\ t * a \in Int /\ t * b \in Int /\ t * c \in Int /\ t * d \in Int
      /\ t * (a - n) = t * a - t * b + t * c - t * d
  BY <1>2, Spread
<1>6. Slack = 2 * (t - 1)
  BY DEF Slack
<1>7. CASE n >= 0
  <2>1. Behind = t * (a - n)
    BY <1>2, <1>3, <1>4, <1>7, NotBelow DEF Behind, now_ms
  <2> HIDE DEF t, s1, r2, r, a, b, c, d, n
  <2>2. Behind - (Offset - inForce.offset) - inForce.lag = Behind - (sys - s1 - (r - r2))
    BY <1>1, <1>2, <1>5, <2>1 DEF Offset
  <2> QED BY <1>1, <1>2, <1>5, <1>6, <2>1, <2>2 DEF Within
<1>8. CASE n < 0
  <2>1. Behind = t * a
    <3>1. now_ms = 0
      BY <1>2, <1>4, <1>8 DEF now_ms, NotBelowZero
    <3> QED BY <1>2, <1>3, <3>1 DEF Behind
  <2>2. t * (a - n) >= t * a
    BY <1>2, <1>8
  <2> HIDE DEF t, s1, r2, r, a, b, c, d, n
  <2>3. Behind - (Offset - inForce.offset) - inForce.lag = Behind - (sys - s1 - (r - r2))
    BY <1>1, <1>2, <1>5, <2>1 DEF Offset
  <2> QED BY <1>1, <1>2, <1>5, <1>6, <2>1, <2>2, <2>3 DEF Within
<1> QED BY <1>1, <1>2, <1>7, <1>8

LEMMA ClockStutters ==
    ASSUME ClockInv, UNCHANGED clockVars
    PROVE  ClockInv'
BY DEF ClockInv, clockVars, ClockTypeOK, InForce, HasRead, SinceAnchor, SystemAt, CounterAt, Anchored

\* What is said of the readings stays true while the anchor does and the
\* counter only goes on.
LEMMA ReadingsKeep ==
    ASSUME ClockInv, ClockTypeOK', raw <= raw',
           UNCHANGED <<anchor, correction, done, seen, taken, inForce>>
    PROVE  ClockInv'
<1>1. /\ raw \in Nat /\ raw' \in Nat
      /\ inForce.at \in Nat /\ inForce.lag \in Nat
      /\ \A w \in Workers : taken[w].at \in Nat /\ taken[w].lag \in Nat
  BY Fields DEF ClockInv, ClockTypeOK
<1>2. \A r : CounterAt(r)' = CounterAt(r) /\ SystemAt(r)' = SystemAt(r)
  BY DEF CounterAt, SystemAt
<1>3. InForce'
  <2>1. anchor.taken = 1 => inForce.at <= raw'
    BY <1>1 DEF ClockInv, InForce
  <2>2. SinceAnchor(inForce) => anchor.raw <= inForce.at + inForce.lag /\ inForce.at + inForce.lag <= raw'
    BY <1>1 DEF SinceAnchor
  <2> QED BY <1>2, <2>1, <2>2 DEF ClockInv, InForce, Anchored, SinceAnchor
<1>4. HasRead'
  <2> SUFFICES ASSUME NEW w \in Workers
               PROVE  /\ done[w] = 1 => taken[w].at <= raw' /\ taken[w].lag = 0
                      /\ done[w] >= 1 => seen[w]["system"] = SystemAt(taken[w])
                      /\ done[w] = 2 =>
                         /\ Anchored /\ anchor.raw <= taken[w].at + taken[w].lag
                         /\ taken[w].at + taken[w].lag <= raw'
                         /\ seen[w]["monotonic"] = anchor.system + CounterAt(taken[w])
    BY <1>2 DEF HasRead, Anchored, SinceAnchor
  <2> QED BY <1>1 DEF ClockInv, HasRead, SinceAnchor
<1> QED BY <1>3, <1>4 DEF ClockInv

AnchorRecords == [taken : 0..2, system : Nat, raw : Nat]

LEMMA AnchorFields ==
    ASSUME NEW a \in AnchorRecords, NEW m \in Nat
    PROVE  /\ [a EXCEPT !.taken = 1, !.system = m] \in AnchorRecords
           /\ [a EXCEPT !.taken = 1, !.system = m].taken = 1
           /\ [a EXCEPT !.taken = 1, !.system = m].system = m
           /\ [a EXCEPT !.taken = 2, !.raw = m] \in AnchorRecords
           /\ [a EXCEPT !.taken = 2, !.raw = m].taken = 2
           /\ [a EXCEPT !.taken = 2, !.raw = m].system = a.system
           /\ [a EXCEPT !.taken = 2, !.raw = m].raw = m
<1> USE DEF AnchorRecords
<1>1. /\ [a EXCEPT !.taken = 1] \in AnchorRecords
      /\ [a EXCEPT !.taken = 2] \in AnchorRecords
  OBVIOUS
<1>2. PICK b, c : b = [a EXCEPT !.taken = 1] /\ c = [a EXCEPT !.taken = 2]
  OBVIOUS
<1>3. [b EXCEPT !.system = m] \in AnchorRecords /\ [c EXCEPT !.raw = m] \in AnchorRecords
  BY <1>1, <1>2
<1>4. /\ [a EXCEPT !.taken = 1, !.system = m] = [b EXCEPT !.system = m]
      /\ [a EXCEPT !.taken = 2, !.raw = m] = [c EXCEPT !.raw = m]
  BY <1>2
<1>5. /\ [a EXCEPT !.taken = 1, !.system = m] \in AnchorRecords
      /\ [a EXCEPT !.taken = 2, !.raw = m] \in AnchorRecords
  BY <1>3, <1>4
<1>6. /\ [a EXCEPT !.taken = 1, !.system = m].taken = 1
      /\ [a EXCEPT !.taken = 1, !.system = m].system = m
      /\ [a EXCEPT !.taken = 2, !.raw = m].taken = 2
      /\ [a EXCEPT !.taken = 2, !.raw = m].system = a.system
      /\ [a EXCEPT !.taken = 2, !.raw = m].raw = m
  OBVIOUS
<1> QED BY <1>5, <1>6

LEMMA AnchorSystemKeeps ==
    ASSUME ClockInv, AnchorSystem
    PROVE  ClockInv'
<1> USE DEF AnchorSystem, worldVars
<1>1. /\ ClockTypeOK /\ system_ms \in Nat /\ Offset \in Int /\ raw \in Nat
      /\ anchor.taken = 0 /\ correction = 0
      /\ SystemAt([offset |-> Offset, at |-> raw, lag |-> 0]) = system_ms
  BY SystemReading DEF ClockInv, ClockTypeOK
<1>2. /\ anchor'.taken = 1 /\ anchor'.system = system_ms
      /\ anchor' \in [taken : 0..2, system : Nat, raw : Nat]
      /\ inForce' \in Taken /\ inForce'.at = raw /\ inForce'.lag = 0
  <2>1. inForce' = [offset |-> Offset, at |-> raw, lag |-> 0] /\ anchor \in [taken : 0..2, system : Nat, raw : Nat]
        /\ anchor' = [anchor EXCEPT !.taken = 1, !.system = system_ms]
    BY <1>1 DEF ClockTypeOK
  <2>2. inForce' \in Taken /\ inForce'.at = raw /\ inForce'.lag = 0
    BY <1>1, <2>1 DEF Taken
  <2>3. PICK m \in Nat : m = system_ms
    BY <1>1
  <2>4. anchor' = [anchor EXCEPT !.taken = 1, !.system = m]
    BY <2>1, <2>3
  <2> HIDE DEF AnchorSystem
  <2>5. anchor'.taken = 1 /\ anchor'.system = m /\ anchor' \in [taken : 0..2, system : Nat, raw : Nat]
    BY <2>1, <2>4, AnchorFields DEF AnchorRecords
  <2> QED BY <2>2, <2>3, <2>5
<1>3. ClockTypeOK'
  BY <1>1, <1>2 DEF ClockTypeOK
<1>4. \A r : SystemAt(r)' = SystemAt(r)
  BY DEF SystemAt
<1>5. InForce'
  BY <1>1, <1>2, <1>4 DEF InForce, Anchored
<1>6. HasRead'
  BY <1>1, <1>2, <1>4 DEF ClockInv, HasRead, Anchored
<1> QED BY <1>2, <1>3, <1>5, <1>6 DEF ClockInv

LEMMA AnchorRawKeeps ==
    ASSUME ClockInv, AnchorRaw
    PROVE  ClockInv'
<1> USE DEF AnchorRaw, worldVars
<1>1. /\ ClockTypeOK /\ raw \in Nat /\ anchor.taken = 1 /\ correction = 0
      /\ inForce.at \in Nat /\ inForce.at <= raw /\ anchor.system = SystemAt(inForce)
      /\ anchor.system \in Nat
  BY Fields DEF ClockInv, InForce, ClockTypeOK
<1>2. /\ anchor'.taken = 2 /\ anchor'.system = anchor.system /\ anchor'.raw = raw
      /\ anchor' \in [taken : 0..2, system : Nat, raw : Nat]
      /\ inForce' \in Taken /\ inForce'.at = inForce.at /\ inForce'.lag = raw - inForce.at
      /\ inForce'.offset = inForce.offset
  <2>1. /\ anchor \in [taken : 0..2, system : Nat, raw : Nat] /\ inForce \in [offset : Int, at : Nat, lag : Nat]
        /\ anchor' = [anchor EXCEPT !.taken = 2, !.raw = raw]
        /\ inForce' = [inForce EXCEPT !.lag = raw - inForce.at]
    BY <1>1 DEF ClockTypeOK, Taken
  <2>2. raw - inForce.at \in Nat
    BY <1>1
  <2> HIDE DEF AnchorRaw
  <2>3. /\ anchor'.taken = 2 /\ anchor'.system = anchor.system /\ anchor'.raw = raw
        /\ anchor' \in [taken : 0..2, system : Nat, raw : Nat]
    BY <1>1, <2>1, AnchorFields DEF AnchorRecords
  <2>4. /\ inForce' \in Taken /\ inForce'.at = inForce.at /\ inForce'.lag = raw - inForce.at
        /\ inForce'.offset = inForce.offset
    BY <2>1, <2>2 DEF Taken
  <2> QED BY <2>3, <2>4
<1>3. ClockTypeOK'
  BY <1>1, <1>2 DEF ClockTypeOK
<1>4. \A r : SystemAt(r)' = SystemAt(r)
  BY DEF SystemAt
<1>5. InForce'
  <2>1. inForce'.at + inForce'.lag = raw
    BY <1>1, <1>2
  <2>2. SystemAt(inForce)' = anchor.system
    BY <1>1, <1>2 DEF SystemAt
  <2>3. CounterAt(inForce)' = 0
    <3>1. CounterAt(inForce)' = 0 \div TicksPerMs
      BY <1>1, <1>2, <2>1 DEF CounterAt
    <3> QED BY <3>1, ClockAssumption
  <2>4. SinceAnchor(inForce)'
    BY <1>1, <1>2, <2>1 DEF SinceAnchor
  <2> QED BY <1>1, <1>2, <2>2, <2>3, <2>4 DEF InForce, Anchored
<1>6. HasRead'
  <2>1. \A w \in Workers : done[w] # 2
    BY <1>1 DEF ClockInv, HasRead, Anchored
  <2> QED BY <1>2, <1>4, <2>1 DEF ClockInv, HasRead
<1> QED BY <1>2, <1>3, <1>5, <1>6 DEF ClockInv

LEMMA ReadSystemKeeps ==
    ASSUME ClockInv, NEW w \in Workers, Read(w), done[w] = 0
    PROVE  ClockInv'
<1>1. /\ ClockTypeOK /\ system_ms \in Nat /\ Offset \in Int /\ raw \in Nat
      /\ SystemAt([offset |-> Offset, at |-> raw, lag |-> 0]) = system_ms
  BY SystemReading DEF ClockInv, ClockTypeOK
<1>2. ReadSystem(w) /\ done' = [done EXCEPT ![w] = 1]
      /\ UNCHANGED <<worldVars, anchor, correction, inForce, plan>>
  BY DEF Read, ReadingOrder
<1>3. /\ done'[w] = 1 /\ seen'[w]["system"] = system_ms
      /\ taken'[w] = [offset |-> Offset, at |-> raw, lag |-> 0]
      /\ \A v \in Workers \ {w} : done'[v] = done[v] /\ seen'[v] = seen[v] /\ taken'[v] = taken[v]
  BY <1>1, <1>2 DEF ClockTypeOK, ReadSystem, Readings
<1>4. ClockTypeOK'
  <2>1. [offset |-> Offset, at |-> raw, lag |-> 0] \in Taken
    BY <1>1 DEF Taken
  <2> QED BY <1>1, <1>2, <2>1 DEF ClockTypeOK, ReadSystem, worldVars, Readings
<1>5. \A r : SystemAt(r)' = SystemAt(r) /\ CounterAt(r)' = CounterAt(r) /\ SinceAnchor(r)' = SinceAnchor(r)
  BY <1>2 DEF SystemAt, CounterAt, SinceAnchor, worldVars
<1>6. InForce'
  BY <1>2, <1>5 DEF ClockInv, InForce, worldVars, Anchored
<1>7. HasRead'
  <2> SUFFICES ASSUME NEW v \in Workers
               PROVE  /\ done'[v] = 1 => taken'[v].at <= raw' /\ taken'[v].lag = 0
                      /\ done'[v] >= 1 => seen'[v]["system"] = SystemAt(taken'[v])
                      /\ done'[v] = 2 =>
                         /\ Anchored /\ SinceAnchor(taken'[v])
                         /\ seen'[v]["monotonic"] = anchor.system + CounterAt(taken'[v])
    BY <1>2, <1>5 DEF HasRead, Anchored, SystemAt, CounterAt, SinceAnchor, worldVars
  <2>1. CASE v = w
    BY <1>1, <1>2, <1>3, <2>1 DEF worldVars
  <2>2. CASE v # w
    BY <1>2, <1>3, <2>2 DEF ClockInv, HasRead, worldVars
  <2> QED BY <2>1, <2>2
<1> QED BY <1>2, <1>4, <1>6, <1>7 DEF ClockInv

LEMMA ReadMonotonicKeeps ==
    ASSUME ClockInv, NEW w \in Workers, Read(w), done[w] = 1
    PROVE  ClockInv'
<1>1. ReadMonotonic(w) /\ done' = [done EXCEPT ![w] = 2]
      /\ UNCHANGED <<worldVars, anchor, correction, inForce, plan>>
  BY DEF Read, ReadingOrder
<1>2. /\ ClockTypeOK /\ Anchored /\ raw \in Nat
      /\ anchor.raw \in Nat /\ inForce.at \in Nat /\ inForce.lag \in Nat
      /\ taken[w].at \in Nat /\ taken[w].at <= raw /\ taken[w].offset \in Int
  BY <1>1, Fields DEF ClockInv, ClockTypeOK, HasRead, ReadMonotonic
<1>3. anchor.raw <= raw
  BY <1>2 DEF ClockInv, InForce, SinceAnchor
<1>4. monotonic_ms \in Nat
  BY <1>2, <1>3, MonotonicReading
<1>5. /\ done'[w] = 2 /\ seen'[w]["monotonic"] = monotonic_ms /\ seen'[w]["system"] = seen[w]["system"]
      /\ taken'[w].at = taken[w].at /\ taken'[w].offset = taken[w].offset
      /\ taken'[w].lag = raw - taken[w].at /\ taken'[w].at + taken'[w].lag = raw
      /\ \A v \in Workers \ {w} : done'[v] = done[v] /\ seen'[v] = seen[v] /\ taken'[v] = taken[v]
  BY <1>1, <1>2 DEF ClockTypeOK, ReadMonotonic, Readings, Taken
<1>6. ClockTypeOK'
  <2>1. [taken[w] EXCEPT !.lag = raw - taken[w].at] \in Taken
    BY <1>2 DEF Taken, ClockTypeOK
  <2> QED BY <1>1, <1>2, <1>4, <2>1 DEF ClockTypeOK, ReadMonotonic, worldVars, Readings
<1>7. \A r : SystemAt(r)' = SystemAt(r) /\ CounterAt(r)' = CounterAt(r) /\ SinceAnchor(r)' = SinceAnchor(r)
  BY <1>1 DEF SystemAt, CounterAt, SinceAnchor, worldVars
<1>8. InForce'
  BY <1>1, <1>7 DEF ClockInv, InForce, worldVars, Anchored
<1>9. HasRead'
  <2> SUFFICES ASSUME NEW v \in Workers
               PROVE  /\ done'[v] = 1 => taken'[v].at <= raw' /\ taken'[v].lag = 0
                      /\ done'[v] >= 1 => seen'[v]["system"] = SystemAt(taken'[v])
                      /\ done'[v] = 2 =>
                         /\ Anchored /\ SinceAnchor(taken'[v])
                         /\ seen'[v]["monotonic"] = anchor.system + CounterAt(taken'[v])
    BY <1>1, <1>7 DEF HasRead, Anchored, SystemAt, CounterAt, SinceAnchor, worldVars
  <2>1. CASE v = w
    <3>1. SystemAt(taken'[w]) = SystemAt(taken[w])
      BY <1>5 DEF SystemAt
    <3>2. seen[w]["system"] = SystemAt(taken[w])
      BY DEF ClockInv, HasRead
    <3>3. SinceAnchor(taken'[w])
      BY <1>2, <1>3, <1>5 DEF SinceAnchor
    <3>4. monotonic_ms = anchor.system + CounterAt(taken'[w])
      <4>1. CounterAt(taken'[w]) = (raw - anchor.raw) \div TicksPerMs
        <5>1. CounterAt(taken'[w]) = (taken'[w].at + taken'[w].lag - anchor.raw) \div TicksPerMs
          BY DEF CounterAt
        <5>2. taken'[w].at + taken'[w].lag - anchor.raw = raw - anchor.raw
          <6>1. taken'[w].at + taken'[w].lag = raw
            BY <1>5
          <6>2. taken'[w].at \in Int /\ taken'[w].lag \in Int /\ anchor.raw \in Int /\ raw \in Int
            BY <1>2, <1>5
          <6> QED BY <6>1, <6>2
        <5> QED BY <5>1, <5>2, Zenon
      <4> QED BY <4>1 DEF monotonic_ms
    <3> QED BY <1>2, <1>5, <2>1, <3>1, <3>2, <3>3, <3>4
  <2>2. CASE v # w
    BY <1>1, <1>5, <2>2 DEF ClockInv, HasRead, worldVars
  <2> QED BY <2>1, <2>2
<1> QED BY <1>1, <1>6, <1>8, <1>9 DEF ClockInv

LEMMA StoreKeeps ==
    ASSUME ClockInv, NEW w \in Workers, Store(w)
    PROVE  ClockInv'
<1> USE DEF Store, Corrected
<1>1. /\ ClockTypeOK /\ Anchored /\ SinceAnchor(taken[w])
      /\ seen[w]["system"] = SystemAt(taken[w])
      /\ seen[w]["monotonic"] = anchor.system + CounterAt(taken[w])
      /\ seen[w]["system"] \in Nat /\ seen[w]["monotonic"] \in Nat
      /\ taken[w] \in Taken /\ anchor.system \in Nat
  BY Fields DEF ClockInv, HasRead, ClockTypeOK, Readings
<1>2. /\ done'[w] = 0
      /\ \A v \in Workers \ {w} : done'[v] = done[v] /\ seen'[v] = seen[v] /\ taken'[v] = taken[v]
  BY <1>1 DEF ClockTypeOK
<1>3. ClockTypeOK'
  <2>1. NothingSeen \in [Readings -> Nat] /\ NotTaken \in Taken
    BY DEF NothingSeen, NotTaken, Taken
  <2> QED BY <1>1, <2>1 DEF ClockTypeOK, worldVars
<1>4. \A r : SystemAt(r)' = SystemAt(r) /\ CounterAt(r)' = CounterAt(r) /\ SinceAnchor(r)' = SinceAnchor(r)
  BY DEF SystemAt, CounterAt, SinceAnchor, worldVars
<1>5. InForce'
  <2>1. CounterAt(taken[w]) \in Int
    <3>1. taken[w].at + taken[w].lag - anchor.raw \in Int
      BY <1>1, Fields
    <3> QED BY <3>1, Milliseconds DEF CounterAt
  <2>2. SystemAt(taken[w]) \in Nat
    BY <1>1
  <2>3. PICK s, c, m : s = SystemAt(taken[w]) /\ c = CounterAt(taken[w]) /\ m = seen[w]["monotonic"]
    OBVIOUS
  <2>4. anchor.system + (s - m) = s - c
    BY <1>1, <2>1, <2>2, <2>3
  <2>5. anchor'.system + correction' = SystemAt(taken[w]) - CounterAt(taken[w])
    BY <1>1, <2>3, <2>4
  <2>6. SystemAt(inForce)' = SystemAt(taken[w]) /\ CounterAt(inForce)' = CounterAt(taken[w])
        /\ SinceAnchor(inForce)' = SinceAnchor(taken[w])
    BY DEF SystemAt, CounterAt, SinceAnchor, worldVars
  <2>7. anchor'.taken = 2 /\ Anchored'
    BY <1>1 DEF Anchored
  <2> QED BY <1>1, <2>5, <2>6, <2>7 DEF InForce
<1>6. HasRead'
  <2> SUFFICES ASSUME NEW v \in Workers
               PROVE  /\ done'[v] = 1 => taken'[v].at <= raw' /\ taken'[v].lag = 0
                      /\ done'[v] >= 1 => seen'[v]["system"] = SystemAt(taken'[v])
                      /\ done'[v] = 2 =>
                         /\ Anchored /\ SinceAnchor(taken'[v])
                         /\ seen'[v]["monotonic"] = anchor.system + CounterAt(taken'[v])
    BY <1>4 DEF HasRead, Anchored, SystemAt, CounterAt, SinceAnchor, worldVars
  <2>1. CASE v = w
    BY <1>2, <2>1
  <2>2. CASE v # w
    BY <1>2, <2>2 DEF ClockInv, HasRead, worldVars
  <2> QED BY <2>1, <2>2
<1> QED BY <1>1, <1>3, <1>5, <1>6 DEF ClockInv, Anchored

LEMMA ClockStep == ClockInv /\ [ClockNext]_clockVars => ClockInv'
<1> SUFFICES ASSUME ClockInv, [ClockNext]_clockVars PROVE ClockInv'
  OBVIOUS
<1>1. CASE TimePasses
  <2>1. raw' = raw + 1 /\ sys' = sys + 1
        /\ UNCHANGED <<anchor, correction, done, seen, taken, inForce, jumps, plan>>
    BY <1>1 DEF TimePasses
  <2>2. ClockTypeOK' /\ raw <= raw'
    BY <2>1 DEF ClockInv, ClockTypeOK
  <2> QED BY <2>1, <2>2, ReadingsKeep
<1>2. ASSUME NEW d \in Jumps, Jump(d) PROVE ClockInv'
  <2>1. jumps' = jumps + 1 /\ sys' = sys + d /\ d \in Int
        /\ UNCHANGED <<raw, anchor, correction, done, seen, taken, inForce, plan>>
    BY <1>2, ClockAssumption DEF Jump
  <2>2. ClockTypeOK' /\ raw <= raw'
    BY <2>1 DEF ClockInv, ClockTypeOK
  <2> QED BY <2>1, <2>2, ReadingsKeep
<1>3. ASSUME NEW w \in Workers, Read(w) PROVE ClockInv'
  <2>1. done[w] = 0 \/ done[w] = 1
    BY <1>3 DEF Read, ClockInv, ClockTypeOK
  <2> QED BY <1>3, <2>1, ReadSystemKeeps, ReadMonotonicKeeps
<1> QED
  BY <1>1, <1>2, <1>3, AnchorSystemKeeps, AnchorRawKeeps, StoreKeeps, ClockStutters
  DEF ClockNext, World, TakeAnchor, resync

LEMMA StepsOfTheClock == [Next]_vars => [ClockNext]_clockVars
<1> SUFFICES ASSUME [Next]_vars PROVE [ClockNext]_clockVars
  OBVIOUS
<1>1. CASE UNCHANGED vars
  BY <1>1 DEF vars
<1>2. ASSUME NEW t \in Threads, ThreadStep(t) \/ Calls(t) PROVE UNCHANGED clockVars
  BY <1>2 DEF ThreadStep, Calls, Lock, Unlock, Push, SampleStep, CheckEmpty, Stamp, Each, LoadTotal,
     SwapShipped, Snapshot, ReadGauge, Ship
<1>3. ASSUME NEW c \in Counters, NEW n \in Amounts, Add(c, n) PROVE UNCHANGED clockVars
  BY <1>3 DEF Add
<1>4. CASE SampleTick
  BY <1>4 DEF SampleTick
<1>5. CASE Worlds \/ Anchors \/ \E w \in Workers : Resyncs(w)
  BY <1>5 DEF Worlds, Anchors, Resyncs, ClockNext
<1> QED BY <1>1, <1>2, <1>3, <1>4, <1>5 DEF Next

\* Timestamps follow the system clock (TracksSystem): however the two readings
\* of the anchor and of any number of resyncs interleave, and whatever the
\* clock does between them, the correction in force belongs to one resync.
THEOREM TimestampsTrack == Spec => []TracksSystem
<1>1. Init => ClockInv
  BY ClockInvInit DEF Init
<1>2. ClockInv /\ [Next]_vars => ClockInv'
  BY ClockStep, StepsOfTheClock
<1> QED BY <1>1, <1>2, InvTracks, PTL DEF Spec

(* Steps *)

LockSteps == {"lock", "unlock"} \X Locks
QuietSteps == LockSteps \cup ({"check", "stamp"} \X {""})
CallSteps == LockSteps \cup ({"push"} \X Instruments)

\* The steps of the worker, each with what it may be about.
SampleSteps ==
    QuietSteps \cup ({"each"} \X Kinds)
    \cup ({"load"} \X Counters) \cup ({"swap"} \X (Counters \ Cumulative))
    \cup ({"snapshot"} \X Histograms) \cup ({"read"} \X Gauges)
    \cup ({"ship"} \X (Gauges \cup {DroppedGauge}))

OwnSteps(t) == IF t = Sampler THEN SampleSteps ELSE CallSteps

Types == TypeOK /\ \A t \in Threads : todo[t] \in Seq(OwnSteps(t))

LEMMA StepSets ==
    /\ LockSteps \subseteq QuietSteps /\ QuietSteps \subseteq SampleSteps
    /\ LockSteps \subseteq CallSteps /\ CallSteps \subseteq Step /\ SampleSteps \subseteq Step
    /\ \A t : LockSteps \subseteq OwnSteps(t) /\ OwnSteps(t) \subseteq Step
BY InstrumentsAssumption DEF LockSteps, QuietSteps, CallSteps, SampleSteps, Step, OwnSteps, Ops, Locks, Kinds, Instruments

LEMMA SeqGrows ==
    ASSUME NEW S, NEW T, S \subseteq T
    PROVE  Seq(S) \subseteq Seq(T)
BY SeqMonotonic

LEMMA StepSequences ==
    /\ Seq(LockSteps) \subseteq Seq(QuietSteps) /\ Seq(QuietSteps) \subseteq Seq(SampleSteps)
    /\ Seq(LockSteps) \subseteq Seq(SampleSteps) /\ Seq(LockSteps) \subseteq Seq(CallSteps)
    /\ \A t : Seq(LockSteps) \subseteq Seq(OwnSteps(t)) /\ Seq(OwnSteps(t)) \subseteq Seq(Step)
<1>1. LockSteps \subseteq SampleSteps
  BY StepSets
<1> QED BY <1>1, StepSets, SeqGrows

LEMMA LockLists ==
    AllLocks \in Seq(LockSteps) /\ AllUnlocks \in Seq(LockSteps) /\ len \in Seq(LockSteps)
<1>1. AllLocks \in Seq(LockSteps) /\ AllUnlocks \in Seq(LockSteps)
  BY DEF AllLocks, AllUnlocks, LockSteps, Locks, Kinds
<1> QED BY <1>1, ConcatProperties DEF len

LEMMA EmptyList == \A S : <<>> \in Seq(S)
BY EmptySeq

LEMMA ShortLists ==
    ASSUME NEW S
    PROVE  /\ \A a \in S : <<a>> \in Seq(S)
           /\ \A a, b, c \in S : <<a, b, c>> \in Seq(S)
OBVIOUS

LEMMA ByAppList ==
    ASSUME NEW t, NEW steps \in Seq(OwnSteps(t))
    PROVE  ByApp(steps) \in Seq(OwnSteps(t))
<1>1. << <<"lock", "app">> >> \in Seq(LockSteps) /\ << <<"unlock", "app">> >> \in Seq(LockSteps)
  BY DEF LockSteps, Locks
<1>2. << <<"lock", "app">> >> \in Seq(OwnSteps(t)) /\ << <<"unlock", "app">> >> \in Seq(OwnSteps(t))
  BY <1>1, StepSequences
<1> QED BY <1>2, ConcatProperties DEF ByApp

LEMMA ReaderList == \A g \in Gauges : ReaderSteps(g) \in Seq(LockSteps)
<1>1. << <<"lock", "app">> >> \in Seq(LockSteps) /\ << <<"unlock", "app">> >> \in Seq(LockSteps)
  BY DEF LockSteps, Locks
<1>2. ByApp(<<>>) \in Seq(LockSteps)
  BY <1>1, EmptyList, ConcatProperties DEF ByApp
<1> QED BY <1>2, LockLists, EmptyList, InstrumentsAssumption DEF ReaderSteps

LEMMA SampleList ==
    /\ is_empty \in Seq(QuietSteps)
    /\ \A k \in Kinds : OfKind(k) \in Seq(SampleSteps)
    /\ << <<"ship", DroppedGauge>> >> \in Seq(SampleSteps)
    /\ SampleEach \in Seq(SampleSteps)
    /\ sample \in Seq(SampleSteps)
<1>1. << <<"check", "">> >> \in Seq(QuietSteps) /\ << <<"stamp", "">> >> \in Seq(QuietSteps)
  <2>1. <<"check", "">> \in QuietSteps /\ <<"stamp", "">> \in QuietSteps
    BY DEF QuietSteps
  <2> QED BY <2>1, ShortLists
<1>2. is_empty \in Seq(QuietSteps)
  BY <1>1, LockLists, StepSequences, ConcatProperties DEF is_empty
<1>3. \A k \in Kinds : OfKind(k) \in Seq(SampleSteps)
  <2> SUFFICES ASSUME NEW k \in Kinds PROVE OfKind(k) \in Seq(SampleSteps)
    OBVIOUS
  <2>1. <<"lock", k>> \in SampleSteps /\ <<"each", k>> \in SampleSteps /\ <<"unlock", k>> \in SampleSteps
    BY DEF SampleSteps, QuietSteps, LockSteps, Locks
  <2> QED BY <2>1, ShortLists DEF OfKind
<1>4. << <<"ship", DroppedGauge>> >> \in Seq(SampleSteps)
  BY DEF SampleSteps
<1>5. SampleEach \in Seq(SampleSteps)
  <2>1. OfKind("counters") \in Seq(SampleSteps) /\ OfKind("histograms") \in Seq(SampleSteps)
        /\ OfKind("gauges") \in Seq(SampleSteps)
    BY <1>3 DEF Kinds
  <2> QED BY <2>1, <1>4, ConcatProperties DEF SampleEach
<1>6. sample \in Seq(SampleSteps)
  <2>1. is_empty \in Seq(SampleSteps) /\ << <<"stamp", "">> >> \in Seq(SampleSteps)
    BY <1>1, <1>2, StepSequences
  <2> QED BY <2>1, <1>5, ConcatProperties DEF sample
<1> QED BY <1>2, <1>3, <1>4, <1>5, <1>6

LEMMA RegisterLists ==
    ASSUME NEW t \in Callers, NEW i \in Instruments
    PROVE  Asks \subseteq Seq(OwnSteps(t)) /\ Registers(i) \subseteq Seq(OwnSteps(t))
<1>1. OwnSteps(t) = CallSteps
  BY InstrumentsAssumption DEF OwnSteps
<1>2. len \in Seq(OwnSteps(t)) /\ <<>> \in Seq(OwnSteps(t))
  BY LockLists, StepSequences, EmptyList
<1>3. register(i) \in Seq(OwnSteps(t))
  BY <1>1 DEF register, CallSteps, LockSteps, Locks, Kinds, KindOf
<1> QED BY <1>2, <1>3, ByAppList DEF Asks, Registers

LEMMA EachList ==
    ASSUME NEW i \in Instruments
    PROVE  EachSteps(i) \in Seq(SampleSteps)
<1>1. CASE i \in Cumulative
  BY <1>1, InstrumentsAssumption DEF EachSteps, SampleSteps
<1>2. CASE i \in Counters \ Cumulative
  BY <1>2 DEF EachSteps, SampleSteps
<1>3. CASE i \in Histograms \ Counters
  BY <1>3, InstrumentsAssumption DEF EachSteps, SampleSteps
<1>4. CASE i \notin Counters /\ i \notin Histograms
  <2>1. i \in Gauges /\ i \notin Cumulative
    BY <1>4, InstrumentsAssumption DEF Instruments
  <2> QED BY <1>4, <2>1 DEF EachSteps, SampleSteps
<1> QED BY <1>1, <1>2, <1>3, <1>4

LEMMA FlattenIsFlat == \A ss : FlattenSeq(ss) = Flat(ss)
BY DEF FlattenSeq, Flat

LEMMA Members ==
    ASSUME NEW S, NEW s \in Seq(S)
    PROVE  /\ ToSet(s) \subseteq S
           /\ \A x : x \in ToSet(s) <=> \E j \in 1..Len(s) : s[j] = x
           /\ \A x \in S : ToSet(Append(s, x)) = ToSet(s) \cup {x}
<1>1. DOMAIN s = 1..Len(s) /\ Len(s) \in Nat /\ \A j \in 1..Len(s) : s[j] \in S
  BY LenProperties
<1>2. ASSUME NEW x \in S PROVE ToSet(Append(s, x)) = ToSet(s) \cup {x}
  <2>1. PICK t : t = Append(s, x)
    OBVIOUS
  <2>2. /\ DOMAIN t = 1..(Len(s) + 1) /\ t[Len(s) + 1] = x
        /\ \A j \in 1..Len(s) : t[j] = s[j]
    BY <2>1, AppendProperties, LenProperties
  <2>3. ToSet(t) = ToSet(s) \cup {x}
    BY <1>1, <2>2 DEF ToSet
  <2> QED BY <2>1, <2>3
<1> QED BY <1>1, <1>2 DEF ToSet

LEMMA Mapped ==
    ASSUME NEW n \in Nat, NEW P, NEW f, f = [j \in 1..n |-> f[j]], \A j \in 1..n : f[j] \in P
    PROVE  f \in Seq(P) /\ Len(f) = n
BY SeqDef

\* The steps of a loop over the instruments of a vector.
Loop(all) == FlattenSeq([n \in DOMAIN all |-> EachSteps(all[n])])

LEMMA LoopIn ==
    ASSUME NEW all \in Seq(Instruments), NEW P, P \subseteq Seq(SampleSteps), <<>> \in P,
           \A s, t \in P : s \o t \in P, \A i \in ToSet(all) : EachSteps(i) \in P
    PROVE  Loop(all) \in P
<1>1. PICK f : f = [n \in DOMAIN all |-> EachSteps(all[n])]
  OBVIOUS
<1>2. DOMAIN all = 1..Len(all) /\ Len(all) \in Nat /\ \A n \in 1..Len(all) : all[n] \in ToSet(all)
  BY LenProperties, Members
<1>3. f = [n \in 1..Len(all) |-> f[n]] /\ \A n \in 1..Len(all) : f[n] \in P
  BY <1>1, <1>2
<1>4. f \in Seq(P)
  BY <1>2, <1>3, Mapped
<1>5. Flat(f) \in P
  BY <1>4, FlattenClosed
<1> QED BY <1>1, <1>5, FlattenIsFlat DEF Loop

LEMMA LoopList == \A all \in Seq(Instruments) : Loop(all) \in Seq(SampleSteps)
<1> SUFFICES ASSUME NEW all \in Seq(Instruments) PROVE Loop(all) \in Seq(SampleSteps)
  OBVIOUS
<1>1. PICK P : P = Seq(SampleSteps)
  OBVIOUS
<1>2. <<>> \in P /\ \A s, t \in P : s \o t \in P
  BY <1>1, EmptyList, ConcatProperties
<1>3. \A i \in ToSet(all) : EachSteps(i) \in P
  BY <1>1, Members, EachList
<1>4. P \subseteq Seq(SampleSteps)
  BY <1>1
<1> QED BY <1>1, <1>2, <1>3, <1>4, LoopIn

(* Types *)

LEMMA TypesInit == Init => Types
<1> SUFFICES ASSUME Init PROVE Types
  OBVIOUS
<1> USE DEF Init
<1>1. ClockTypeOK
  BY ClockInvInit DEF ClockInv
<1>2. \A k \in Kinds : registry[k] = <<>>
  OBVIOUS
<1>3. /\ registry \in [Kinds -> Seq(Instruments)]
      /\ \A k \in Kinds : ToSet(registry[k]) = {}
  BY EmptyList DEF ToSet
<1>4. /\ lock \in [Locks -> Threads \cup {Free}] /\ todo \in [Threads -> Seq(Step)]
      /\ \A t \in Threads : todo[t] \in Seq(OwnSteps(t))
      /\ out \in Seq(Instruments \cup {DroppedGauge})
  BY EmptyList
<1>5. plan \in Plans /\ plan.passes \in Nat /\ plan.calls \in Nat /\ plan.adds \in Nat
  BY InstrumentsAssumption DEF ClockInit
<1>6. 0 \in 0..(Modulus - 1)
  BY InstrumentsAssumption
<1> QED BY <1>1, <1>3, <1>4, <1>5, <1>6 DEF Types, TypeOK

LEMMA OwnStepsOf ==
    /\ Sampler \in Threads /\ OwnSteps(Sampler) = SampleSteps
    /\ \A t \in Callers : t \in Threads /\ t # Sampler /\ OwnSteps(t) = CallSteps
BY InstrumentsAssumption DEF Threads, OwnSteps

\* What it takes for the steps of a thread to be replaced.
LEMMA Continued ==
    ASSUME Types, NEW t \in Threads, NEW steps \in Seq(OwnSteps(t)), Continue(t, steps)
    PROVE  /\ todo' \in [Threads -> Seq(Step)]
           /\ \A u \in Threads : todo'[u] \in Seq(OwnSteps(u))
           /\ todo'[t] = steps /\ \A u \in Threads \ {t} : todo'[u] = todo[u]
<1>1. steps \in Seq(Step)
  BY StepSequences
<1> QED BY <1>1 DEF Types, TypeOK, Continue

\* The first step of a thread.
LEMMA HeadStep ==
    ASSUME Types, NEW t \in Threads, todo[t] # <<>>
    PROVE  /\ NextStep(t) = todo[t][1] /\ NextStep(t) \in OwnSteps(t)
           /\ Tail(todo[t]) \in Seq(OwnSteps(t)) /\ Len(Tail(todo[t])) = Len(todo[t]) - 1
           /\ \A j \in 1..(Len(todo[t]) - 1) : Tail(todo[t])[j] = todo[t][j + 1]
           /\ Len(todo[t]) \in Nat /\ Len(todo[t]) >= 1
           /\ \A j \in 1..Len(todo[t]) : todo[t][j] \in OwnSteps(t)
<1>1. PICK s : s = todo[t] /\ s \in Seq(OwnSteps(t)) /\ s # <<>>
  BY DEF Types
<1>2. Head(s) = s[1] /\ Head(s) \in OwnSteps(t)
  BY <1>1, HeadTailProperties
<1>3. Tail(s) \in Seq(OwnSteps(t)) /\ Len(Tail(s)) = Len(s) - 1
      /\ \A j \in 1..(Len(s) - 1) : Tail(s)[j] = s[j + 1]
  BY <1>1, HeadTailProperties
<1>4. Len(s) \in Nat /\ Len(s) >= 1 /\ \A j \in 1..Len(s) : s[j] \in OwnSteps(t)
  BY <1>1, EmptySeq, LenProperties
<1> QED BY <1>1, <1>2, <1>3, <1>4 DEF NextStep

\* What a step is about.
LEMMA Abouts ==
    ASSUME NEW s \in SampleSteps \cup CallSteps
    PROVE  /\ s[1] \in {"lock", "unlock"} => s \in LockSteps /\ s[2] \in Locks
           /\ s[1] = "push" => s[2] \in Instruments /\ s \in CallSteps /\ s \notin SampleSteps
           /\ s[1] = "each" => s[2] \in Kinds
           /\ s[1] = "load" => s[2] \in Counters
           /\ s[1] = "swap" => s[2] \in Counters \ Cumulative
           /\ s[1] = "snapshot" => s[2] \in Histograms
           /\ s[1] = "read" => s[2] \in Gauges
           /\ s[1] = "ship" => s[2] \in Gauges \cup {DroppedGauge}
           /\ s = <<s[1], s[2]>>
<1>1. \E op, x : s = <<op, x>>
  <2>1. \A A, B : \A p \in A \X B : \E op, x : p = <<op, x>>
    OBVIOUS
  <2>2. \E A, B : s \in A \X B
    BY Zenon DEF SampleSteps, CallSteps, QuietSteps, LockSteps
  <2> QED BY <2>1, <2>2
<1>2. PICK op, x : s = <<op, x>>
  BY <1>1
<1>3. s[1] = op /\ s[2] = x
  BY <1>2
<1> QED BY <1>2, <1>3 DEF SampleSteps, CallSteps, QuietSteps, LockSteps

LEMMA Next1 ==
    ASSUME Types, NEW t \in Threads, NEW op, Does(t, op)
    PROVE  /\ todo[t] # <<>> /\ NextStep(t)[1] = op /\ NextStep(t) \in OwnSteps(t)
           /\ NextStep(t) \in SampleSteps \cup CallSteps
           /\ Tail(todo[t]) \in Seq(OwnSteps(t))
BY HeadStep DEF Does, OwnSteps

LEMMA Advanced ==
    ASSUME Types, NEW t \in Threads, NEW op, Does(t, op), Advance(t)
    PROVE  /\ todo' \in [Threads -> Seq(Step)]
           /\ \A u \in Threads : todo'[u] \in Seq(OwnSteps(u))
BY Next1, Continued DEF Advance

LEMMA LockTypes ==
    ASSUME Types, ClockTypeOK', NEW t \in Threads, Lock(t) \/ Unlock(t) \/ Push(t)
    PROVE  Types'
<1>1. /\ todo' \in [Threads -> Seq(Step)]
      /\ \A u \in Threads : todo'[u] \in Seq(OwnSteps(u))
  BY Advanced DEF Lock, Unlock, Push
<1>2. CASE Lock(t)
  <2>1. lock' \in [Locks -> Threads \cup {Free}]
    BY <1>2 DEF Lock, Types, TypeOK
  <2> QED BY <1>1, <1>2, <2>1 DEF Lock, Types, TypeOK, clockVars, cellVars, passVars, callVars
<1>3. CASE Unlock(t)
  <2>1. lock' \in [Locks -> Threads \cup {Free}]
    BY <1>3 DEF Unlock, Types, TypeOK
  <2> QED BY <1>1, <1>3, <2>1 DEF Unlock, Types, TypeOK, clockVars, cellVars, passVars, callVars
<1>4. CASE Push(t)
  <2>1. PICK i \in Instruments : i = NextStep(t)[2]
    BY <1>4, Next1, Abouts DEF Push
  <2>2. KindOf(i) \in Kinds
    BY DEF KindOf, Kinds
  <2>3. registry' = [registry EXCEPT ![KindOf(i)] = Append(registry[KindOf(i)], i)]
    BY <1>4, <2>1 DEF Push
  <2>4. registry[KindOf(i)] \in Seq(Instruments) /\ registry \in [Kinds -> Seq(Instruments)]
        /\ \A k \in Kinds : \A x \in ToSet(registry[k]) : KindOf(x) = k
    BY <2>2 DEF Types, TypeOK
  <2>5. Append(registry[KindOf(i)], i) \in Seq(Instruments)
        /\ ToSet(Append(registry[KindOf(i)], i)) = ToSet(registry[KindOf(i)]) \cup {i}
    BY <2>4, AppendProperties, Members
  <2>6. registry' \in [Kinds -> Seq(Instruments)]
        /\ \A k \in Kinds : \A x \in ToSet(registry'[k]) : KindOf(x) = k
    BY <2>2, <2>3, <2>4, <2>5
  <2> QED BY <1>1, <1>4, <2>6 DEF Push, Types, TypeOK, clockVars, cellVars, passVars, callVars
<1> QED BY <1>2, <1>3, <1>4

LEMMA CallsTypes ==
    ASSUME Types, ClockTypeOK', NEW t, Calls(t)
    PROVE  Types'
<1>1. t \in Callers /\ t \in Threads /\ calls \in 0..plan.calls /\ calls < plan.calls /\ calls' = calls + 1
      /\ begun \subseteq Instruments
  BY OwnStepsOf DEF Calls, Types, TypeOK
<1>2. PICK steps : Continue(t, steps) /\ steps \in Seq(OwnSteps(t)) /\ begun' \subseteq Instruments
  <2>1. CASE \E steps \in Asks : Continue(t, steps) /\ UNCHANGED begun
    <3>1. PICK steps \in Asks : Continue(t, steps) /\ UNCHANGED begun
      BY <2>1
    <3>2. Asks \subseteq Seq(OwnSteps(t))
      <4>1. CASE Instruments # {}
        BY <1>1, <4>1, RegisterLists
      <4>2. CASE Instruments = {}
        BY <1>1, LockLists, StepSequences, EmptyList, ByAppList DEF Asks
      <4> QED BY <4>1, <4>2
    <3> QED BY <1>1, <3>1, <3>2
  <2>2. CASE \E i \in Instruments \ begun : \E steps \in Registers(i) :
               Continue(t, steps) /\ begun' = begun \cup {i}
    <3>0. PICK i \in Instruments \ begun :
            \E steps \in Registers(i) : Continue(t, steps) /\ begun' = begun \cup {i}
      BY <2>2
    <3>1. PICK steps \in Registers(i) : Continue(t, steps) /\ begun' = begun \cup {i}
      BY <3>0
    <3>2. steps \in Seq(OwnSteps(t))
      BY <1>1, <3>1, RegisterLists
    <3> QED BY <1>1, <3>1, <3>2
  <2> QED BY <2>1, <2>2 DEF Calls
<1>3. /\ todo' \in [Threads -> Seq(Step)]
      /\ \A u \in Threads : todo'[u] \in Seq(OwnSteps(u))
  BY <1>1, <1>2, Continued
<1>4. plan.calls \in Nat
  BY InstrumentsAssumption DEF Types, TypeOK, ClockTypeOK
<1>5. calls' \in 0..plan.calls
  BY <1>1, <1>4
<1> QED BY <1>2, <1>3, <1>5 DEF Calls, Types, TypeOK, clockVars, cellVars, passVars

LEMMA AddTypes ==
    ASSUME Types, ClockTypeOK', NEW c \in Counters, NEW n \in Amounts, Add(c, n)
    PROVE  Types'
<1>1. /\ total[c] \in 0..(Modulus - 1) /\ n \in 0..(Modulus - 1) /\ added[c] \in Nat
      /\ adds \in 0..plan.adds /\ adds < plan.adds /\ adds' = adds + 1 /\ plan.adds \in Nat
  BY InstrumentsAssumption DEF Add, Types, TypeOK, ClockTypeOK
<1>2. (total[c] + n) % Modulus \in 0..(Modulus - 1)
  BY <1>1, InstrumentsAssumption
<1>3. total' \in [Counters -> 0..(Modulus - 1)] /\ added' \in [Counters -> Nat]
  BY <1>1, <1>2, SMTT(30), ZenonT(30) DEF Add, Types, TypeOK
<1>4. adds' \in 0..plan.adds
  BY <1>1
<1> QED BY <1>3, <1>4 DEF Add, Types, TypeOK, clockVars, passVars, callVars

LEMMA NowTyped ==
    ASSUME ClockInv, Anchored
    PROVE  now_ms \in Nat
<1>1. /\ ClockTypeOK /\ anchor.raw <= inForce.at + inForce.lag /\ inForce.at + inForce.lag <= raw
      /\ anchor.raw \in Nat /\ inForce.at \in Nat /\ inForce.lag \in Nat /\ raw \in Nat /\ correction \in Int
  BY Fields DEF ClockInv, ClockTypeOK, InForce, SinceAnchor
<1>2. anchor.raw <= raw
  BY <1>1
<1>3. monotonic_ms \in Nat
  BY <1>1, <1>2, MonotonicReading
<1>4. PICK m \in Nat : m = monotonic_ms
  BY <1>3
<1>5. m + correction \in Int
  BY <1>1
<1> QED BY <1>4, <1>5, NotBelow DEF now_ms

LEMMA RegisteredOf ==
    ASSUME Types
    PROVE  /\ Registered \subseteq Instruments
           /\ \A i : i \in Registered <=> \E k \in Kinds : i \in ToSet(registry[k])
           /\ \A k \in Kinds : registry[k] \in Seq(Instruments) /\ ToSet(registry[k]) \subseteq Instruments
           /\ \A i \in Registered : KindOf(i) \in Kinds /\ i \in ToSet(registry[KindOf(i)])
<1>1. \A k \in Kinds : registry[k] \in Seq(Instruments) /\ ToSet(registry[k]) \subseteq Instruments
                       /\ \A i \in ToSet(registry[k]) : KindOf(i) = k
  BY Members DEF Types, TypeOK
<1>2. \A i : i \in Registered <=> \E k \in Kinds : i \in ToSet(registry[k])
  BY DEF Registered
<1> QED BY <1>1, <1>2

LEMMA TickTypes ==
    ASSUME Types, ClockTypeOK', SampleTick
    PROVE  Types'
<1>1. /\ todo' \in [Threads -> Seq(Step)]
      /\ \A u \in Threads : todo'[u] \in Seq(OwnSteps(u))
  BY OwnStepsOf, SampleList, Continued DEF SampleTick
<1>2. Registered \subseteq Instruments /\ out' = <<>> /\ present' = Registered
  BY RegisteredOf DEF SampleTick
<1>3. out' \in Seq(Instruments \cup {DroppedGauge})
  BY <1>2, EmptyList
<1>4. /\ passes \in 0..plan.passes /\ passes < plan.passes /\ passes' = passes + 1 /\ plan.passes \in Nat
  BY InstrumentsAssumption DEF SampleTick, Types, TypeOK, ClockTypeOK
<1>5. passes' \in 0..plan.passes
  BY <1>4
<1> QED BY <1>1, <1>2, <1>3, <1>5 DEF SampleTick, Types, TypeOK, clockVars, cellVars, callVars

LEMMA ShippedOut ==
    ASSUME Types, NEW i \in Instruments \cup {DroppedGauge}
    PROVE  Append(out, i) \in Seq(Instruments \cup {DroppedGauge})
           /\ ToSet(Append(out, i)) = ToSet(out) \cup {i}
<1>1. PICK S : S = Instruments \cup {DroppedGauge}
  OBVIOUS
<1>2. out \in Seq(S) /\ i \in S
  BY <1>1 DEF Types, TypeOK
<1> QED BY <1>1, <1>2, AppendProperties, Members

LEMMA SampleTypes ==
    ASSUME Types, ClockInv, ClockTypeOK', SampleStep
    PROVE  Types'
<1> USE OwnStepsOf
<1>0. /\ \A k \in Kinds : k \in Kinds => registry[k] \in Seq(Instruments)
      /\ now \in 0..(Modulus - 1) /\ out \in Seq(Instruments \cup {DroppedGauge})
      /\ 0 \in 0..(Modulus - 1)
  BY InstrumentsAssumption DEF Types, TypeOK
<1>1. CASE CheckEmpty
  <2>1. todo[Sampler] # <<>> /\ Tail(todo[Sampler]) \in Seq(SampleSteps) /\ AllUnlocks \in Seq(SampleSteps)
    BY <1>1, Next1, LockLists, StepSequences DEF CheckEmpty
  <2>2. PICK steps \in Seq(SampleSteps) : Continue(Sampler, steps)
    BY <1>1, <2>1 DEF CheckEmpty
  <2>3. /\ todo' \in [Threads -> Seq(Step)]
        /\ \A u \in Threads : todo'[u] \in Seq(OwnSteps(u))
    BY <2>2, Continued
  <2> QED BY <1>1, <2>3 DEF CheckEmpty, Types, TypeOK, clockVars, cellVars, passVars, callVars
<1>2. CASE Stamp
  <2>1. /\ todo' \in [Threads -> Seq(Step)]
        /\ \A u \in Threads : todo'[u] \in Seq(OwnSteps(u))
    BY <1>2, Advanced DEF Stamp
  <2>2. stamp' \in Nat
    BY <1>2, NowTyped DEF Stamp
  <2> QED BY <1>2, <2>1, <2>2 DEF Stamp, Types, TypeOK, clockVars, cellVars, callVars
<1>3. CASE Each
  <2>1. PICK k \in Kinds : k = NextStep(Sampler)[2]
    BY <1>3, Next1, Abouts DEF Each
  <2>2. Continue(Sampler, Loop(registry[k]) \o Tail(todo[Sampler]))
    BY <1>3, <2>1 DEF Each, Loop
  <2>3. Tail(todo[Sampler]) \in Seq(SampleSteps) /\ Loop(registry[k]) \in Seq(SampleSteps)
    BY <1>0, <1>3, <2>1, Next1, LoopList DEF Each
  <2>4. PICK steps \in Seq(SampleSteps) : steps = Loop(registry[k]) \o Tail(todo[Sampler])
    BY <2>3, ConcatProperties
  <2>5. /\ todo' \in [Threads -> Seq(Step)]
        /\ \A u \in Threads : todo'[u] \in Seq(OwnSteps(u))
    BY <2>2, <2>4, Continued
  <2> QED BY <1>3, <2>5 DEF Each, Types, TypeOK, clockVars, cellVars, passVars, callVars
<1>4. CASE LoadTotal
  <2>1. /\ todo' \in [Threads -> Seq(Step)]
        /\ \A u \in Threads : todo'[u] \in Seq(OwnSteps(u))
    BY <1>4, Advanced DEF LoadTotal
  <2>2. PICK c \in Counters : c = NextStep(Sampler)[2]
    BY <1>4, Next1, Abouts DEF LoadTotal
  <2>3. total[c] \in 0..(Modulus - 1) /\ total[c] \in Nat /\ collected \in [Counters -> Nat]
    BY InstrumentsAssumption DEF Types, TypeOK
  <2>4. now' \in 0..(Modulus - 1)
    BY <1>0, <1>4, <2>2, <2>3 DEF LoadTotal
  <2>5. out' \in Seq(Instruments \cup {DroppedGauge})
    BY <1>0, <1>4, <2>2, ShippedOut DEF LoadTotal, Instruments
  <2>6. collected' \in [Counters -> Nat]
    BY <1>4, <2>2, <2>3 DEF LoadTotal
  <2> QED BY <1>4, <2>1, <2>4, <2>5, <2>6 DEF LoadTotal, Types, TypeOK, clockVars, callVars
<1>5. CASE SwapShipped
  <2>1. /\ todo' \in [Threads -> Seq(Step)]
        /\ \A u \in Threads : todo'[u] \in Seq(OwnSteps(u))
    BY <1>5, Advanced DEF SwapShipped
  <2>2. PICK c \in Counters : c = NextStep(Sampler)[2]
    BY <1>5, Next1, Abouts DEF SwapShipped
  <2>3. /\ shipped \in [Counters -> 0..(Modulus - 1)] /\ collected \in [Counters -> Nat]
        /\ now - shipped[c] \in Int
    BY <1>0, InstrumentsAssumption DEF Types, TypeOK
  <2>4. shipped' \in [Counters -> 0..(Modulus - 1)]
    BY <1>0, <1>5, <2>2, <2>3 DEF SwapShipped, ShippedNow
  <2>5. PICK d \in Nat : d = Delta(c)
    BY <2>3, NotBelow DEF Delta
  <2>6. collected' \in [Counters -> Nat]
    BY <1>5, <2>2, <2>3, <2>5 DEF SwapShipped
  <2>7. out' \in Seq(Instruments \cup {DroppedGauge})
    BY <1>5, <2>2, ShippedOut DEF SwapShipped, Instruments
  <2> QED BY <1>0, <1>5, <2>1, <2>4, <2>6, <2>7 DEF SwapShipped, Types, TypeOK, clockVars, callVars
<1>6. CASE Snapshot
  <2>1. /\ todo' \in [Threads -> Seq(Step)]
        /\ \A u \in Threads : todo'[u] \in Seq(OwnSteps(u))
    BY <1>6, Advanced DEF Snapshot
  <2>2. PICK i \in Histograms : i = NextStep(Sampler)[2]
    BY <1>6, Next1, Abouts DEF Snapshot
  <2>3. out' \in Seq(Instruments \cup {DroppedGauge})
    BY <1>0, <1>6, <2>2, ShippedOut DEF Snapshot, Instruments
  <2> QED BY <1>6, <2>1, <2>3 DEF Snapshot, Types, TypeOK, clockVars, cellVars, callVars
<1>7. CASE ReadGauge
  <2>1. PICK g \in Gauges : g = NextStep(Sampler)[2]
    BY <1>7, Next1, Abouts DEF ReadGauge
  <2>2. Tail(todo[Sampler]) \in Seq(SampleSteps) /\ ReaderSteps(g) \in Seq(SampleSteps)
    BY <1>7, Next1, ReaderList, StepSequences DEF ReadGauge
  <2>3. PICK steps \in Seq(SampleSteps) : steps = ReaderSteps(g) \o Tail(todo[Sampler])
    BY <2>2, ConcatProperties
  <2>4. /\ todo' \in [Threads -> Seq(Step)]
        /\ \A u \in Threads : todo'[u] \in Seq(OwnSteps(u))
    BY <1>7, <2>1, <2>3, Continued DEF ReadGauge
  <2> QED BY <1>7, <2>4 DEF ReadGauge, Types, TypeOK, clockVars, cellVars, passVars, callVars
<1>8. CASE Ship
  <2>1. /\ todo' \in [Threads -> Seq(Step)]
        /\ \A u \in Threads : todo'[u] \in Seq(OwnSteps(u))
    BY <1>8, Advanced DEF Ship
  <2>2. PICK i \in Gauges \cup {DroppedGauge} : i = NextStep(Sampler)[2]
    BY <1>8, Next1, Abouts DEF Ship
  <2>3. out' \in Seq(Instruments \cup {DroppedGauge})
    BY <1>8, <2>2, ShippedOut DEF Ship, Instruments
  <2> QED BY <1>8, <2>1, <2>3 DEF Ship, Types, TypeOK, clockVars, cellVars, callVars
<1> QED BY <1>1, <1>2, <1>3, <1>4, <1>5, <1>6, <1>7, <1>8 DEF SampleStep

LEMMA TypesStutter ==
    ASSUME Types, ClockTypeOK', UNCHANGED <<registry, lock, todo, cellVars, passVars, callVars>>, plan' = plan
    PROVE  Types'
BY DEF Types, TypeOK, cellVars, passVars, callVars

LEMMA PlanKeeps == [Next]_vars => plan' = plan
BY StepsOfTheClock
DEF ClockNext, clockVars, World, TimePasses, Jump, TakeAnchor, AnchorSystem, AnchorRaw, resync, Read, Store

LEMMA TypesStep == Types /\ ClockInv /\ [Next]_vars => Types'
<1> SUFFICES ASSUME Types, ClockInv, [Next]_vars PROVE Types'
  OBVIOUS
<1>1. ClockTypeOK' /\ plan' = plan
  BY ClockStep, StepsOfTheClock, PlanKeeps DEF ClockInv
<1>2. CASE UNCHANGED vars
  BY <1>1, <1>2, TypesStutter DEF vars
<1>3. CASE Worlds \/ Anchors \/ \E w \in Workers : Resyncs(w)
  BY <1>1, <1>3, TypesStutter DEF Worlds, Anchors, Resyncs, BesideSampling
<1> QED
  BY <1>1, <1>2, <1>3, LockTypes, CallsTypes, AddTypes, TickTypes, SampleTypes DEF Next, ThreadStep

LEMMA TypesAlways == Spec => [](Types /\ ClockInv)
<1>1. Init => Types /\ ClockInv
  BY TypesInit, ClockInvInit DEF Init
<1>2. Types /\ ClockInv /\ [Next]_vars => (Types /\ ClockInv)'
  BY TypesStep, ClockStep, StepsOfTheClock
<1> QED BY <1>1, <1>2, PTL DEF Spec

\* Every variable has its type.
THEOREM TypesHold == Spec => []TypeOK
BY TypesAlways, PTL DEF Types

(* Counters *)

\* In what a thread has still to do a swap comes right after the load of its
\* counter, unless that has just been done.
HeadPaired(T) == \A j \in 2..Len(T) : T[j][1] = "swap" => T[j - 1] = <<"load", T[j][2]>>
Paired(T) == HeadPaired(T) /\ (Len(T) >= 1 => T[1][1] # "swap")

LEMMA ConcatPaired ==
    ASSUME NEW S, NEW s \in Seq(S), NEW t \in Seq(S), Paired(t)
    PROVE  /\ HeadPaired(s) => HeadPaired(s \o t)
           /\ Paired(s) => Paired(s \o t)
<1>1. PICK T : T = s \o t
  OBVIOUS
<1>2. /\ Len(s) \in Nat /\ Len(t) \in Nat /\ Len(T) = Len(s) + Len(t)
      /\ \A i \in 1..Len(s) : T[i] = s[i]
      /\ \A i \in 1..Len(t) : T[Len(s) + i] = t[i]
  BY <1>1, ConcatProperties, LenProperties
<1>3. ASSUME HeadPaired(s) PROVE HeadPaired(T)
  <2> SUFFICES ASSUME NEW j \in 2..Len(T), T[j][1] = "swap" PROVE T[j - 1] = <<"load", T[j][2]>>
    BY DEF HeadPaired
  <2>1. CASE j <= Len(s)
    <3>1. j \in 2..Len(s) /\ j \in 1..Len(s) /\ j - 1 \in 1..Len(s)
      BY <1>2, <2>1
    <3> QED BY <1>2, <1>3, <3>1 DEF HeadPaired
  <2>2. CASE j > Len(s)
    <3>1. PICK i : i = j - Len(s)
      OBVIOUS
    <3>2. i \in 1..Len(t) /\ j = Len(s) + i
      BY <1>2, <2>2, <3>1
    <3>3. i # 1
      BY <1>2, <3>2 DEF Paired
    <3>4. i \in 2..Len(t) /\ i - 1 \in 1..Len(t) /\ Len(s) + (i - 1) = j - 1
      BY <1>2, <3>2, <3>3
    <3>5. T[j] = t[i] /\ T[j - 1] = t[i - 1]
      <4>1. T[Len(s) + i] = t[i] /\ T[Len(s) + (i - 1)] = t[i - 1]
        BY <1>2, <3>2, <3>4
      <4> QED BY <3>2, <3>4, <4>1
    <3>6. t[i][1] = "swap" => t[i - 1] = <<"load", t[i][2]>>
      BY <3>4 DEF Paired, HeadPaired
    <3> QED BY <3>5, <3>6
  <2> QED BY <1>2, <2>1, <2>2
<1>4. ASSUME Paired(s) PROVE Paired(T)
  <2>1. CASE Len(s) = 0
    BY <1>2, <1>3, <1>4, <2>1 DEF Paired
  <2>2. CASE Len(s) # 0
    <3>1. 1 \in 1..Len(s)
      BY <1>2, <2>2
    <3> QED BY <1>2, <1>3, <1>4, <3>1 DEF Paired
  <2> QED BY <2>1, <2>2
<1> QED BY <1>1, <1>3, <1>4

LEMMA QuietPaired == \A s \in Seq(QuietSteps) : Paired(s)
<1> SUFFICES ASSUME NEW s \in Seq(QuietSteps) PROVE Paired(s)
  OBVIOUS
<1>1. \A j \in 1..Len(s) : s[j] \in QuietSteps
  BY LenProperties
<1>2. \A q \in QuietSteps : q[1] # "swap"
  BY DEF QuietSteps, LockSteps
<1> QED BY <1>1, <1>2, LenProperties DEF Paired, HeadPaired

LEMMA EachPaired == \A i \in Instruments : Paired(EachSteps(i))
<1> SUFFICES ASSUME NEW i \in Instruments PROVE Paired(EachSteps(i))
  OBVIOUS
<1>1. \A a : a[1] # "swap" => Paired(<<a>>)
  BY DEF Paired, HeadPaired
<1>2. Paired(<< <<"load", i>>, <<"swap", i>> >>)
  BY DEF Paired, HeadPaired
<1>3. Paired(<< <<"read", i>>, <<"ship", i>> >>)
  BY DEF Paired, HeadPaired
<1>4. Paired(<< <<"load", i>> >>) /\ Paired(<< <<"snapshot", i>> >>)
  BY <1>1
<1> QED BY <1>2, <1>3, <1>4 DEF EachSteps

LEMMA LoopPaired == \A all \in Seq(Instruments) : Paired(Loop(all))
<1> SUFFICES ASSUME NEW all \in Seq(Instruments) PROVE Paired(Loop(all))
  OBVIOUS
<1>1. PICK P : P = {s \in Seq(SampleSteps) : Paired(s)}
  OBVIOUS
<1>2. <<>> \in P
  <2>1. Paired(<<>>)
    BY DEF Paired, HeadPaired
  <2> QED BY <1>1, <2>1, EmptyList
<1>3. \A s, t \in P : s \o t \in P
  BY <1>1, ConcatPaired, ConcatProperties
<1>4. P \subseteq Seq(SampleSteps)
  BY <1>1
<1>5. \A i \in ToSet(all) : EachSteps(i) \in P
  BY <1>1, Members, EachList, EachPaired
<1>6. Loop(all) \in P
  BY <1>2, <1>3, <1>4, <1>5, LoopIn
<1> QED BY <1>1, <1>6

LEMMA SamplePaired == Paired(sample)
<1>1. \A k : Paired(OfKind(k))
  BY DEF OfKind, Paired, HeadPaired
<1>2. Paired(<< <<"ship", DroppedGauge>> >>)
  BY DEF Paired, HeadPaired
<1>3. Paired(SampleEach)
  <2>1. PICK a, b, c, d : a = OfKind("counters") /\ b = OfKind("histograms") /\ c = OfKind("gauges")
                       /\ d = << <<"ship", DroppedGauge>> >>
    OBVIOUS
  <2>2. /\ a \in Seq(SampleSteps) /\ b \in Seq(SampleSteps) /\ c \in Seq(SampleSteps) /\ d \in Seq(SampleSteps)
        /\ Paired(a) /\ Paired(b) /\ Paired(c) /\ Paired(d)
    BY <1>1, <1>2, <2>1, SampleList DEF Kinds
  <2>3. a \o b \in Seq(SampleSteps) /\ Paired(a \o b)
    BY <2>2, ConcatPaired, ConcatProperties
  <2>4. (a \o b) \o c \in Seq(SampleSteps) /\ Paired((a \o b) \o c)
    BY <2>2, <2>3, ConcatPaired, ConcatProperties
  <2>5. Paired(((a \o b) \o c) \o d)
    BY <2>2, <2>4, ConcatPaired
  <2> QED BY <2>1, <2>5 DEF SampleEach
<1>4. is_empty \in Seq(SampleSteps) /\ << <<"stamp", "">> >> \in Seq(SampleSteps)
      /\ Paired(is_empty) /\ Paired(<< <<"stamp", "">> >>)
  <2>1. << <<"stamp", "">> >> \in Seq(QuietSteps)
    BY ShortLists DEF QuietSteps
  <2> QED BY <2>1, SampleList, StepSequences, QuietPaired
<1> QED
  <2>1. PICK a, b, c : a = is_empty /\ b = << <<"stamp", "">> >> /\ c = SampleEach
    OBVIOUS
  <2>2. a \in Seq(SampleSteps) /\ b \in Seq(SampleSteps) /\ c \in Seq(SampleSteps)
        /\ Paired(a) /\ Paired(b) /\ Paired(c)
    BY <1>3, <1>4, <2>1, SampleList
  <2>3. a \o b \in Seq(SampleSteps) /\ Paired(a \o b)
    BY <2>2, ConcatPaired, ConcatProperties
  <2>4. (a \o b) \o a \in Seq(SampleSteps) /\ Paired((a \o b) \o a)
    BY <2>2, <2>3, ConcatPaired, ConcatProperties
  <2>5. Paired(((a \o b) \o a) \o c)
    BY <2>2, <2>4, ConcatPaired
  <2> QED BY <2>1, <2>5 DEF sample

\* The points of a counter and its atomics.  A total that wraps falls behind
\* what was added, and never catches up.
Counted(c) ==
    /\ total[c] <= added[c] /\ collected[c] <= added[c]
    /\ added[c] < Modulus => total[c] = added[c]
    /\ c \notin Cumulative =>
        /\ collected[c] + total[c] <= added[c] + shipped[c]
        /\ added[c] < Modulus => collected[c] = shipped[c]

\* The same with the total that was loaded, between a load and its swap.
Loaded(c) ==
    /\ collected[c] + total[c] <= added[c] + now
    /\ collected[c] + now <= added[c] + shipped[c]
    /\ added[c] < Modulus => shipped[c] <= now

Swapping == Len(todo[Sampler]) >= 1 /\ todo[Sampler][1][1] = "swap"

Counting ==
    /\ \A c \in Counters : Counted(c)
    /\ HeadPaired(todo[Sampler])
    /\ Swapping => Loaded(todo[Sampler][1][2])

LEMMA CountingSays == Types /\ Counting => DeltasAddUp
BY DEF Types, TypeOK, Counting, Counted, DeltasAddUp

LEMMA CountingInit == Init => Counting
<1> SUFFICES ASSUME Init PROVE Counting
  OBVIOUS
<1>1. todo[Sampler] = <<>>
  BY OwnStepsOf DEF Init
<1>2. Len(todo[Sampler]) = 0
  BY <1>1
<1> QED BY <1>2 DEF Init, Counting, Counted, HeadPaired, Swapping

LEMMA CountingKeeps ==
    ASSUME Counting, UNCHANGED cellVars, HeadPaired(todo'[Sampler]),
           \/ todo'[Sampler] = todo[Sampler]
           \/ Paired(todo'[Sampler])
    PROVE  Counting'
<1>1. \A c : Counted(c)' = Counted(c) /\ Loaded(c)' = Loaded(c)
  BY DEF cellVars, Counted, Loaded
<1>2. Swapping' => todo'[Sampler] = todo[Sampler]
  BY DEF Swapping, Paired
<1> QED BY <1>1, <1>2 DEF Counting, Swapping, HeadPaired

\* A step is off the list.
LEMMA TailPaired ==
    ASSUME Types, Counting, todo[Sampler] # <<>>
    PROVE  /\ HeadPaired(Tail(todo[Sampler]))
           /\ NextStep(Sampler)[1] # "load" => Paired(Tail(todo[Sampler]))
           /\ Len(Tail(todo[Sampler])) >= 1 /\ Tail(todo[Sampler])[1][1] = "swap"
                => NextStep(Sampler) = <<"load", Tail(todo[Sampler])[1][2]>>
<1>1. PICK T : T = todo[Sampler]
  OBVIOUS
<1>2. PICK U : U = Tail(todo[Sampler])
  OBVIOUS
<1>3. /\ Len(T) \in Nat /\ Len(T) >= 1 /\ Len(U) = Len(T) - 1 /\ NextStep(Sampler) = T[1]
      /\ \A j \in 1..(Len(T) - 1) : U[j] = T[j + 1]
  BY <1>1, <1>2, HeadStep, OwnStepsOf
<1>4. HeadPaired(T)
  BY <1>1 DEF Counting
<1>5. ASSUME NEW j \in 1..Len(U), U[j][1] = "swap" PROVE T[j] = <<"load", U[j][2]>>
  <2>1. j + 1 \in 2..Len(T) /\ (j + 1) - 1 = j /\ U[j] = T[j + 1]
    BY <1>3
  <2>2. T[j + 1][1] = "swap"
    BY <1>5, <2>1
  <2>3. T[(j + 1) - 1] = <<"load", T[j + 1][2]>>
    BY <1>4, <2>1, <2>2 DEF HeadPaired
  <2> QED BY <2>1, <2>3
<1>6. HeadPaired(U)
  <2> SUFFICES ASSUME NEW j \in 2..Len(U), U[j][1] = "swap" PROVE U[j - 1] = <<"load", U[j][2]>>
    BY DEF HeadPaired
  <2>1. j \in 1..Len(U) /\ j - 1 \in 1..(Len(T) - 1) /\ (j - 1) + 1 = j
    BY <1>3
  <2>2. U[j - 1] = T[(j - 1) + 1]
    BY <1>3, <2>1
  <2> QED BY <1>5, <2>1, <2>2
<1>7. ASSUME Len(U) >= 1, U[1][1] = "swap" PROVE T[1] = <<"load", U[1][2]>>
  <2>1. 1 \in 1..Len(U)
    BY <1>3, <1>7
  <2> QED BY <1>5, <1>7, <2>1
<1>8. \A x : <<"load", x>>[1] = "load"
  OBVIOUS
<1> QED BY <1>2, <1>3, <1>6, <1>7, <1>8 DEF Paired

\* Nothing of the worker is at hand in what the others do.
LEMMA OthersKeepTodo ==
    ASSUME Types, NEW t \in Threads, t # Sampler, ThreadStep(t) \/ Calls(t)
    PROVE  todo'[Sampler] = todo[Sampler] /\ UNCHANGED cellVars
<1>1. ASSUME NEW steps, Continue(t, steps) PROVE todo'[Sampler] = todo[Sampler]
  BY <1>1, OwnStepsOf DEF Continue, Types, TypeOK
<1> QED BY <1>1 DEF ThreadStep, Calls, Lock, Unlock, Push, Advance

LEMMA AddCounts ==
    ASSUME Types, Counting, NEW c \in Counters, NEW n \in Amounts, Add(c, n)
    PROVE  Counting'
<1>1. /\ total \in [Counters -> 0..(Modulus - 1)] /\ shipped \in [Counters -> 0..(Modulus - 1)]
      /\ added \in [Counters -> Nat] /\ collected \in [Counters -> Nat] /\ now \in 0..(Modulus - 1)
      /\ Modulus \in Nat /\ Modulus > 0 /\ n \in 0..(Modulus - 1)
  BY InstrumentsAssumption DEF Types, TypeOK
<1>2. /\ total' = [total EXCEPT ![c] = (total[c] + n) % Modulus]
      /\ added' = [added EXCEPT ![c] = added[c] + n]
      /\ UNCHANGED <<shipped, now, collected, todo>>
  BY DEF Add
<1>3. PICK r : r = (total[c] + n) % Modulus
  OBVIOUS
<1>4. r \in Nat /\ r <= total[c] + n /\ (total[c] + n < Modulus => r = total[c] + n)
  <2>1. total[c] + n \in Nat
    BY <1>1
  <2> QED BY <1>1, <1>3, <2>1
<1>5. total'[c] = r /\ added'[c] = added[c] + n
      /\ \A d \in Counters \ {c} : total'[d] = total[d] /\ added'[d] = added[d]
  BY <1>1, <1>2, <1>3
<1>6. ASSUME NEW d \in Counters PROVE Counted(d)'
  <2>1. Counted(d)
    BY DEF Counting
  <2>2. CASE d = c
    BY <1>1, <1>2, <1>4, <1>5, <2>1, <2>2 DEF Counted
  <2>3. CASE d # c
    BY <1>1, <1>2, <1>5, <2>1, <2>3 DEF Counted
  <2> QED BY <2>2, <2>3
<1>7. ASSUME NEW d \in Counters, Loaded(d) PROVE Loaded(d)'
  <2>1. CASE d = c
    BY <1>1, <1>2, <1>4, <1>5, <1>7, <2>1 DEF Loaded
  <2>2. CASE d # c
    BY <1>1, <1>2, <1>5, <1>7, <2>2 DEF Loaded
  <2> QED BY <2>1, <2>2
<1>8. Swapping => todo[Sampler][1][2] \in Counters
  <2> SUFFICES ASSUME Swapping PROVE todo[Sampler][1][2] \in Counters
    OBVIOUS
  <2>1. todo[Sampler][1] \in SampleSteps
    BY OwnStepsOf, LenProperties DEF Types, Swapping
  <2> QED BY <2>1, Abouts DEF Swapping
<1> QED BY <1>2, <1>6, <1>7, <1>8 DEF Counting, Swapping, HeadPaired

LEMMA LoadCounts ==
    ASSUME Types, Counting, LoadTotal
    PROVE  Counting'
<1>1. /\ total \in [Counters -> 0..(Modulus - 1)] /\ shipped \in [Counters -> 0..(Modulus - 1)]
      /\ added \in [Counters -> Nat] /\ collected \in [Counters -> Nat] /\ now \in 0..(Modulus - 1)
      /\ Modulus \in Nat /\ Modulus > 0
  BY InstrumentsAssumption DEF Types, TypeOK
<1>2. PICK c \in Counters : c = NextStep(Sampler)[2]
  BY OwnStepsOf, Next1, Abouts DEF LoadTotal
<1>3. /\ todo[Sampler] # <<>> /\ todo'[Sampler] = Tail(todo[Sampler])
      /\ UNCHANGED <<total, shipped, added>>
  BY OwnStepsOf, Next1, Continued DEF LoadTotal, Advance
<1>4. /\ c \in Cumulative => collected' = [collected EXCEPT ![c] = total[c]]
      /\ c \notin Cumulative => collected' = collected /\ now' = total[c]
  BY <1>2 DEF LoadTotal
<1>5. ASSUME NEW d \in Counters PROVE Counted(d)'
  <2>1. Counted(d)
    BY DEF Counting
  <2>2. CASE d = c /\ c \in Cumulative
    BY <1>1, <1>3, <1>4, <2>1, <2>2 DEF Counted
  <2>3. CASE d # c \/ c \notin Cumulative
    <3>1. collected'[d] = collected[d]
      BY <1>1, <1>4, <2>3
    <3> QED BY <1>3, <2>1, <3>1 DEF Counted
  <2> QED BY <2>2, <2>3
<1>6. HeadPaired(todo'[Sampler])
  BY <1>3, TailPaired
<1>7. ASSUME Swapping' PROVE c = todo'[Sampler][1][2] /\ Loaded(c)'
  <2>1. NextStep(Sampler) = <<"load", todo'[Sampler][1][2]>>
    BY <1>3, <1>7, TailPaired DEF Swapping
  <2>2. c = todo'[Sampler][1][2]
    BY <1>2, <2>1
  <2>3. c \notin Cumulative
    <3>1. todo'[Sampler][1] \in SampleSteps
      <4>1. Tail(todo[Sampler]) \in Seq(SampleSteps)
        BY <1>3, OwnStepsOf, HeadStep
      <4> QED BY <1>3, <1>7, <4>1, LenProperties DEF Swapping
    <3> QED BY <1>7, <2>2, <3>1, Abouts DEF Swapping
  <2>4. Counted(c) /\ collected' = collected /\ now' = total[c]
    BY <1>4, <2>3 DEF Counting
  <2>5. total[c] \in Int /\ shipped[c] \in Int /\ added[c] \in Int /\ collected[c] \in Int
    BY <1>1
  <2>6. /\ collected[c] + total[c] <= added[c] + total[c]
        /\ collected[c] + total[c] <= added[c] + shipped[c]
        /\ added[c] < Modulus => shipped[c] <= total[c]
    BY <1>1, <2>3, <2>4, <2>5 DEF Counted
  <2> QED BY <1>3, <2>2, <2>4, <2>6 DEF Loaded
<1> QED BY <1>5, <1>6, <1>7 DEF Counting

LEMMA SwapCounts ==
    ASSUME Types, Counting, SwapShipped
    PROVE  Counting'
<1>1. /\ total \in [Counters -> 0..(Modulus - 1)] /\ shipped \in [Counters -> 0..(Modulus - 1)]
      /\ added \in [Counters -> Nat] /\ collected \in [Counters -> Nat] /\ now \in 0..(Modulus - 1)
      /\ Modulus \in Nat /\ Modulus > 0
  BY InstrumentsAssumption DEF Types, TypeOK
<1>2. PICK c \in Counters : c = NextStep(Sampler)[2] /\ c \notin Cumulative
  BY OwnStepsOf, Next1, Abouts DEF SwapShipped
<1>3. /\ todo[Sampler] # <<>> /\ todo'[Sampler] = Tail(todo[Sampler])
      /\ NextStep(Sampler)[1] = "swap" /\ UNCHANGED <<total, added>>
  BY OwnStepsOf, Next1, Continued DEF SwapShipped, Advance
<1>4. PICK delta \in Nat :
        delta = NotBelowZero(now - shipped[c]) /\ collected' = [collected EXCEPT ![c] = collected[c] + delta]
        /\ shipped' = [shipped EXCEPT ![c] = now]
  <2>1. now - shipped[c] \in Int
    BY <1>1
  <2>2. PICK delta \in Nat : delta = NotBelowZero(now - shipped[c])
    BY <2>1, NotBelow
  <2> QED BY <1>2, <2>2 DEF SwapShipped, ShippedNow, Delta
<1>5. (now >= shipped[c] => delta = now - shipped[c]) /\ (now < shipped[c] => delta = 0)
  BY <1>1, <1>4 DEF NotBelowZero
<1>6. Loaded(c) /\ Counted(c)
  <2>1. NextStep(Sampler) = todo[Sampler][1] /\ Len(todo[Sampler]) >= 1
    BY <1>3, OwnStepsOf, HeadStep
  <2> QED BY <1>2, <1>3, <2>1 DEF Counting, Swapping
<1>7. ASSUME NEW d \in Counters PROVE Counted(d)'
  <2>1. Counted(d)
    BY DEF Counting
  <2>2. CASE d = c
    <3>1. collected'[c] = collected[c] + delta /\ shipped'[c] = now
      BY <1>1, <1>4
    <3>2. collected[c] + delta <= added[c] /\ (collected[c] + delta) + total[c] <= added[c] + now
          /\ (added[c] < Modulus => collected[c] + delta = now)
      BY <1>1, <1>2, <1>5, <1>6 DEF Loaded, Counted
    <3> QED BY <1>1, <1>2, <1>3, <1>6, <2>2, <3>1, <3>2 DEF Counted
  <2>3. CASE d # c
    <3>1. collected'[d] = collected[d] /\ shipped'[d] = shipped[d]
      BY <1>1, <1>4, <2>3
    <3> QED BY <1>3, <2>1, <3>1 DEF Counted
  <2> QED BY <2>2, <2>3
<1>8. Paired(todo'[Sampler])
  BY <1>3, TailPaired
<1> QED BY <1>7, <1>8 DEF Counting, Paired, Swapping

LEMMA CountingStep == Types /\ ClockInv /\ Counting /\ [Next]_vars => Counting'
<1> SUFFICES ASSUME Types, ClockInv, Counting, [Next]_vars PROVE Counting'
  OBVIOUS
<1> USE OwnStepsOf
<1>1. CASE UNCHANGED vars
  BY <1>1, CountingKeeps DEF vars, Counting
<1>2. CASE Worlds \/ Anchors \/ \E w \in Workers : Resyncs(w)
  BY <1>2, CountingKeeps DEF Worlds, Anchors, Resyncs, BesideSampling, Counting
<1>3. ASSUME NEW t \in Threads, t # Sampler, ThreadStep(t) \/ Calls(t) PROVE Counting'
  BY <1>3, OthersKeepTodo, CountingKeeps DEF Counting
<1>4. ASSUME NEW c \in Counters, NEW n \in Amounts, Add(c, n) PROVE Counting'
  BY <1>4, AddCounts
<1>5. CASE SampleTick
  <2>1. todo'[Sampler] = sample /\ UNCHANGED cellVars
    BY <1>5, SampleList, Continued DEF SampleTick
  <2> QED BY <2>1, SamplePaired, CountingKeeps DEF Paired
<1>6. CASE Lock(Sampler) \/ Unlock(Sampler) \/ Push(Sampler) \/ Stamp \/ Snapshot \/ Ship
  <2>1. PICK op \in {"lock", "unlock", "push", "stamp", "snapshot", "ship"} : Does(Sampler, op)
        /\ Advance(Sampler) /\ UNCHANGED cellVars
    BY <1>6 DEF Lock, Unlock, Push, Stamp, Snapshot, Ship
  <2>2. todo[Sampler] # <<>> /\ NextStep(Sampler)[1] # "load" /\ todo'[Sampler] = Tail(todo[Sampler])
    BY <2>1, Next1, Continued DEF Advance
  <2> QED BY <2>1, <2>2, TailPaired, CountingKeeps DEF Paired
<1>7. CASE CheckEmpty
  <2>1. /\ todo[Sampler] # <<>> /\ NextStep(Sampler)[1] # "load" /\ Tail(todo[Sampler]) \in Seq(SampleSteps)
        /\ UNCHANGED cellVars
    BY <1>7, Next1 DEF CheckEmpty
  <2>2. AllUnlocks \in Seq(SampleSteps) /\ Paired(AllUnlocks) /\ Paired(Tail(todo[Sampler]))
    BY <2>1, LockLists, StepSequences, QuietPaired, TailPaired
  <2>3. PICK steps \in Seq(SampleSteps) : Continue(Sampler, steps) /\ Paired(steps)
    BY <1>7, <2>1, <2>2 DEF CheckEmpty
  <2>4. todo'[Sampler] = steps
    BY <2>3, Continued
  <2> QED BY <2>1, <2>3, <2>4, CountingKeeps DEF Paired
<1>8. CASE Each
  <2>1. PICK k \in Kinds : k = NextStep(Sampler)[2]
    BY <1>8, Next1, Abouts DEF Each
  <2>2. registry[k] \in Seq(Instruments)
    BY DEF Types, TypeOK
  <2>3. PICK a, b : a = Loop(registry[k]) /\ b = Tail(todo[Sampler])
    OBVIOUS
  <2>4. a \in Seq(SampleSteps) /\ b \in Seq(SampleSteps) /\ Paired(a)
    BY <1>8, <2>2, <2>3, Next1, LoopList, LoopPaired DEF Each
  <2>5. todo[Sampler] # <<>> /\ NextStep(Sampler)[1] # "load"
    BY <1>8, Next1 DEF Each
  <2>6. Paired(b)
    BY <2>3, <2>5, TailPaired
  <2>7. a \o b \in Seq(SampleSteps) /\ Paired(a \o b)
    BY <2>4, <2>6, ConcatPaired, ConcatProperties
  <2>8. todo'[Sampler] = a \o b /\ UNCHANGED cellVars
    <3>1. Continue(Sampler, a \o b) /\ UNCHANGED cellVars
      BY <1>8, <2>1, <2>3 DEF Each, Loop
    <3> QED BY <2>7, <3>1, Continued
  <2> QED BY <2>7, <2>8, CountingKeeps DEF Paired
<1>9. CASE ReadGauge
  <2>1. PICK g \in Gauges : g = NextStep(Sampler)[2]
    BY <1>9, Next1, Abouts DEF ReadGauge
  <2>2. PICK a, b : a = ReaderSteps(g) /\ b = Tail(todo[Sampler])
    OBVIOUS
  <2>3. a \in Seq(SampleSteps) /\ b \in Seq(SampleSteps) /\ Paired(a)
    BY <1>9, <2>1, <2>2, Next1, ReaderList, StepSequences, QuietPaired DEF ReadGauge
  <2>4. todo[Sampler] # <<>> /\ NextStep(Sampler)[1] # "load"
    BY <1>9, Next1 DEF ReadGauge
  <2>5. Paired(b)
    BY <2>2, <2>4, TailPaired
  <2>6. a \o b \in Seq(SampleSteps) /\ Paired(a \o b)
    BY <2>3, <2>5, ConcatPaired, ConcatProperties
  <2>7. todo'[Sampler] = a \o b /\ UNCHANGED cellVars
    <3>1. Continue(Sampler, a \o b) /\ UNCHANGED cellVars
      BY <1>9, <2>1, <2>2 DEF ReadGauge
    <3> QED BY <2>6, <3>1, Continued
  <2> QED BY <2>6, <2>7, CountingKeeps DEF Paired
<1>10. ~Calls(Sampler)
  BY DEF Calls
<1>11. Next \/ UNCHANGED vars
  OBVIOUS
<1> QED
  BY <1>1, <1>2, <1>3, <1>4, <1>5, <1>6, <1>7, <1>8, <1>9, <1>10, <1>11, LoadCounts, SwapCounts
  DEF Next, ThreadStep, SampleStep

\* No addition is lost or told twice (DeltasAddUp), however many land between a
\* load and its swap, and a total that wraps makes the points say less, never
\* more.  It takes that the two steps of a sample are always together.
THEOREM PointsAddUp == Spec => []DeltasAddUp
<1>1. Init => Counting
  BY CountingInit
<1>2. Types /\ ClockInv /\ Counting /\ [Next]_vars => Counting'
  BY CountingStep
<1>3. Types /\ Counting => DeltasAddUp
  BY CountingSays
<1> QED BY <1>1, <1>2, <1>3, TypesAlways, PTL DEF Spec

(* Samples *)

\* What of a step must not be done twice: a loop, a registration, a point.
Ends(s) == s[1] \in {"swap", "snapshot", "ship"} \/ (s[1] = "load" /\ s[2] \in Cumulative)
TagOf(s) ==
    IF s[1] \in {"each", "push"} THEN {s} ELSE IF Ends(s) THEN {<<"ship", s[2]>>} ELSE {}
Tags(T) == UNION {TagOf(T[j]) : j \in 1..Len(T)}
Distinct(T) == \A j, k \in 1..Len(T) : j # k => TagOf(T[j]) \cap TagOf(T[k]) = {}

LEMMA TagsOf == \A T, x : x \in Tags(T) <=> \E j \in 1..Len(T) : x \in TagOf(T[j])
BY DEF Tags

LEMMA ConcatTags ==
    ASSUME NEW S, NEW s \in Seq(S), NEW t \in Seq(S)
    PROVE  /\ Tags(s \o t) = Tags(s) \cup Tags(t)
           /\ Distinct(s) /\ Distinct(t) /\ Tags(s) \cap Tags(t) = {} => Distinct(s \o t)
<1>1. PICK T : T = s \o t
  OBVIOUS
<1>2. /\ Len(s) \in Nat /\ Len(t) \in Nat /\ Len(T) = Len(s) + Len(t)
      /\ \A i \in 1..Len(s) : T[i] = s[i]
      /\ \A i \in 1..Len(t) : T[Len(s) + i] = t[i]
  BY <1>1, ConcatProperties, LenProperties
<1>3. \A j \in 1..Len(T) : \/ j \in 1..Len(s)
                           \/ \E i \in 1..Len(t) : j = Len(s) + i
  <2> SUFFICES ASSUME NEW j \in 1..Len(T), ~(j \in 1..Len(s)) PROVE \E i \in 1..Len(t) : j = Len(s) + i
    OBVIOUS
  <2>1. j - Len(s) \in 1..Len(t) /\ j = Len(s) + (j - Len(s))
    BY <1>2
  <2> QED BY <2>1
<1>4. /\ \A i \in 1..Len(s) : i \in 1..Len(T)
      /\ \A i \in 1..Len(t) : Len(s) + i \in 1..Len(T)
  BY <1>2
<1>5. ASSUME NEW x PROVE x \in Tags(T) <=> x \in Tags(s) \/ x \in Tags(t)
  <2>1. ASSUME x \in Tags(T) PROVE x \in Tags(s) \/ x \in Tags(t)
    <3>1. PICK j \in 1..Len(T) : x \in TagOf(T[j])
      BY <2>1, TagsOf
    <3>2. CASE j \in 1..Len(s)
      BY <1>2, <3>1, <3>2, TagsOf
    <3>3. CASE \E i \in 1..Len(t) : j = Len(s) + i
      BY <1>2, <3>1, <3>3, TagsOf
    <3> QED BY <1>3, <3>2, <3>3
  <2>2. ASSUME x \in Tags(s) PROVE x \in Tags(T)
    BY <1>2, <1>4, <2>2, TagsOf
  <2>3. ASSUME x \in Tags(t) PROVE x \in Tags(T)
    BY <1>2, <1>4, <2>3, TagsOf
  <2> QED BY <2>1, <2>2, <2>3
<1>6. ASSUME Distinct(s), Distinct(t), Tags(s) \cap Tags(t) = {} PROVE Distinct(T)
  <2> SUFFICES ASSUME NEW j \in 1..Len(T), NEW k \in 1..Len(T), j # k,
                      NEW x, x \in TagOf(T[j]), x \in TagOf(T[k])
               PROVE  FALSE
    BY DEF Distinct
  <2>1. CASE j \in 1..Len(s) /\ k \in 1..Len(s)
    BY <1>2, <1>6, <2>1 DEF Distinct
  <2>2. ASSUME NEW i \in 1..Len(s), NEW l \in 1..Len(t), x \in TagOf(T[i]), x \in TagOf(T[Len(s) + l])
        PROVE  FALSE
    BY <1>2, <1>6, <2>2, TagsOf
  <2>3. ASSUME NEW i \in 1..Len(t), NEW l \in 1..Len(t), j = Len(s) + i, k = Len(s) + l
        PROVE  FALSE
    <3>1. i # l /\ T[j] = t[i] /\ T[k] = t[l]
      BY <1>2, <2>3
    <3> QED BY <1>6, <3>1 DEF Distinct
  <2> QED BY <1>3, <2>1, <2>2, <2>3
<1> QED BY <1>1, <1>5, <1>6

LEMMA JoinTags ==
    ASSUME NEW S, NEW s \in Seq(S), NEW t \in Seq(S), NEW A, NEW B,
           Tags(s) = A, Tags(t) = B, Distinct(s), Distinct(t), A \cap B = {}
    PROVE  s \o t \in Seq(S) /\ Tags(s \o t) = A \cup B /\ Distinct(s \o t)
<1>1. s \o t \in Seq(S)
  BY ConcatProperties
<1> QED BY <1>1, ConcatTags

LEMMA TailTags ==
    ASSUME NEW S, NEW T \in Seq(S), T # <<>>
    PROVE  /\ Tags(T) = TagOf(T[1]) \cup Tags(Tail(T))
           /\ Distinct(T) => Distinct(Tail(T)) /\ TagOf(T[1]) \cap Tags(Tail(T)) = {}
<1>1. PICK U : U = Tail(T)
  OBVIOUS
<1>2. /\ Len(T) \in Nat /\ Len(T) >= 1 /\ Len(U) = Len(T) - 1
      /\ \A j \in 1..(Len(T) - 1) : U[j] = T[j + 1]
  BY <1>1, HeadTailProperties, EmptySeq, LenProperties
<1>3. /\ 1 \in 1..Len(T) /\ \A j \in 1..Len(U) : j + 1 \in 1..Len(T) /\ j + 1 # 1 /\ U[j] = T[j + 1]
  BY <1>2
<1>4. \A j \in 1..Len(T) : j = 1 \/ \E i \in 1..Len(U) : j = i + 1
  <2> SUFFICES ASSUME NEW j \in 1..Len(T), j # 1 PROVE \E i \in 1..Len(U) : j = i + 1
    OBVIOUS
  <2>1. j - 1 \in 1..Len(U) /\ j = (j - 1) + 1
    BY <1>2
  <2> QED BY <2>1
<1>5. ASSUME NEW x PROVE x \in Tags(T) <=> x \in TagOf(T[1]) \/ x \in Tags(U)
  <2>1. ASSUME x \in Tags(T) PROVE x \in TagOf(T[1]) \/ x \in Tags(U)
    <3>1. PICK j \in 1..Len(T) : x \in TagOf(T[j])
      BY <2>1, TagsOf
    <3> QED BY <1>3, <1>4, <3>1, TagsOf
  <2>2. ASSUME x \in TagOf(T[1]) PROVE x \in Tags(T)
    BY <1>3, <2>2, TagsOf
  <2>3. ASSUME x \in Tags(U) PROVE x \in Tags(T)
    BY <1>3, <2>3, TagsOf
  <2> QED BY <2>1, <2>2, <2>3
<1>6. ASSUME Distinct(T) PROVE Distinct(U)
  <2> SUFFICES ASSUME NEW j \in 1..Len(U), NEW k \in 1..Len(U), j # k
               PROVE  TagOf(U[j]) \cap TagOf(U[k]) = {}
    BY DEF Distinct
  <2>1. j + 1 # k + 1
    BY <1>2
  <2> QED BY <1>3, <1>6, <2>1 DEF Distinct
<1>7. ASSUME Distinct(T), NEW x, x \in TagOf(T[1]), x \in Tags(U) PROVE FALSE
  <2>1. PICK j \in 1..Len(U) : x \in TagOf(U[j])
    BY <1>7, TagsOf
  <2> QED BY <1>3, <1>7, <2>1 DEF Distinct
<1> QED BY <1>1, <1>5, <1>6, <1>7

LEMMA QuietTags == \A s \in Seq(QuietSteps) : Tags(s) = {} /\ Distinct(s)
<1> SUFFICES ASSUME NEW s \in Seq(QuietSteps) PROVE Tags(s) = {} /\ Distinct(s)
  OBVIOUS
<1>1. \A j \in 1..Len(s) : s[j] \in QuietSteps
  BY LenProperties
<1>2. \A q \in QuietSteps : TagOf(q) = {}
  BY DEF QuietSteps, LockSteps, TagOf, Ends
<1>3. \A j \in 1..Len(s) : TagOf(s[j]) = {}
  BY <1>1, <1>2
<1> QED BY <1>3 DEF Tags, Distinct

LEMMA OneTag ==
    ASSUME NEW a
    PROVE  Tags(<<a>>) = TagOf(a) /\ Distinct(<<a>>)
<1>1. PICK T : T = <<a>>
  OBVIOUS
<1>2. Len(T) = 1 /\ T[1] = a /\ 1..Len(T) = {1}
  BY <1>1
<1>3. \A x : x \in Tags(T) <=> x \in TagOf(a)
  BY <1>2, TagsOf
<1> QED BY <1>1, <1>2, <1>3 DEF Distinct

LEMMA TwoTags ==
    ASSUME NEW a, NEW b, TagOf(a) \cap TagOf(b) = {}
    PROVE  Tags(<<a, b>>) = TagOf(a) \cup TagOf(b) /\ Distinct(<<a, b>>)
<1>1. PICK T : T = <<a, b>>
  OBVIOUS
<1>2. Len(T) = 2 /\ T[1] = a /\ T[2] = b /\ 1..Len(T) = {1, 2}
  BY <1>1
<1>3. \A x : x \in Tags(T) <=> x \in TagOf(a) \/ x \in TagOf(b)
  BY <1>2, TagsOf
<1>4. Distinct(T)
  BY <1>2 DEF Distinct
<1> QED BY <1>1, <1>3, <1>4

LEMMA ThreeTags ==
    ASSUME NEW a, NEW b, NEW c, TagOf(a) = {}, TagOf(c) = {}
    PROVE  Tags(<<a, b, c>>) = TagOf(b) /\ Distinct(<<a, b, c>>)
<1>1. PICK T : T = <<a, b, c>>
  OBVIOUS
<1>2. Len(T) = 3 /\ T[1] = a /\ T[2] = b /\ T[3] = c /\ 1..Len(T) = {1, 2, 3}
  BY <1>1
<1>3. \A x : x \in Tags(T) <=> x \in TagOf(b)
  BY <1>2, TagsOf
<1>4. Distinct(T)
  BY <1>2 DEF Distinct
<1> QED BY <1>1, <1>3, <1>4

LEMMA TagByOp ==
    ASSUME NEW x
    PROVE  /\ \A op \in {"each", "push"} : TagOf(<<op, x>>) = {<<op, x>>}
           /\ \A op \in {"swap", "snapshot", "ship"} : TagOf(<<op, x>>) = {<<"ship", x>>}
           /\ x \in Cumulative => TagOf(<<"load", x>>) = {<<"ship", x>>}
           /\ x \notin Cumulative => TagOf(<<"load", x>>) = {}
           /\ \A op \in {"lock", "unlock", "check", "stamp", "read"} : TagOf(<<op, x>>) = {}
<1>1. \A op : <<op, x>>[1] = op /\ <<op, x>>[2] = x
  OBVIOUS
<1>2. \A op : Ends(<<op, x>>) <=> op \in {"swap", "snapshot", "ship"} \/ (op = "load" /\ x \in Cumulative)
  BY <1>1 DEF Ends
<1>3. \A op : TagOf(<<op, x>>) = IF op \in {"each", "push"} THEN {<<op, x>>}
                               ELSE IF Ends(<<op, x>>) THEN {<<"ship", x>>} ELSE {}
  BY <1>1, Zenon DEF TagOf
<1>4. \A op \in {"each", "push"} : TagOf(<<op, x>>) = {<<op, x>>}
  BY <1>3, Zenon
<1>5. \A op : op \notin {"each", "push"} /\ Ends(<<op, x>>) => TagOf(<<op, x>>) = {<<"ship", x>>}
  BY <1>3, Zenon
<1>6. \A op : op \notin {"each", "push"} /\ ~Ends(<<op, x>>) => TagOf(<<op, x>>) = {}
  BY <1>3, Zenon
<1>7. \A op \in {"swap", "snapshot", "ship", "load", "lock", "unlock", "check", "stamp", "read"} :
        op \notin {"each", "push"}
  OBVIOUS
<1>8. \A op \in {"swap", "snapshot", "ship"} : TagOf(<<op, x>>) = {<<"ship", x>>}
  <2> SUFFICES ASSUME NEW op, op \in {"swap", "snapshot", "ship"} PROVE TagOf(<<op, x>>) = {<<"ship", x>>}
    OBVIOUS
  <2>0. Ends(<<op, x>>) <=> op \in {"swap", "snapshot", "ship"} \/ (op = "load" /\ x \in Cumulative)
    BY <1>2, Zenon
  <2>1. Ends(<<op, x>>)
    BY <2>0, Zenon
  <2>2. op \notin {"each", "push"}
    BY <1>7
  <2> QED BY <1>5, <2>1, <2>2, Zenon
<1>9. (x \in Cumulative => TagOf(<<"load", x>>) = {<<"ship", x>>})
      /\ (x \notin Cumulative => TagOf(<<"load", x>>) = {})
  <2>1. "load" \notin {"each", "push"} /\ (Ends(<<"load", x>>) <=> x \in Cumulative)
    BY <1>2
  <2> QED BY <1>5, <1>6, <2>1, Zenon
<1>10. \A op \in {"lock", "unlock", "check", "stamp", "read"} : TagOf(<<op, x>>) = {}
  <2> SUFFICES ASSUME NEW op \in {"lock", "unlock", "check", "stamp", "read"} PROVE TagOf(<<op, x>>) = {}
    OBVIOUS
  <2>1. op \notin {"each", "push"} /\ ~Ends(<<op, x>>)
    BY <1>2
  <2> QED BY <1>6, <2>1, Zenon
<1> QED BY <1>4, <1>8, <1>9, <1>10, Zenon

LEMMA EachTags ==
    ASSUME NEW i \in Instruments
    PROVE  Tags(EachSteps(i)) = {<<"ship", i>>} /\ Distinct(EachSteps(i))
<1>1. CASE i \in Cumulative
  <2>1. TagOf(<<"load", i>>) = {<<"ship", i>>}
    BY <1>1 DEF TagOf, Ends
  <2> QED BY <1>1, <2>1, OneTag DEF EachSteps
<1>2. CASE i \in Counters /\ i \notin Cumulative
  <2>1. TagOf(<<"load", i>>) = {} /\ TagOf(<<"swap", i>>) = {<<"ship", i>>}
    BY <1>2, TagByOp
  <2> QED BY <1>2, <2>1, TwoTags DEF EachSteps
<1>3. CASE i \notin Counters /\ i \in Histograms
  <2>1. TagOf(<<"snapshot", i>>) = {<<"ship", i>>} /\ i \notin Cumulative
    BY <1>3, TagByOp, InstrumentsAssumption
  <2> QED BY <1>3, <2>1, OneTag DEF EachSteps
<1>4. CASE i \notin Counters /\ i \notin Histograms
  <2>1. TagOf(<<"read", i>>) = {} /\ TagOf(<<"ship", i>>) = {<<"ship", i>>} /\ i \notin Cumulative
    BY <1>4, TagByOp, InstrumentsAssumption
  <2> QED BY <1>4, <2>1, TwoTags DEF EachSteps
<1> QED BY <1>1, <1>2, <1>3, <1>4, InstrumentsAssumption

\* A loop over a vector plans one point for each of its instruments.
LEMMA LoopTags ==
    ASSUME NEW all \in Seq(Instruments), IsInjective(all)
    PROVE  /\ Tags(Loop(all)) = {<<"ship", i>> : i \in ToSet(all)}
           /\ Distinct(Loop(all))
<1>1. PICK n \in Nat : n = Len(all)
  BY LenProperties
<1>2. DOMAIN all = 1..n /\ (\A j \in 1..n : all[j] \in Instruments)
      /\ \A j, k \in 1..n : all[j] = all[k] => j = k
  BY <1>1, LenProperties DEF IsInjective
<1>3. PICK ss : ss = [j \in 1..n |-> EachSteps(all[j])]
  OBVIOUS
<1>4. Loop(all) = Flat(ss)
  BY <1>2, <1>3, FlattenIsFlat DEF Loop
<1>5. ss \in Seq(Seq(SampleSteps)) /\ Len(ss) = n
  <2>1. ss = [j \in 1..n |-> ss[j]] /\ \A j \in 1..n : ss[j] \in Seq(SampleSteps)
    BY <1>2, <1>3, EachList
  <2> QED BY <2>1, Mapped
<1>6. \A j \in 1..n : Tags(ss[j]) = {<<"ship", all[j]>>} /\ Distinct(ss[j]) /\ ss[j] \in Seq(SampleSteps)
  BY <1>2, <1>3, EachTags, EachList
<1>7. CASE n = 0
  <2>1. ss = <<>> /\ Flat(ss) = <<>>
    BY <1>3, <1>5, <1>7 DEF Flat
  <2>2. Tags(<<>>) = {} /\ Distinct(<<>>)
    BY QuietTags, EmptyList
  <2>3. ToSet(all) = {}
    BY <1>2, <1>7 DEF ToSet
  <2> QED BY <1>4, <2>1, <2>2, <2>3
<1>8. CASE n # 0
  <2>1. ss # <<>>
    BY <1>5, <1>8, EmptySeq
  <2>2. PICK f \in [1..n -> Seq(SampleSteps)] :
          /\ f[1] = ss[1] /\ \A i \in 2..n : f[i] = f[i - 1] \o ss[i]
          /\ Flat(ss) = f[n]
    BY <1>5, <2>1, Flattened
  <2> DEFINE Planned(j) == {<<"ship", all[k]>> : k \in 1..j}
             E == {i \in Nat : i + 1 \in 1..n => Tags(f[i + 1]) = Planned(i + 1) /\ Distinct(f[i + 1])}
  <2>3. 0 \in E
    <3>1. 1 \in 1..n /\ 0 + 1 = 1
      BY <1>8
    <3>2. Planned(1) = {<<"ship", all[1]>>}
      OBVIOUS
    <3>3. Tags(f[1]) = Planned(1) /\ Distinct(f[1])
      BY <1>6, <2>2, <3>1, <3>2
    <3> QED BY <3>1, <3>3
  <2>4. ASSUME NEW i \in Nat, i \in E PROVE i + 1 \in E
    <3> SUFFICES ASSUME i + 1 + 1 \in 1..n
                 PROVE  Tags(f[i + 1 + 1]) = Planned(i + 1 + 1) /\ Distinct(f[i + 1 + 1])
      OBVIOUS
    <3>1. PICK j : j = i + 1 + 1
      OBVIOUS
    <3>2. j \in 2..n /\ j \in 1..n /\ j - 1 = i + 1 /\ j - 1 \in 1..n /\ i + 1 \in 1..n
      BY <3>1
    <3>3. Tags(f[j - 1]) = Planned(j - 1) /\ Distinct(f[j - 1])
      BY <2>4, <3>2
    <3>4. f[j] = f[j - 1] \o ss[j] /\ f[j - 1] \in Seq(SampleSteps)
      BY <2>2, <3>2
    <3>5. Tags(ss[j]) = {<<"ship", all[j]>>} /\ Distinct(ss[j]) /\ ss[j] \in Seq(SampleSteps)
      BY <1>6, <3>2
    <3>6. Planned(j - 1) \cap {<<"ship", all[j]>>} = {}
      <4> SUFFICES ASSUME NEW k \in 1..(j - 1), <<"ship", all[k]>> = <<"ship", all[j]>> PROVE FALSE
        OBVIOUS
      <4>1. k \in 1..n /\ k # j
        BY <3>2
      <4> QED BY <1>2, <3>2, <4>1
    <3>7. Planned(j) = Planned(j - 1) \cup {<<"ship", all[j]>>}
      <4>1. \A k : k \in 1..j <=> k \in 1..(j - 1) \/ k = j
        BY <3>2
      <4> QED BY <4>1
    <3> HIDE DEF Planned
    <3>8. Tags(f[j]) = Planned(j) /\ Distinct(f[j])
      BY <3>3, <3>4, <3>5, <3>6, <3>7, ConcatTags
    <3> QED BY <3>1, <3>8
  <2>5. Nat \subseteq E
    <3> HIDE DEF E
    <3> QED BY <2>3, <2>4, Induction
  <2>6. n - 1 \in E /\ (n - 1) + 1 = n /\ n \in 1..n
    <3>1. n - 1 \in Nat
      BY <1>8
    <3> HIDE DEF E
    <3> QED BY <1>8, <2>5, <3>1
  <2>7. Tags(f[n]) = Planned(n) /\ Distinct(f[n])
    BY <2>6
  <2>8. Planned(n) = {<<"ship", i>> : i \in ToSet(all)}
    BY <1>2 DEF ToSet
  <2> QED BY <1>4, <2>2, <2>7, <2>8
<1> QED BY <1>7, <1>8

LEMMA SampleTags ==
    /\ Tags(sample) = {<<"each", k>> : k \in Kinds} \cup {<<"ship", DroppedGauge>>}
    /\ Distinct(sample)
<1>1. ASSUME NEW k PROVE Tags(OfKind(k)) = {<<"each", k>>} /\ Distinct(OfKind(k))
  <2>1. TagOf(<<"lock", k>>) = {} /\ TagOf(<<"unlock", k>>) = {} /\ TagOf(<<"each", k>>) = {<<"each", k>>}
    BY TagByOp
  <2> QED BY <2>1, ThreeTags DEF OfKind
<1>2. Tags(<< <<"ship", DroppedGauge>> >>) = {<<"ship", DroppedGauge>>} /\ Distinct(<< <<"ship", DroppedGauge>> >>)
  BY TagByOp, OneTag
<1>3. Tags(SampleEach) = {<<"each", k>> : k \in Kinds} \cup {<<"ship", DroppedGauge>>} /\ Distinct(SampleEach)
  <2>1. PICK a, b, c, d : a = OfKind("counters") /\ b = OfKind("histograms") /\ c = OfKind("gauges")
                       /\ d = << <<"ship", DroppedGauge>> >>
    OBVIOUS
  <2>2. /\ a \in Seq(SampleSteps) /\ b \in Seq(SampleSteps) /\ c \in Seq(SampleSteps) /\ d \in Seq(SampleSteps)
        /\ Tags(a) = {<<"each", "counters">>} /\ Tags(b) = {<<"each", "histograms">>}
        /\ Tags(c) = {<<"each", "gauges">>} /\ Tags(d) = {<<"ship", DroppedGauge>>}
        /\ Distinct(a) /\ Distinct(b) /\ Distinct(c) /\ Distinct(d)
    BY <1>1, <1>2, <2>1, SampleList DEF Kinds
  <2>3. PICK A, B, C, D :
          /\ A = {<<"each", "counters">>} /\ B = {<<"each", "histograms">>} /\ C = {<<"each", "gauges">>}
          /\ D = {<<"ship", DroppedGauge>>}
    OBVIOUS
  <2>4. A \cap B = {} /\ (A \cup B) \cap C = {} /\ (A \cup B \cup C) \cap D = {}
        /\ A \cup B \cup C = {<<"each", k>> : k \in Kinds}
    BY <2>3 DEF Kinds
  <2>5. a \o b \in Seq(SampleSteps) /\ Distinct(a \o b) /\ Tags(a \o b) = A \cup B
    BY <2>2, <2>3, <2>4, JoinTags
  <2>6. PICK ab, AB : ab = a \o b /\ AB = A \cup B
    OBVIOUS
  <2>7. ab \o c \in Seq(SampleSteps) /\ Distinct(ab \o c) /\ Tags(ab \o c) = AB \cup C
    <3>1. ab \in Seq(SampleSteps) /\ Distinct(ab) /\ Tags(ab) = AB /\ AB \cap C = {}
      BY <2>4, <2>5, <2>6
    <3> QED BY <2>2, <2>3, <3>1, JoinTags
  <2>8. PICK abc, ABC : abc = ab \o c /\ ABC = AB \cup C
    OBVIOUS
  <2>9. Distinct(abc \o d) /\ Tags(abc \o d) = ABC \cup D
    <3>1. abc \in Seq(SampleSteps) /\ Distinct(abc) /\ Tags(abc) = ABC /\ ABC \cap D = {}
      BY <2>4, <2>6, <2>7, <2>8
    <3> QED BY <2>2, <2>3, <3>1, JoinTags
  <2> QED BY <2>1, <2>3, <2>4, <2>6, <2>8, <2>9 DEF SampleEach
<1>4. PICK a, b, c : a = is_empty /\ b = << <<"stamp", "">> >> /\ c = SampleEach
  OBVIOUS
<1>5. << <<"stamp", "">> >> \in Seq(QuietSteps)
  BY ShortLists DEF QuietSteps
<1>6. /\ a \in Seq(QuietSteps) /\ b \in Seq(QuietSteps) /\ c \in Seq(SampleSteps)
      /\ (a \o b) \o a \in Seq(QuietSteps)
  <2>1. a \in Seq(QuietSteps) /\ b \in Seq(QuietSteps) /\ c \in Seq(SampleSteps)
    BY <1>4, <1>5, SampleList
  <2>2. a \o b \in Seq(QuietSteps)
    BY <2>1, ConcatProperties
  <2> QED BY <2>1, <2>2, ConcatProperties
<1>7. PICK q : q = (a \o b) \o a
  OBVIOUS
<1>8. q \in Seq(SampleSteps) /\ Tags(q) = {} /\ Distinct(q)
  BY <1>6, <1>7, QuietTags, StepSequences
<1>9. PICK A : A = {<<"each", k>> : k \in Kinds} \cup {<<"ship", DroppedGauge>>}
  OBVIOUS
<1>10. PICK N : N = {}
  OBVIOUS
<1>11. Tags(q) = N /\ Tags(c) = A /\ Distinct(c) /\ N \cap A = {} /\ N \cup A = A
  BY <1>3, <1>4, <1>8, <1>9, <1>10
<1>12. Tags(q \o c) = N \cup A /\ Distinct(q \o c)
  BY <1>6, <1>8, <1>11, JoinTags
<1> QED BY <1>4, <1>7, <1>9, <1>11, <1>12 DEF sample

\* What the calls of the application plan to register.
LEMMA CallTags ==
    /\ \A steps \in Asks : Tags(steps) = {} /\ Distinct(steps)
    /\ \A i \in Instruments : \A steps \in Registers(i) : Tags(steps) = {<<"push", i>>} /\ Distinct(steps)
<1>1. PICK a, b : a = << <<"lock", "app">> >> /\ b = << <<"unlock", "app">> >>
  OBVIOUS
<1>2. a \in Seq(LockSteps) /\ b \in Seq(LockSteps)
  <2>1. <<"lock", "app">> \in LockSteps /\ <<"unlock", "app">> \in LockSteps
    BY DEF LockSteps, Locks
  <2> QED BY <1>1, <2>1, ShortLists
<1>3. /\ a \in Seq(CallSteps) /\ b \in Seq(CallSteps)
      /\ Tags(a) = {} /\ Tags(b) = {} /\ Distinct(a) /\ Distinct(b)
  BY <1>2, StepSequences, QuietTags
<1>4. ASSUME NEW s \in Seq(CallSteps), Distinct(s) PROVE Tags(ByApp(s)) = Tags(s) /\ Distinct(ByApp(s))
  <2>1. PICK as : as = a \o s
    OBVIOUS
  <2>2. Tags(a) \cap Tags(s) = {} /\ Tags(s) \cap Tags(b) = {}
    BY <1>3
  <2>3. as \in Seq(CallSteps) /\ Tags(as) = Tags(a) \cup Tags(s) /\ Distinct(as)
    <3>1. as \in Seq(CallSteps) /\ Distinct(a) /\ a \in Seq(CallSteps)
      BY <1>3, <2>1, ConcatProperties
    <3>2. Tags(as) = Tags(a) \cup Tags(s)
      BY <2>1, <3>1, ConcatTags
    <3>3. Distinct(as)
      BY <1>4, <2>1, <2>2, <3>1, ConcatTags
    <3> QED BY <3>1, <3>2, <3>3
  <2>4. Tags(as) = Tags(s)
    BY <1>3, <2>3
  <2>5. Tags(as \o b) = Tags(as) \cup Tags(b) /\ Distinct(as \o b)
    <3>0. as \in Seq(CallSteps) /\ b \in Seq(CallSteps)
      BY <1>3, <2>3
    <3>1. Tags(as) \cap Tags(b) = {} /\ Distinct(b) /\ b \in Seq(CallSteps)
      BY <1>3
    <3>2. Tags(as \o b) = Tags(as) \cup Tags(b)
      BY <3>0, ConcatTags, ZenonT(40), SMTT(30)
    <3>3. Distinct(as \o b)
      BY <2>3, <3>1, ConcatTags
    <3> QED BY <3>2, <3>3
  <2>6. Tags(as \o b) = Tags(s)
    BY <1>3, <2>4, <2>5
  <2> QED BY <1>1, <2>1, <2>5, <2>6 DEF ByApp
<1>5. len \in Seq(CallSteps) /\ Tags(len) = {} /\ Distinct(len)
      /\ <<>> \in Seq(CallSteps) /\ Tags(<<>>) = {} /\ Distinct(<<>>)
  BY LockLists, StepSequences, QuietTags, EmptyList
<1>6. \A steps \in Asks : Tags(steps) = {} /\ Distinct(steps)
  BY <1>4, <1>5 DEF Asks
<1>7. ASSUME NEW i \in Instruments
      PROVE  register(i) \in Seq(CallSteps) /\ Tags(register(i)) = {<<"push", i>>} /\ Distinct(register(i))
  <2>1. Tags(register(i)) = {<<"push", i>>} /\ Distinct(register(i))
    <3>1. \A k : TagOf(<<"lock", k>>) = {} /\ TagOf(<<"unlock", k>>) = {}
      BY TagByOp
    <3>2. TagOf(<<"push", i>>) = {<<"push", i>>}
      BY TagByOp
    <3> QED BY <3>1, <3>2, ThreeTags DEF register
  <2>2. register(i) \in Seq(CallSteps)
    BY DEF register, CallSteps, LockSteps, Locks, Kinds, KindOf
  <2> QED BY <2>1, <2>2
<1> QED BY <1>4, <1>6, <1>7 DEF Registers

(* What is registered, and what is still to be *)

Registration ==
    /\ Registered \subseteq begun
    /\ \A k \in Kinds : IsInjective(registry[k])
    /\ \A t \in Callers :
        /\ Distinct(todo[t])
        /\ \A i : <<"push", i>> \in Tags(todo[t]) => i \in begun \ Registered
    /\ \A t, u \in Callers : t # u => Tags(todo[t]) \cap Tags(todo[u]) = {}

Planned(i) == <<"ship", i>> \in Tags(todo[Sampler])
Ahead(k) == <<"each", k>> \in Tags(todo[Sampler])

\* A pass: every point is shipped or planned or will be once its kind is
\* reached, and never two of these.
Pass ==
    /\ Distinct(todo[Sampler]) /\ IsInjective(out)
    /\ ToSet(out) \subseteq Registered \cup {DroppedGauge}
    /\ present \subseteq Registered
    /\ \A i : Planned(i) => i \in (Registered \cup {DroppedGauge}) \ ToSet(out)
    /\ \A k \in Kinds : Ahead(k) => \A i \in ToSet(registry[k]) : i \notin ToSet(out) /\ ~Planned(i)
    /\ passes > 0 => \A i \in present \ Histograms : i \in ToSet(out) \/ Planned(i) \/ Ahead(KindOf(i))
    /\ passes > 0 /\ (present # {} \/ out # <<>> \/ Tags(todo[Sampler]) # {})
        => DroppedGauge \in ToSet(out) \/ Planned(DroppedGauge)

LEMMA PassSays == Types /\ Pass => SampleIsComplete
<1> SUFFICES ASSUME Types, Pass, todo[Sampler] = <<>>, passes > 0
             PROVE  /\ IsInjective(out)
                    /\ present \ Histograms \subseteq ToSet(out)
                    /\ present # {} \/ out # <<>> => DroppedGauge \in ToSet(out)
                    /\ ToSet(out) \subseteq Registered \cup {DroppedGauge}
  BY DEF SampleIsComplete
<1>1. Tags(todo[Sampler]) = {}
  BY QuietTags, EmptyList
<1> QED BY <1>1 DEF Pass, Planned, Ahead

LEMMA PassInit == Init => Registration /\ Pass
<1> SUFFICES ASSUME Init PROVE Registration /\ Pass
  OBVIOUS
<1>1. \A t \in Threads : Tags(todo[t]) = {} /\ Distinct(todo[t])
  BY QuietTags, EmptyList DEF Init
<1>2. \A k \in Kinds : registry[k] = <<>>
  BY DEF Init
<1>3. ToSet(<<>>) = {} /\ IsInjective(<<>>)
  BY DEF ToSet, IsInjective
<1>4. Registered = {}
  BY <1>2, <1>3 DEF Registered
<1>5. out = <<>> /\ present = {} /\ passes = 0
  BY DEF Init
<1> QED BY <1>1, <1>2, <1>3, <1>4, <1>5, OwnStepsOf DEF Registration, Pass, Planned, Ahead

LEMMA CallersAreNot ==
    \A t \in Threads : t \in Callers \/ t = Sampler
BY DEF Threads

\* Of a caller only the plan changes: it loses steps, or gains the
\* registration of an instrument that nobody had begun to register.
LEMMA CallerMoves ==
    ASSUME Registration, NEW t \in Callers, registry' = registry, begun \subseteq begun',
           Distinct(todo'[t]), \A u \in Callers \ {t} : todo'[u] = todo[u],
           \A x \in Tags(todo'[t]) :
               \/ x \in Tags(todo[t])
               \/ \E i \in begun' \ begun : x = <<"push", i>>
    PROVE  Registration'
<1>1. Registered' = Registered
  BY DEF Registered
<1>2. \A i, j : <<"push", i>> = <<"push", j>> => i = j
  OBVIOUS
<1>3. ASSUME NEW i, <<"push", i>> \in Tags(todo'[t]) PROVE i \in begun' \ Registered
  <2>1. CASE <<"push", i>> \in Tags(todo[t])
    BY <2>1 DEF Registration
  <2>2. CASE i \in begun' \ begun
    BY <2>2 DEF Registration
  <2> QED BY <1>2, <1>3, <2>1, <2>2
<1>4. ASSUME NEW u \in Callers, u # t, NEW x, x \in Tags(todo'[t]), x \in Tags(todo[u]) PROVE FALSE
  <2>1. CASE x \in Tags(todo[t])
    BY <1>4, <2>1 DEF Registration
  <2>2. ASSUME NEW i \in begun' \ begun, x = <<"push", i>> PROVE FALSE
    BY <1>4, <2>2 DEF Registration
  <2> QED BY <1>4, <2>1, <2>2
<1>5. \A u \in Callers : Distinct(todo'[u]) /\ \A i : <<"push", i>> \in Tags(todo'[u]) => i \in begun' \ Registered
  <2> SUFFICES ASSUME NEW u \in Callers
               PROVE  Distinct(todo'[u]) /\ \A i : <<"push", i>> \in Tags(todo'[u]) => i \in begun' \ Registered
    OBVIOUS
  <2>1. CASE u = t
    BY <1>3, <2>1
  <2>2. CASE u # t
    BY <2>2 DEF Registration
  <2> QED BY <2>1, <2>2
<1>6. ASSUME NEW u \in Callers, NEW v \in Callers, u # v PROVE Tags(todo'[u]) \cap Tags(todo'[v]) = {}
  <2>1. CASE u = t
    <3>1. todo'[v] = todo[v]
      BY <1>6, <2>1
    <3> QED BY <1>4, <1>6, <2>1, <3>1
  <2>2. CASE v = t
    <3>1. todo'[u] = todo[u]
      BY <1>6, <2>2
    <3> QED BY <1>4, <1>6, <2>2, <3>1
  <2>3. CASE u # t /\ v # t
    BY <1>6, <2>3 DEF Registration
  <2> QED BY <2>1, <2>2, <2>3
<1> QED BY <1>1, <1>5, <1>6 DEF Registration, Distinct, Tags, TagOf, Ends

LEMMA RegistrationKeeps ==
    ASSUME Registration, UNCHANGED <<registry, begun>>, \A u \in Callers : todo'[u] = todo[u]
    PROVE  Registration'
<1>1. Registered' = Registered
  BY DEF Registered
<1>2. \A u \in Callers : Distinct(todo[u])' = Distinct(todo[u]) /\ Tags(todo[u])' = Tags(todo[u])
  BY DEF Distinct, Tags, TagOf, Ends
<1> QED BY <1>1, <1>2 DEF Registration

\* An instrument is pushed once.
LEMMA Pushes ==
    ASSUME Types, Registration, NEW t \in Threads, Push(t)
    PROVE  /\ t \in Callers /\ t # Sampler /\ todo' = [todo EXCEPT ![t] = Tail(todo[t])]
           /\ \E i \in Instruments :
                /\ NextStep(t) = <<"push", i>> /\ i \notin Registered /\ i \in begun
                /\ Registered' = Registered \cup {i}
                /\ KindOf(i) \in Kinds
                /\ ToSet(registry'[KindOf(i)]) = ToSet(registry[KindOf(i)]) \cup {i}
                /\ \A k \in Kinds : IsInjective(registry'[k])
                /\ \A k \in Kinds \ {KindOf(i)} : registry'[k] = registry[k]
<1>1. /\ todo[t] # <<>> /\ NextStep(t)[1] = "push" /\ NextStep(t) \in OwnSteps(t)
      /\ NextStep(t) \in SampleSteps \cup CallSteps
  BY Next1 DEF Push
<1>2. NextStep(t) \notin SampleSteps /\ NextStep(t)[2] \in Instruments
      /\ NextStep(t) = <<"push", NextStep(t)[2]>>
  BY <1>1, Abouts
<1>3. t \in Callers /\ t # Sampler
  BY <1>1, <1>2, OwnStepsOf, CallersAreNot
<1>4. PICK i \in Instruments : i = NextStep(t)[2] /\ NextStep(t) = <<"push", i>>
  BY <1>2
<1>5. <<"push", i>> \in Tags(todo[t])
  <2>1. TagOf(<<"push", i>>) = {<<"push", i>>} /\ todo[t][1] = <<"push", i>>
    BY <1>1, <1>4, HeadStep, TagByOp
  <2>2. todo[t] \in Seq(OwnSteps(t))
    BY DEF Types
  <2> QED BY <1>1, <2>1, <2>2, TailTags
<1>6. i \in begun /\ i \notin Registered
  BY <1>3, <1>5 DEF Registration
<1>7. PICK k \in Kinds : k = KindOf(i)
  BY DEF KindOf, Kinds
<1>8. registry' = [registry EXCEPT ![k] = Append(registry[k], i)] /\ registry \in [Kinds -> Seq(Instruments)]
  BY <1>4, <1>7 DEF Push, Types, TypeOK
<1>9. ToSet(Append(registry[k], i)) = ToSet(registry[k]) \cup {i}
  BY <1>8, Members
<1>10. registry'[k] = Append(registry[k], i) /\ \A l \in Kinds \ {k} : registry'[l] = registry[l]
  BY <1>8
<1>11. Registered' = Registered \cup {i}
  BY <1>9, <1>10 DEF Registered
<1>12. IsInjective(Append(registry[k], i))
  <2>1. PICK s, T : s = registry[k] /\ T = Append(s, i)
    OBVIOUS
  <2>2. s \in Seq(Instruments) /\ IsInjective(s) /\ i \notin ToSet(s)
    <3>1. ToSet(registry[k]) \subseteq Registered
      BY DEF Registered
    <3> QED BY <1>6, <1>8, <2>1, <3>1 DEF Registration
  <2>3. Len(s) \in Nat /\ DOMAIN s = 1..Len(s) /\ DOMAIN T = 1..(Len(s) + 1) /\ T[Len(s) + 1] = i
        /\ \A j \in 1..Len(s) : T[j] = s[j]
    BY <2>1, <2>2, AppendProperties, LenProperties
  <2>4. \A j \in 1..(Len(s) + 1) : j \in 1..Len(s) \/ j = Len(s) + 1
    BY <2>3
  <2>5. \A j \in 1..Len(s) : s[j] # i
    BY <2>2, Members
  <2>6. \A j, l \in 1..Len(s) : s[j] = s[l] => j = l
    BY <2>2, <2>3 DEF IsInjective
  <2>7. \A j, l \in 1..(Len(s) + 1) : T[j] = T[l] => j = l
    BY <2>3, <2>4, <2>5, <2>6
  <2> QED BY <2>1, <2>3, <2>7 DEF IsInjective
<1>13. \A l \in Kinds : IsInjective(registry'[l])
  BY <1>10, <1>12 DEF Registration
<1> QED BY <1>3, <1>4, <1>6, <1>7, <1>9, <1>10, <1>11, <1>13 DEF Push, Advance, Continue

LEMMA PushRegisters ==
    ASSUME Types, Registration, NEW t \in Threads, Push(t)
    PROVE  Registration'
<1>1. /\ t \in Callers /\ todo' = [todo EXCEPT ![t] = Tail(todo[t])]
      /\ todo \in [Threads -> Seq(Step)] /\ todo[t] \in Seq(OwnSteps(t)) /\ todo[t] # <<>> /\ begun' = begun
  BY Pushes, Next1 DEF Push, Types, TypeOK, callVars
<1>2. PICK i \in Instruments :
        /\ NextStep(t) = <<"push", i>> /\ i \notin Registered /\ i \in begun
        /\ Registered' = Registered \cup {i}
        /\ \A k \in Kinds : IsInjective(registry'[k])
  BY Pushes
<1>3. PICK U : U = Tail(todo[t])
  OBVIOUS
<1>4. todo'[t] = U /\ \A u \in Callers \ {t} : todo'[u] = todo[u]
  BY <1>1, <1>3, OwnStepsOf
<1>5. todo[t][1] = <<"push", i>> /\ TagOf(<<"push", i>>) = {<<"push", i>>}
  BY <1>1, <1>2, HeadStep, TagByOp
<1>6. Distinct(todo[t])
  BY <1>1 DEF Registration
<1>7. Tags(todo[t]) = {<<"push", i>>} \cup Tags(U) /\ Distinct(U) /\ <<"push", i>> \notin Tags(U)
  BY <1>1, <1>3, <1>5, <1>6, TailTags
<1>8. \A u \in Callers \ {t} : <<"push", i>> \notin Tags(todo[u])
  BY <1>1, <1>7 DEF Registration
<1>9. \A u \in Callers : Tags(todo'[u]) \subseteq Tags(todo[u]) /\ Distinct(todo'[u]) /\ <<"push", i>> \notin Tags(todo'[u])
  <2> SUFFICES ASSUME NEW u \in Callers
               PROVE  Tags(todo'[u]) \subseteq Tags(todo[u]) /\ Distinct(todo'[u]) /\ <<"push", i>> \notin Tags(todo'[u])
    OBVIOUS
  <2>1. CASE u = t
    BY <1>4, <1>7, <2>1
  <2>2. CASE u # t
    BY <1>4, <1>8, <2>2 DEF Registration
  <2> QED BY <2>1, <2>2
<1>10. \A u \in Callers : \A j : <<"push", j>> \in Tags(todo'[u]) => j \in begun \ Registered'
  <2> SUFFICES ASSUME NEW u \in Callers, NEW j, <<"push", j>> \in Tags(todo'[u]) PROVE j \in begun \ Registered'
    OBVIOUS
  <2>1. j # i /\ <<"push", j>> \in Tags(todo[u])
    BY <1>9
  <2>2. j \in begun \ Registered
    BY <2>1 DEF Registration
  <2> QED BY <1>2, <2>1, <2>2
<1>11. \A u, v \in Callers : u # v => Tags(todo'[u]) \cap Tags(todo'[v]) = {}
  <2> SUFFICES ASSUME NEW u \in Callers, NEW v \in Callers, u # v PROVE Tags(todo'[u]) \cap Tags(todo'[v]) = {}
    OBVIOUS
  <2>1. Tags(todo[u]) \cap Tags(todo[v]) = {}
    BY DEF Registration
  <2> QED BY <1>9, <2>1
<1>12. Registered' \subseteq begun
  BY <1>2 DEF Registration
<1> QED BY <1>1, <1>2, <1>9, <1>10, <1>11, <1>12 DEF Registration, Distinct, Tags, TagOf, Ends

LEMMA CallRegisters ==
    ASSUME Types, Registration, NEW t, Calls(t)
    PROVE  Registration'
<1>1. t \in Callers /\ t \in Threads /\ registry' = registry /\ todo \in [Threads -> Seq(Step)]
  BY OwnStepsOf DEF Calls, Types, TypeOK
<1>2. ASSUME NEW steps, Continue(t, steps) PROVE todo'[t] = steps /\ \A u \in Callers \ {t} : todo'[u] = todo[u]
  BY <1>1, <1>2, OwnStepsOf DEF Continue
<1>3. CASE \E steps \in Asks : Continue(t, steps) /\ UNCHANGED begun
  <2>1. PICK steps \in Asks : Continue(t, steps) /\ UNCHANGED begun
    BY <1>3
  <2>2. Tags(todo'[t]) = {} /\ Distinct(todo'[t])
    BY <1>2, <2>1, CallTags
  <2>3. \A u \in Callers \ {t} : todo'[u] = todo[u]
    BY <1>2, <2>1
  <2> QED BY <1>1, <2>1, <2>2, <2>3, CallerMoves
<1>4. CASE \E i \in Instruments \ begun : \E steps \in Registers(i) :
             Continue(t, steps) /\ begun' = begun \cup {i}
  <2>1. PICK i \in Instruments \ begun :
          \E steps \in Registers(i) : Continue(t, steps) /\ begun' = begun \cup {i}
    BY <1>4
  <2>2. PICK steps \in Registers(i) : Continue(t, steps) /\ begun' = begun \cup {i}
    BY <2>1
  <2>3. Tags(todo'[t]) = {<<"push", i>>} /\ Distinct(todo'[t])
    BY <1>2, <2>2, CallTags
  <2>4. \A u \in Callers \ {t} : todo'[u] = todo[u]
    BY <1>2, <2>2
  <2>5. i \in begun' \ begun /\ begun \subseteq begun'
    BY <2>2
  <2> QED BY <1>1, <2>3, <2>4, <2>5, CallerMoves
<1> QED BY <1>3, <1>4 DEF Calls

LEMMA LockRegisters ==
    ASSUME Types, Registration, NEW t \in Threads, Lock(t) \/ Unlock(t)
    PROVE  Registration'
<1>1. PICK op \in {"lock", "unlock"} : Does(t, op)
  BY DEF Lock, Unlock
<1>2. Advance(t) /\ UNCHANGED <<registry, begun>>
  BY DEF Lock, Unlock, callVars
<1>3. /\ todo[t] # <<>> /\ todo[t] \in Seq(OwnSteps(t)) /\ Tail(todo[t]) \in Seq(OwnSteps(t))
      /\ NextStep(t) \in SampleSteps \cup CallSteps /\ NextStep(t)[1] = op
  BY <1>1, Next1 DEF Types
<1>4. todo'[t] = Tail(todo[t]) /\ \A u \in Threads \ {t} : todo'[u] = todo[u]
  BY <1>2, <1>3, Continued DEF Advance
<1>5. CASE t = Sampler
  BY <1>2, <1>4, <1>5, OwnStepsOf, RegistrationKeeps
<1>6. CASE t # Sampler
  <2>1. t \in Callers
    BY <1>6, CallersAreNot
  <2>2. Tags(todo'[t]) \subseteq Tags(todo[t]) /\ Distinct(todo'[t])
    <3>1. Distinct(todo[t])
      BY <2>1 DEF Registration
    <3> QED BY <1>3, <1>4, <3>1, TailTags
  <2>3. \A u \in Callers \ {t} : todo'[u] = todo[u]
    BY <1>4, OwnStepsOf
  <2> QED BY <1>2, <2>1, <2>2, <2>3, CallerMoves
<1> QED BY <1>5, <1>6

LEMMA RegistrationStep == Types /\ Registration /\ [Next]_vars => Registration'
<1> SUFFICES ASSUME Types, Registration, [Next]_vars PROVE Registration'
  OBVIOUS
<1> USE OwnStepsOf
<1>1. CASE UNCHANGED vars
  BY <1>1, RegistrationKeeps DEF vars, callVars
<1>2. CASE Worlds \/ Anchors \/ \E w \in Workers : Resyncs(w)
  BY <1>2, RegistrationKeeps DEF Worlds, Anchors, Resyncs, BesideSampling, callVars
<1>3. ASSUME NEW c \in Counters, NEW n \in Amounts, Add(c, n) PROVE Registration'
  BY <1>3, RegistrationKeeps DEF Add, callVars
<1>4. CASE SampleTick \/ SampleStep
  <2>1. \A steps : Continue(Sampler, steps) => \A u \in Callers : todo'[u] = todo[u]
    BY DEF Continue, Types, TypeOK
  <2>2. UNCHANGED <<registry, begun>> /\ \E steps : Continue(Sampler, steps)
    BY <1>4 DEF SampleTick, SampleStep, CheckEmpty, Stamp, Each, LoadTotal, SwapShipped, Snapshot,
       ReadGauge, Ship, Advance, callVars
  <2> QED BY <2>1, <2>2, RegistrationKeeps
<1> QED
  BY <1>1, <1>2, <1>3, <1>4, LockRegisters, PushRegisters, CallRegisters DEF Next, ThreadStep

LEMMA PassKeeps ==
    ASSUME Pass, UNCHANGED <<registry, out, present, passes>>,
           Distinct(todo'[Sampler]), Tags(todo'[Sampler]) = Tags(todo[Sampler])
    PROVE  Pass'
<1>1. Registered' = Registered
  BY DEF Registered
<1>2. /\ \A i : Planned(i)' <=> Planned(i)
      /\ \A k : Ahead(k)' <=> Ahead(k)
      /\ Distinct(todo[Sampler])' /\ Tags(todo[Sampler])' = Tags(todo[Sampler])
  BY DEF Planned, Ahead, Tags, TagOf, Ends, Distinct
<1> QED BY <1>1, <1>2 DEF Pass

\* A point is shipped that was planned, or a histogram has nothing to say.
LEMMA PassShips ==
    ASSUME Types, Pass, UNCHANGED <<registry, present, passes>>,
           NEW i \in Instruments \cup {DroppedGauge},
           Distinct(todo'[Sampler]), <<"ship", i>> \notin Tags(todo'[Sampler]),
           Tags(todo[Sampler]) = {<<"ship", i>>} \cup Tags(todo'[Sampler]),
           out' = Append(out, i) \/ (out' = out /\ i \in Histograms)
    PROVE  Pass'
<1>1. Registered' = Registered
  BY DEF Registered
<1>2. /\ \A j : Planned(j)' <=> Planned(j) /\ j # i
      /\ \A k : Ahead(k)' <=> Ahead(k)
      /\ Distinct(todo[Sampler])' /\ Planned(i)
  <2>1. \A j : <<"ship", j>> = <<"ship", i>> => j = i
    OBVIOUS
  <2>2. \A k : <<"each", k>> # <<"ship", i>>
    OBVIOUS
  <2>3. (\A j : Planned(j)' <=> <<"ship", j>> \in Tags(todo'[Sampler]))
        /\ (\A k : Ahead(k)' <=> <<"each", k>> \in Tags(todo'[Sampler]))
    BY DEF Planned, Ahead, Tags, TagOf, Ends
  <2>4. Distinct(todo[Sampler])'
    BY DEF Distinct, TagOf, Ends
  <2> QED BY <2>1, <2>2, <2>3, <2>4 DEF Planned, Ahead
<1>3. i \in Registered \cup {DroppedGauge} /\ i \notin ToSet(out)
  BY <1>2 DEF Pass
<1>4. IsInjective(out') /\ ToSet(out') \subseteq ToSet(out) \cup {i} /\ ToSet(out) \subseteq ToSet(out')
      /\ (i \in ToSet(out') \/ i \in Histograms)
  <2>1. CASE out' = out /\ i \in Histograms
    BY <2>1 DEF Pass
  <2>2. CASE out' = Append(out, i)
    <3>1. PICK s, T : s = out /\ T = Append(s, i)
      OBVIOUS
    <3>2. s \in Seq(Instruments \cup {DroppedGauge}) /\ IsInjective(s) /\ i \notin ToSet(s)
      BY <1>3, <3>1 DEF Pass, Types, TypeOK
    <3>3. Len(s) \in Nat /\ DOMAIN s = 1..Len(s) /\ DOMAIN T = 1..(Len(s) + 1) /\ T[Len(s) + 1] = i
          /\ \A j \in 1..Len(s) : T[j] = s[j]
      BY <3>1, <3>2, AppendProperties, LenProperties
    <3>4. \A j \in 1..(Len(s) + 1) : j \in 1..Len(s) \/ j = Len(s) + 1
      BY <3>3
    <3>5. \A j \in 1..Len(s) : s[j] # i
      BY <3>2, Members
    <3>6. \A j, l \in 1..Len(s) : s[j] = s[l] => j = l
      BY <3>2, <3>3 DEF IsInjective
    <3>7. \A j, l \in 1..(Len(s) + 1) : T[j] = T[l] => j = l
      BY <3>3, <3>4, <3>5, <3>6
    <3>8. IsInjective(T)
      BY <3>3, <3>7 DEF IsInjective
    <3>9. ToSet(T) = ToSet(s) \cup {i}
      BY <3>1, ShippedOut
    <3> QED BY <2>2, <3>1, <3>8, <3>9
  <2> QED BY <2>1, <2>2
<1>5. i \in Histograms => i # DroppedGauge
  BY InstrumentsAssumption DEF Instruments
<1>6. \A j : Planned(j) => Planned(j)' \/ j = i
  BY <1>2
<1>7. \A k \in Kinds : Ahead(k)' => \A j \in ToSet(registry[k]) : j \notin ToSet(out') /\ ~Planned(j)'
  <2> SUFFICES ASSUME NEW k \in Kinds, Ahead(k), NEW j \in ToSet(registry[k])
               PROVE  j \notin ToSet(out') /\ ~Planned(j)'
    BY <1>2
  <2>1. j \notin ToSet(out) /\ ~Planned(j)
    BY DEF Pass
  <2>2. j # i
    BY <1>2, <2>1
  <2> QED BY <1>2, <1>4, <2>1, <2>2
<1>8. ToSet(out') \subseteq Registered \cup {DroppedGauge}
  BY <1>3, <1>4 DEF Pass
<1>9. \A j : Planned(j)' => j \in (Registered \cup {DroppedGauge}) \ ToSet(out')
  BY <1>2, <1>4 DEF Pass
<1>10. passes > 0 => \A j \in present \ Histograms : j \in ToSet(out') \/ Planned(j)' \/ Ahead(KindOf(j))'
  <2> SUFFICES ASSUME passes > 0, NEW j \in present \ Histograms
               PROVE  j \in ToSet(out') \/ Planned(j)' \/ Ahead(KindOf(j))'
    OBVIOUS
  <2>1. j \in ToSet(out) \/ Planned(j) \/ Ahead(KindOf(j))
    BY DEF Pass
  <2> QED BY <1>2, <1>4, <1>6, <2>1
<1>11. passes > 0 => DroppedGauge \in ToSet(out') \/ Planned(DroppedGauge)'
  <2> SUFFICES ASSUME passes > 0 PROVE DroppedGauge \in ToSet(out') \/ Planned(DroppedGauge)'
    OBVIOUS
  <2>1. DroppedGauge \in ToSet(out) \/ Planned(DroppedGauge)
    BY DEF Pass
  <2> QED BY <1>4, <1>5, <1>6, <2>1
<1>12. present \subseteq Registered
  BY DEF Pass
<1> QED BY <1>1, <1>2, <1>4, <1>7, <1>8, <1>9, <1>10, <1>11, <1>12 DEF Pass

\* The first step of the worker done, and what that leaves planned.
LEMMA HeadDone ==
    ASSUME Types, Distinct(todo[Sampler]), todo[Sampler] # <<>>
    PROVE  /\ Tags(todo[Sampler]) = TagOf(NextStep(Sampler)) \cup Tags(Tail(todo[Sampler]))
           /\ TagOf(NextStep(Sampler)) \cap Tags(Tail(todo[Sampler])) = {}
           /\ Distinct(Tail(todo[Sampler])) /\ Tail(todo[Sampler]) \in Seq(SampleSteps)
<1>1. todo[Sampler] \in Seq(SampleSteps) /\ NextStep(Sampler) = todo[Sampler][1]
      /\ Tail(todo[Sampler]) \in Seq(SampleSteps)
  BY OwnStepsOf, HeadStep DEF Types
<1> QED BY <1>1, TailTags

\* Steps that are not about a point: taking and giving back a mutex, the
\* timestamp, the load of a delta counter.
LEMMA QuietPasses ==
    ASSUME Types, Pass, todo[Sampler] # <<>>, Advance(Sampler), TagOf(NextStep(Sampler)) = {},
           UNCHANGED <<registry, out, present, passes>>
    PROVE  Pass'
<1>1. Distinct(todo[Sampler])
  BY DEF Pass
<1>2. Tags(todo[Sampler]) = Tags(Tail(todo[Sampler])) /\ Distinct(Tail(todo[Sampler]))
      /\ Tail(todo[Sampler]) \in Seq(SampleSteps)
  BY <1>1, HeadDone
<1>3. todo'[Sampler] = Tail(todo[Sampler])
  BY <1>2, OwnStepsOf, Continued DEF Advance
<1> QED BY <1>2, <1>3, PassKeeps

\* Steps that are.
LEMMA PointPasses ==
    ASSUME Types, Pass, todo[Sampler] # <<>>, Advance(Sampler),
           NEW i \in Instruments \cup {DroppedGauge}, TagOf(NextStep(Sampler)) = {<<"ship", i>>},
           out' = Append(out, i) \/ (out' = out /\ i \in Histograms),
           UNCHANGED <<registry, present, passes>>
    PROVE  Pass'
<1>1. Distinct(todo[Sampler])
  BY DEF Pass
<1>2. Tags(todo[Sampler]) = {<<"ship", i>>} \cup Tags(Tail(todo[Sampler])) /\ Distinct(Tail(todo[Sampler]))
      /\ <<"ship", i>> \notin Tags(Tail(todo[Sampler])) /\ Tail(todo[Sampler]) \in Seq(SampleSteps)
  BY <1>1, HeadDone
<1>3. todo'[Sampler] = Tail(todo[Sampler])
  BY <1>2, OwnStepsOf, Continued DEF Advance
<1> QED BY <1>2, <1>3, PassShips

LEMMA HeadTag ==
    ASSUME Types, NEW op, Does(Sampler, op)
    PROVE  /\ todo[Sampler] # <<>> /\ NextStep(Sampler) = <<op, NextStep(Sampler)[2]>>
           /\ op \in {"lock", "unlock", "check", "stamp", "read"} => TagOf(NextStep(Sampler)) = {}
           /\ op \in {"swap", "snapshot", "ship"} => TagOf(NextStep(Sampler)) = {<<"ship", NextStep(Sampler)[2]>>}
           /\ op = "each" => TagOf(NextStep(Sampler)) = {<<"each", NextStep(Sampler)[2]>>}
<1>1. /\ todo[Sampler] # <<>> /\ NextStep(Sampler)[1] = op
      /\ NextStep(Sampler) \in SampleSteps \cup CallSteps
  BY OwnStepsOf, Next1
<1>2. PICK s, x : s = NextStep(Sampler) /\ x = NextStep(Sampler)[2]
  OBVIOUS
<1>3. s = <<op, x>>
  BY <1>1, <1>2, Abouts
<1>4. /\ op \in {"lock", "unlock", "check", "stamp", "read"} => TagOf(<<op, x>>) = {}
      /\ op \in {"swap", "snapshot", "ship"} => TagOf(<<op, x>>) = {<<"ship", x>>}
      /\ op = "each" => TagOf(<<op, x>>) = {<<op, x>>}
  BY TagByOp
<1> QED BY <1>1, <1>2, <1>3, <1>4

LEMMA LoadPasses ==
    ASSUME Types, Pass, LoadTotal
    PROVE  Pass'
<1>1. PICK c \in Counters : c = NextStep(Sampler)[2]
  BY OwnStepsOf, Next1, Abouts DEF LoadTotal
<1>2. todo[Sampler] # <<>> /\ NextStep(Sampler) = <<"load", c>>
  BY <1>1, HeadTag DEF LoadTotal
<1>3. c \in Instruments \cup {DroppedGauge}
  BY DEF Instruments
<1>4. Advance(Sampler) /\ UNCHANGED <<registry, present, passes>>
  BY DEF LoadTotal
<1>5. CASE c \in Cumulative
  <2>1. TagOf(NextStep(Sampler)) = {<<"ship", c>>} /\ out' = Append(out, c)
    BY <1>1, <1>2, <1>5, TagByOp DEF LoadTotal
  <2> QED BY <1>2, <1>3, <1>4, <2>1, PointPasses
<1>6. CASE c \notin Cumulative
  <2>1. TagOf(NextStep(Sampler)) = {} /\ out' = out
    BY <1>1, <1>2, <1>6, TagByOp DEF LoadTotal
  <2> QED BY <1>2, <1>4, <2>1, QuietPasses
<1> QED BY <1>5, <1>6

LEMMA ShipPasses ==
    ASSUME Types, Pass, SwapShipped \/ Snapshot \/ Ship
    PROVE  Pass'
<1>1. PICK op \in {"swap", "snapshot", "ship"} : Does(Sampler, op) /\ (op = "snapshot" <=> Snapshot)
  BY DEF SwapShipped, Snapshot, Ship, Does
<1>2. PICK i : i = NextStep(Sampler)[2]
  OBVIOUS
<1>3. i \in Instruments \cup {DroppedGauge} /\ (op = "snapshot" => i \in Histograms)
  BY <1>1, <1>2, OwnStepsOf, Next1, Abouts DEF Instruments
<1>4. todo[Sampler] # <<>> /\ TagOf(NextStep(Sampler)) = {<<"ship", i>>}
  BY <1>1, <1>2, HeadTag
<1>5. Advance(Sampler) /\ UNCHANGED <<registry, present, passes>>
  BY DEF SwapShipped, Snapshot, Ship, passVars
<1>6. out' = Append(out, i) \/ (out' = out /\ i \in Histograms)
  BY <1>1, <1>2, <1>3 DEF SwapShipped, Snapshot, Ship
<1> QED BY <1>3, <1>4, <1>5, <1>6, PointPasses

LEMMA ReadPasses ==
    ASSUME Types, Pass, ReadGauge
    PROVE  Pass'
<1>1. PICK g \in Gauges : g = NextStep(Sampler)[2]
  BY OwnStepsOf, Next1, Abouts DEF ReadGauge
<1>2. PICK a, b : a = ReaderSteps(g) /\ b = Tail(todo[Sampler])
  OBVIOUS
<1>3. todo[Sampler] # <<>> /\ TagOf(NextStep(Sampler)) = {} /\ Distinct(todo[Sampler])
  BY HeadTag DEF ReadGauge, Pass
<1>4. /\ a \in Seq(SampleSteps) /\ Tags(a) = {} /\ Distinct(a)
      /\ b \in Seq(SampleSteps) /\ Tags(b) = Tags(todo[Sampler]) /\ Distinct(b)
  <2>1. a \in Seq(QuietSteps)
    BY <1>2, ReaderList, StepSequences
  <2>2. b \in Seq(SampleSteps) /\ Tags(b) = Tags(todo[Sampler]) /\ Distinct(b)
    BY <1>2, <1>3, HeadDone
  <2> QED BY <2>1, <2>2, QuietTags, StepSequences
<1>5. Tags(a) \cap Tags(b) = {}
  BY <1>4
<1>6. a \o b \in Seq(SampleSteps)
  BY <1>4, ConcatProperties
<1>7. Tags(a \o b) = Tags(a) \cup Tags(b)
  <2>1. a \in Seq(SampleSteps) /\ b \in Seq(SampleSteps)
    BY <1>4
  <2> QED BY <2>1, ConcatTags
<1>8. Distinct(a \o b)
  BY <1>4, <1>5, ConcatTags
<1>9. todo'[Sampler] = a \o b
  <2>1. Continue(Sampler, a \o b)
    BY <1>1, <1>2 DEF ReadGauge
  <2> QED BY <1>6, <2>1, OwnStepsOf, Continued
<1>10. Tags(todo'[Sampler]) = Tags(todo[Sampler])
  BY <1>4, <1>7, <1>9
<1> QED BY <1>8, <1>9, <1>10, PassKeeps DEF ReadGauge, passVars

LEMMA CheckPasses ==
    ASSUME Types, Pass, CheckEmpty
    PROVE  Pass'
<1>1. todo[Sampler] # <<>> /\ TagOf(NextStep(Sampler)) = {}
  BY HeadTag DEF CheckEmpty
<1>2. UNCHANGED <<registry, out, present, passes>>
  BY DEF CheckEmpty, passVars
<1>3. CASE ~NothingRegistered
  <2>1. Advance(Sampler)
    BY <1>3 DEF CheckEmpty, Advance
  <2> QED BY <1>1, <1>2, <2>1, QuietPasses
<1>4. CASE NothingRegistered
  <2>1. Continue(Sampler, AllUnlocks) /\ AllUnlocks \in Seq(SampleSteps) /\ AllUnlocks \in Seq(QuietSteps)
    BY <1>4, LockLists, StepSequences DEF CheckEmpty
  <2>2. todo'[Sampler] = AllUnlocks
    BY <2>1, OwnStepsOf, Continued
  <2>3. Distinct(todo'[Sampler]) /\ Tags(todo'[Sampler]) = {}
    BY <2>1, <2>2, QuietTags
  <2>4. /\ \A i : ~Planned(i)' /\ \A k : ~Ahead(k)'
        /\ Distinct(todo[Sampler])' /\ Tags(todo[Sampler])' = {}
    BY <2>3 DEF Planned, Ahead, Tags, TagOf, Ends, Distinct
  <2>5. Registered = {} /\ Registered' = Registered /\ \A k \in Kinds : ToSet(registry[k]) = {}
    <3>1. ToSet(<<>>) = {}
      BY DEF ToSet
    <3> QED BY <1>2, <1>4, <3>1 DEF NothingRegistered, Registered
  <2>6. present = {} /\ ToSet(out) \subseteq {DroppedGauge} /\ IsInjective(out)
    BY <2>5 DEF Pass
  <2>7. out # <<>> => DroppedGauge \in ToSet(out)
    <3> SUFFICES ASSUME out # <<>> PROVE DroppedGauge \in ToSet(out)
      OBVIOUS
    <3>1. out \in Seq(Instruments \cup {DroppedGauge}) /\ Len(out) \in Nat /\ Len(out) # 0
      BY EmptySeq, LenProperties DEF Types, TypeOK
    <3>2. 1 \in 1..Len(out)
      BY <3>1
    <3>3. out[1] \in ToSet(out)
      BY <3>1, <3>2, Members
    <3> QED BY <2>6, <3>3
  <2> QED BY <1>2, <2>4, <2>5, <2>6, <2>7 DEF Pass
<1> QED BY <1>3, <1>4

\* The loop over a vector plans a point for each instrument in it.
LEMMA EachPasses ==
    ASSUME Types, Registration, Pass, Each
    PROVE  Pass'
<1>1. PICK k \in Kinds : k = NextStep(Sampler)[2]
  BY OwnStepsOf, Next1, Abouts DEF Each
<1>2. PICK a, b : a = Loop(registry[k]) /\ b = Tail(todo[Sampler])
  OBVIOUS
<1>3. todo[Sampler] # <<>> /\ TagOf(NextStep(Sampler)) = {<<"each", k>>} /\ Distinct(todo[Sampler])
  BY <1>1, HeadTag DEF Each, Pass
<1>4. registry[k] \in Seq(Instruments) /\ IsInjective(registry[k])
  BY DEF Types, TypeOK, Registration
<1>5. PICK A : A = {<<"ship", i>> : i \in ToSet(registry[k])}
  OBVIOUS
<1>6. a \in Seq(SampleSteps) /\ Tags(a) = A /\ Distinct(a)
  BY <1>2, <1>4, <1>5, LoopList, LoopTags
<1>7. /\ b \in Seq(SampleSteps) /\ Distinct(b) /\ <<"each", k>> \notin Tags(b)
      /\ Tags(todo[Sampler]) = {<<"each", k>>} \cup Tags(b)
  BY <1>2, <1>3, HeadDone
<1>8. Ahead(k) /\ \A i \in ToSet(registry[k]) : i \notin ToSet(out) /\ ~Planned(i)
  BY <1>7 DEF Ahead, Pass
<1>9. \A x \in A : x \notin Tags(b)
  BY <1>5, <1>7, <1>8 DEF Planned
<1>10. A \cap Tags(b) = {}
  BY <1>9
<1>11. a \o b \in Seq(SampleSteps)
  BY <1>6, <1>7, ConcatProperties
<1>12. Tags(a \o b) = A \cup Tags(b)
  <2>1. a \in Seq(SampleSteps) /\ b \in Seq(SampleSteps)
    BY <1>6, <1>7
  <2>2. Tags(a \o b) = Tags(a) \cup Tags(b)
    BY <2>1, ConcatTags
  <2> QED BY <1>6, <2>2
<1>13. Distinct(a \o b)
  <2>1. a \in Seq(SampleSteps) /\ b \in Seq(SampleSteps) /\ Distinct(a) /\ Distinct(b) /\ Tags(a) \cap Tags(b) = {}
    BY <1>6, <1>7, <1>10
  <2> QED BY <2>1, ConcatTags
<1>14. todo'[Sampler] = a \o b
  <2>1. Continue(Sampler, a \o b)
    BY <1>1, <1>2 DEF Each, Loop
  <2> QED BY <1>11, <2>1, OwnStepsOf, Continued
<1>15. UNCHANGED <<registry, out, present, passes>> /\ Registered' = Registered
  BY DEF Each, passVars, Registered
<1>16. /\ \A i : Planned(i)' <=> Planned(i) \/ i \in ToSet(registry[k])
       /\ \A l \in Kinds : Ahead(l)' <=> Ahead(l) /\ l # k
       /\ Distinct(todo[Sampler])' /\ Tags(todo[Sampler])' = A \cup Tags(b)
  <2>1. Tags(todo[Sampler])' = A \cup Tags(b) /\ Distinct(todo[Sampler])'
    BY <1>12, <1>13, <1>14 DEF Tags, TagOf, Ends, Distinct
  <2>2. ASSUME NEW i PROVE <<"ship", i>> \in A \cup Tags(b) <=> Planned(i) \/ i \in ToSet(registry[k])
    <3>1. <<"ship", i>> # <<"each", k>>
      OBVIOUS
    <3>2. <<"ship", i>> \in A <=> i \in ToSet(registry[k])
      BY <1>5
    <3> QED BY <1>7, <3>1, <3>2 DEF Planned
  <2>3. ASSUME NEW l PROVE <<"each", l>> \in A \cup Tags(b) <=> Ahead(l) /\ l # k
    <3>1. <<"each", l>> \notin A
      BY <1>5
    <3>2. <<"each", l>> = <<"each", k>> <=> l = k
      OBVIOUS
    <3> QED BY <1>7, <3>1, <3>2 DEF Ahead
  <2> QED BY <2>1, <2>2, <2>3 DEF Planned, Ahead
<1>17. \A i \in ToSet(registry[k]) : i \in Registered /\ i \notin ToSet(out)
  BY <1>8 DEF Registered
<1>18. \A i : Planned(i)' => i \in (Registered \cup {DroppedGauge}) \ ToSet(out)
  BY <1>16, <1>17 DEF Pass
<1>19. \A l \in Kinds : Ahead(l)' => \A i \in ToSet(registry[l]) : i \notin ToSet(out) /\ ~Planned(i)'
  <2> SUFFICES ASSUME NEW l \in Kinds, Ahead(l), l # k, NEW i \in ToSet(registry[l])
               PROVE  i \notin ToSet(out) /\ ~Planned(i) /\ i \notin ToSet(registry[k])
    BY <1>16
  <2>1. i \notin ToSet(registry[k])
    BY DEF Types, TypeOK
  <2> QED BY <2>1 DEF Pass
<1>20. passes > 0 => \A i \in present \ Histograms : i \in ToSet(out) \/ Planned(i)' \/ Ahead(KindOf(i))'
  <2> SUFFICES ASSUME passes > 0, NEW i \in present \ Histograms
               PROVE  i \in ToSet(out) \/ Planned(i)' \/ Ahead(KindOf(i))'
    OBVIOUS
  <2>1. i \in ToSet(out) \/ Planned(i) \/ Ahead(KindOf(i))
    BY DEF Pass
  <2>2. i \in Registered
    BY DEF Pass
  <2>3. KindOf(i) \in Kinds /\ i \in ToSet(registry[KindOf(i)])
    BY <2>2, RegisteredOf
  <2> QED BY <1>16, <2>1, <2>3
<1>21. passes > 0 => DroppedGauge \in ToSet(out) \/ Planned(DroppedGauge)'
  <2>1. Tags(todo[Sampler]) # {}
    BY <1>7
  <2> QED BY <1>16, <2>1 DEF Pass
<1> QED BY <1>15, <1>16, <1>18, <1>19, <1>20, <1>21 DEF Pass

LEMMA TickPasses ==
    ASSUME Types, Pass, SampleTick
    PROVE  Pass'
<1>1. todo'[Sampler] = sample /\ out' = <<>> /\ present' = Registered /\ registry' = registry /\ Registered' = Registered
  BY OwnStepsOf, SampleList, Continued DEF SampleTick, Registered
<1>2. ToSet(<<>>) = {} /\ IsInjective(<<>>)
  BY DEF ToSet, IsInjective
<1>3. PICK A : A = {<<"each", k>> : k \in Kinds} \cup {<<"ship", DroppedGauge>>}
  OBVIOUS
<1>4. Tags(todo[Sampler])' = A /\ Distinct(todo[Sampler])'
  <2>1. Tags(todo'[Sampler]) = A /\ Distinct(todo'[Sampler])
    BY <1>1, <1>3, SampleTags
  <2> QED BY <2>1 DEF Tags, TagOf, Ends, Distinct
<1>5. (\A i : Planned(i)' <=> i = DroppedGauge) /\ (\A k : Ahead(k)' <=> k \in Kinds)
  <2>1. \A i : <<"ship", i>> \in A <=> i = DroppedGauge
    BY <1>3
  <2>2. \A k : <<"each", k>> \in A <=> k \in Kinds
    BY <1>3
  <2> QED BY <1>4, <2>1, <2>2 DEF Planned, Ahead
<1>6. DroppedGauge \notin Registered
  BY RegisteredOf, InstrumentsAssumption
<1>7. \A k \in Kinds : \A i \in ToSet(registry[k]) : i # DroppedGauge
  BY <1>6 DEF Registered
<1>8. \A i \in Registered : KindOf(i) \in Kinds
  BY RegisteredOf
<1> QED BY <1>1, <1>2, <1>4, <1>5, <1>7, <1>8 DEF Pass

LEMMA PushPasses ==
    ASSUME Types, Registration, Pass, NEW t \in Threads, Push(t)
    PROVE  Pass'
<1>1. PICK i \in Instruments :
        /\ i \notin Registered /\ Registered' = Registered \cup {i} /\ KindOf(i) \in Kinds
        /\ ToSet(registry'[KindOf(i)]) = ToSet(registry[KindOf(i)]) \cup {i}
        /\ \A k \in Kinds \ {KindOf(i)} : registry'[k] = registry[k]
  BY Pushes
<1>2. todo'[Sampler] = todo[Sampler] /\ UNCHANGED <<out, present, passes>>
  BY Pushes, OwnStepsOf DEF Push, passVars, Types, TypeOK
<1>3. /\ \A j : Planned(j)' <=> Planned(j)
      /\ \A k : Ahead(k)' <=> Ahead(k)
      /\ Distinct(todo[Sampler])' = Distinct(todo[Sampler]) /\ Tags(todo[Sampler])' = Tags(todo[Sampler])
  BY <1>2 DEF Planned, Ahead, Tags, TagOf, Ends, Distinct
<1>4. i # DroppedGauge
  BY InstrumentsAssumption
<1>5. i \notin ToSet(out) /\ ~Planned(i)
  BY <1>1, <1>4 DEF Pass
<1>6. \A k \in Kinds : ToSet(registry'[k]) \subseteq ToSet(registry[k]) \cup {i}
  BY <1>1
<1>7. \A k \in Kinds : Ahead(k) => \A j \in ToSet(registry'[k]) : j \notin ToSet(out) /\ ~Planned(j)
  <2> SUFFICES ASSUME NEW k \in Kinds, Ahead(k), NEW j \in ToSet(registry'[k])
               PROVE  j \notin ToSet(out) /\ ~Planned(j)
    OBVIOUS
  <2>1. j \in ToSet(registry[k]) \/ j = i
    BY <1>6
  <2> QED BY <1>5, <2>1 DEF Pass
<1> QED BY <1>1, <1>2, <1>3, <1>7 DEF Pass

LEMMA PassStep == Types /\ Registration /\ Pass /\ [Next]_vars => Pass'
<1> SUFFICES ASSUME Types, Registration, Pass, [Next]_vars PROVE Pass'
  OBVIOUS
<1> USE OwnStepsOf
<1>0. Distinct(todo[Sampler])
  BY DEF Pass
<1>1. CASE UNCHANGED vars
  BY <1>0, <1>1, PassKeeps DEF vars, passVars
<1>2. CASE Worlds \/ Anchors \/ \E w \in Workers : Resyncs(w)
  BY <1>0, <1>2, PassKeeps DEF Worlds, Anchors, Resyncs, BesideSampling, passVars
<1>3. ASSUME NEW c \in Counters, NEW n \in Amounts, Add(c, n) PROVE Pass'
  BY <1>0, <1>3, PassKeeps DEF Add, passVars
<1>4. ASSUME NEW t \in Threads, Calls(t) PROVE Pass'
  <2>1. t # Sampler /\ UNCHANGED <<registry, out, present, passes>>
    BY <1>4 DEF Calls, passVars
  <2> QED BY <1>0, <1>4, <2>1, OthersKeepTodo, PassKeeps
<1>5. ASSUME NEW t \in Threads, Lock(t) \/ Unlock(t) PROVE Pass'
  <2>1. UNCHANGED <<registry, out, present, passes>>
    BY <1>5 DEF Lock, Unlock, passVars
  <2>2. CASE t # Sampler
    <3>1. todo'[Sampler] = todo[Sampler]
      BY <1>5, <2>2, OthersKeepTodo DEF ThreadStep
    <3> QED BY <1>0, <2>1, <3>1, PassKeeps
  <2>3. CASE t = Sampler
    <3>1. Advance(Sampler) /\ todo[Sampler] # <<>> /\ TagOf(NextStep(Sampler)) = {}
      BY <1>5, <2>3, HeadTag DEF Lock, Unlock
    <3> QED BY <2>1, <3>1, QuietPasses
  <2> QED BY <2>2, <2>3
<1>6. CASE Stamp
  <2>1. Advance(Sampler) /\ todo[Sampler] # <<>> /\ TagOf(NextStep(Sampler)) = {}
    BY <1>6, HeadTag DEF Stamp
  <2> QED BY <1>6, <2>1, QuietPasses DEF Stamp
<1> QED
  BY <1>1, <1>2, <1>3, <1>4, <1>5, <1>6, LoadPasses, ShipPasses, ReadPasses, CheckPasses, EachPasses,
     TickPasses, PushPasses
  DEF Next, ThreadStep, SampleStep

\* A pass that is over has a point of every counter and gauge registered when
\* it began, no point twice, and the dropped-messages gauge (SampleIsComplete),
\* whatever is registered meanwhile: what is planned and what is shipped never
\* meet, and a kind whose mutex is not yet taken hides nothing.
THEOREM SamplesComplete == Spec => []SampleIsComplete
<1>1. Init => Registration /\ Pass
  BY PassInit
<1>2. Types /\ Registration /\ Pass /\ [Next]_vars => (Registration /\ Pass)'
  BY RegistrationStep, PassStep
<1>3. Types /\ Pass => SampleIsComplete
  BY PassSays
<1> QED BY <1>1, <1>2, <1>3, TypesAlways, PTL DEF Spec
=============================================================================
