-------------------------------- MODULE Clock --------------------------------
(***************************************************************************)
(* The timestamps of crates/tell/src/clock.rs.  A timestamp is an anchor,  *)
(* taken from the system clock at first use, plus the ticks of a monotonic *)
(* counter since, plus one correction for the whole process, which the     *)
(* worker of every client replaces once a second.                          *)
(*                                                                         *)
(* Taking the anchor is two readings, one after the other, and a resync is *)
(* two readings and a store.  Time passes between them, somebody may set   *)
(* the system clock, and another worker may store its own correction.      *)
(* The counter does not see that the system clock is set, or goes on while *)
(* the machine sleeps: both move the system clock against the counter.     *)
(***************************************************************************)
EXTENDS Integers

CONSTANTS
    Workers,        \* the workers of all clients of the process
    TicksPerMs,     \* the resolution of both clocks, in ticks
    Epoch,          \* the system clock when the process starts, in ticks
    Jumps,          \* by how much the system clock may be moved at once
    Plans           \* bound: how far a behaviour goes, see plan

ASSUME ClockAssumption ==
    /\ TicksPerMs \in Nat \ {0} /\ Epoch \in Int /\ Jumps \subseteq Int
    /\ \A p \in Plans : p.time \in Nat /\ p.jumps \in Nat /\ p.workers \subseteq Workers

VARIABLES
    raw,            \* the monotonic counter
    sys,            \* the system clock
    anchor,         \* ANCHOR, and how many of its two readings are taken
    correction,     \* CORRECTION_MS
    done,           \* readings each worker has taken in its resync
    seen,           \* what it has read
    \* history
    taken,          \* of the system reading of each resync: how far the system
                    \* clock was ahead of the counter, the counter then, and
                    \* the ticks from there to the monotonic reading
    inForce,        \* the same for what timestamps are made from now
    jumps,
    plan            \* bound: [time |-> ticks, jumps |-> moves of the system
                    \* clock, workers |-> those that resync, ...]

clockVars == <<raw, sys, anchor, correction, done, seen, taken, inForce, jumps, plan>>
worldVars == <<raw, sys, jumps>>

Readings == {"system", "monotonic"}
NothingSeen == [r \in Readings |-> 0]
NotTaken == [offset |-> 0, at |-> 0, lag |-> 0]
Taken == [offset : Int, at : Nat, lag : Nat]

ClockTypeOK ==
    /\ raw \in Nat /\ sys \in Int
    /\ anchor \in [taken : 0..2, system : Nat, raw : Nat]
    /\ correction \in Int
    /\ done \in [Workers -> 0..2]
    /\ seen \in [Workers -> [Readings -> Nat]]
    /\ taken \in [Workers -> Taken] /\ inForce \in Taken
    /\ jumps \in Nat
    /\ plan \in Plans

ClockInit ==
    /\ raw = 0 /\ sys = Epoch
    /\ anchor = [taken |-> 0, system |-> 0, raw |-> 0]
    /\ correction = 0
    /\ done = [w \in Workers |-> 0] /\ seen = [w \in Workers |-> NothingSeen]
    /\ taken = [w \in Workers |-> NotTaken] /\ inForce = NotTaken
    /\ jumps = 0
    /\ plan \in Plans
-----------------------------------------------------------------------------
(* The world *)

TimePasses ==
    /\ raw < plan.time
    /\ raw' = raw + 1 /\ sys' = sys + 1
    /\ UNCHANGED <<anchor, correction, done, seen, taken, inForce, jumps, plan>>

\* The machine slept, or the clock was set or stepped by NTP.
Jump(d) ==
    /\ jumps < plan.jumps
    /\ jumps' = jumps + 1
    /\ sys' = sys + d
    /\ UNCHANGED <<raw, anchor, correction, done, seen, taken, inForce, plan>>
-----------------------------------------------------------------------------
(* clock.rs *)

\* Mutant: a time before the epoch is a number like any other.
AsItIs(n) == n

NotBelowZero(n) == IF n < 0 THEN 0 ELSE n

\* A clock before the epoch reads as zero.
system_ms == NotBelowZero(sys) \div TicksPerMs

\* Milliseconds are cut off after the subtraction.
monotonic_ms == anchor.system + (raw - anchor.raw) \div TicksPerMs

\* Read the counter, load the correction: what a call returns that is made
\* here.  Between the two the counter can only go on, so a call that is held up
\* there returns no more than one made at its end.
now_ms == NotBelowZero(monotonic_ms + correction)

Anchored == anchor.taken = 2

Offset == sys - raw

\* Whoever uses the clock first takes the anchor.  Everybody else waits, and
\* so does this one if it came from resync, with the system clock already read.
AnchorSystem ==
    /\ anchor.taken = 0
    /\ anchor' = [anchor EXCEPT !.taken = 1, !.system = system_ms]
    /\ inForce' = [offset |-> Offset, at |-> raw, lag |-> 0]
    /\ UNCHANGED <<worldVars, correction, done, seen, taken, plan>>

AnchorRaw ==
    /\ anchor.taken = 1
    /\ anchor' = [anchor EXCEPT !.taken = 2, !.raw = raw]
    /\ inForce' = [inForce EXCEPT !.lag = raw - inForce.at]
    /\ UNCHANGED <<worldVars, correction, done, seen, taken, plan>>

\* Mutant: the counter is read before the system clock.
MonotonicFirst == <<"monotonic", "system">>

\* The operands of the subtraction in resync, in the order they are evaluated.
ReadingOrder == <<"system", "monotonic">>

ReadSystem(w) ==
    /\ seen' = [seen EXCEPT ![w]["system"] = system_ms]
    /\ taken' = [taken EXCEPT ![w] = [offset |-> Offset, at |-> raw, lag |-> 0]]

ReadMonotonic(w) ==
    /\ Anchored
    /\ seen' = [seen EXCEPT ![w]["monotonic"] = monotonic_ms]
    /\ taken' = [taken EXCEPT ![w].lag = raw - taken[w].at]

Read(w) ==
    /\ w \in plan.workers /\ done[w] < 2
    /\ IF ReadingOrder[done[w] + 1] = "system" THEN ReadSystem(w) ELSE ReadMonotonic(w)
    /\ done' = [done EXCEPT ![w] = @ + 1]
    /\ UNCHANGED <<worldVars, anchor, correction, inForce, plan>>

\* Mutant: the correction only ever grows, so that time never steps back.
GrowingCorrection(drift) == IF drift > correction THEN drift ELSE correction

\* The drift replaces the correction, it is not added to it.
Corrected(drift) == drift

Store(w) ==
    /\ done[w] = 2
    /\ correction' = Corrected(seen[w]["system"] - seen[w]["monotonic"])
    /\ inForce' = taken[w]
    /\ done' = [done EXCEPT ![w] = 0]
    /\ seen' = [seen EXCEPT ![w] = NothingSeen]
    /\ taken' = [taken EXCEPT ![w] = NotTaken]
    /\ UNCHANGED <<worldVars, anchor, plan>>

TakeAnchor == AnchorSystem \/ AnchorRaw
resync(w) == Read(w) \/ Store(w)
World == TimePasses \/ \E d \in Jumps : Jump(d)

ClockNext == World \/ TakeAnchor \/ \E w \in Workers : resync(w)

ClockSpec == ClockInit /\ [][ClockNext]_clockVars
-----------------------------------------------------------------------------
\* Ticks by which cutting off milliseconds may move the difference of two clocks.
Slack == 2 * (TicksPerMs - 1)

\* By how much timestamps are behind the system clock, in ticks.
Behind == TicksPerMs * (system_ms - now_ms)

Within(n) == -Slack <= n /\ n <= Slack

\* A timestamp is behind the system clock by as much as that was moved on since
\* it was read for the correction in force, and by the time that passed between
\* the two readings of that resync, and by nothing else: whatever the other
\* workers did meanwhile, and however the anchor was taken.  So no timestamp is
\* ever more than a millisecond ahead of a clock that was not set back.
TracksSystem ==
    Anchored /\ sys >= 0 /\ inForce.at + inForce.offset >= 0
        => Within(Behind - (Offset - inForce.offset) - inForce.lag)

\* When the system clock is no longer moved, timestamps come back to it for
\* good, also after a worker has stored a reading from before the last move.
Heals == <>[](Anchored /\ Within(Behind - inForce.lag))

\* Does not hold with two workers, or when the clock is set back: "drift"
\* (clock.rs:11) is folded in once and for all.  A worker that was held up
\* between its readings and its store puts an older correction in force, and
\* the timestamps step back though the system clock did not.
NeverStepsBack == [][ Anchored /\ sys' >= sys => now_ms' >= now_ms ]_clockVars
==============================================================================
