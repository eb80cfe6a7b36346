---------------------------- MODULE Instruments ----------------------------
(***************************************************************************)
(* The registry of crates/tell/src/metrics/mod.rs with the counters and    *)
(* gauges in it, as the threads of the application and the worker of the   *)
(* client use it: the threads register instruments, ask how many there are *)
(* and add to counters, while the worker samples at its ticks, stamping    *)
(* its points with the clock, which it resyncs in between.  (What a        *)
(* histogram does is in Histogram.)                                        *)
(*                                                                         *)
(* The registry has a mutex for each kind of instrument, and a gauge is a  *)
(* closure of the application that the worker calls with one of them held. *)
(* A thread carries the steps it has still to take, todo; a step is one    *)
(* access to something shared:                                             *)
(*                                                                         *)
(*   <<"lock", k>> <<"unlock", k>>   take and give back a mutex            *)
(*   <<"push", i>>      add instrument i to the vector of its kind         *)
(*   <<"check", "">>    is_empty has all lengths: go on or stop            *)
(*   <<"stamp", "">>    clock::now_ms                                      *)
(*   <<"each", k>>      the head of the loop over the instruments of k     *)
(*   <<"load", c>> <<"swap", c>>     Counter::sample                       *)
(*   <<"snapshot", h>>  Histogram::sample                                  *)
(*   <<"read", g>>      call the reader of gauge g                         *)
(*   <<"ship", i>>      push the point of i to the queue of the worker; of  *)
(*                      a gauge the points its reader returned, if any     *)
(***************************************************************************)
EXTENDS Clock, Sequences, FiniteSets, SequencesExt

CONSTANTS
    Callers,        \* threads of the application
    Sampler,        \* the worker of this client
    Counters, Histograms, Gauges,   \* what may be registered, by name
    Cumulative,     \* counters with Temporality::Cumulative
    Reader,         \* for each gauge: what its closure does, see ReaderSteps
    UnderLock,      \* what the application does while it holds a lock of its
                    \* own that a reader takes too, see Calls
    Amounts,        \* what is added to a counter
    Modulus         \* 2^64 for AtomicU64

Kinds == {"counters", "histograms", "gauges"}
Locks == Kinds \cup {"app"}
Instruments == Counters \cup Histograms \cup Gauges
DroppedGauge == "tell.sdk.dropped"
Threads == Callers \cup {Sampler}
Free == "free"

ASSUME InstrumentsAssumption ==
    /\ Sampler \in Workers /\ Callers \cap Workers = {}
    /\ Cumulative \subseteq Counters
    /\ DroppedGauge \notin Instruments     \* the worker's own, not registered
    /\ \A g \in Gauges : Reader[g] \in {"handle", "lock", "len"}
    /\ Modulus \in Nat \ {0} /\ Amounts \subseteq 0..(Modulus - 1)
    /\ \A p \in Plans : p.passes \in Nat /\ p.calls \in Nat /\ p.adds \in Nat

VARIABLES
    registry,       \* the three vectors
    lock,           \* who holds each mutex
    todo,           \* steps each thread has still to take
    total, shipped, \* the atomics of each counter
    now,            \* the local variable of Counter::sample
    out,            \* whose points the pass under way shipped, or the last one:
                    \* a gauge is in it once, however many its reader returned
    stamp,          \* their timestamp
    \* history
    added,          \* what was added to each counter, in all
    collected,      \* what its points say: their sum, or the last one
    present,        \* instruments registered when the pass began
    begun,          \* instruments whose registration has begun
    passes, calls, adds

cellVars == <<total, shipped, now, added, collected, adds>>
passVars == <<out, stamp, present, passes>>
callVars == <<begun, calls>>
vars == <<clockVars, registry, lock, todo, cellVars, passVars, callVars>>

KindOf(i) == IF i \in Counters THEN "counters"
             ELSE IF i \in Histograms THEN "histograms" ELSE "gauges"
Registered == UNION {ToSet(registry[k]) : k \in Kinds}

Ops == {"lock", "unlock", "push", "check", "stamp", "each", "load", "swap", "snapshot", "read", "ship"}
Step == Ops \X (Locks \cup Instruments \cup {DroppedGauge, ""})

TypeOK ==
    /\ ClockTypeOK
    /\ registry \in [Kinds -> Seq(Instruments)]
    /\ \A k \in Kinds : \A i \in ToSet(registry[k]) : KindOf(i) = k
    /\ lock \in [Locks -> Threads \cup {Free}]
    /\ todo \in [Threads -> Seq(Step)]
    /\ total \in [Counters -> 0..(Modulus - 1)] /\ shipped \in [Counters -> 0..(Modulus - 1)]
    /\ now \in 0..(Modulus - 1)
    /\ out \in Seq(Instruments \cup {DroppedGauge}) /\ stamp \in Nat
    /\ added \in [Counters -> Nat] /\ collected \in [Counters -> Nat]
    /\ present \subseteq Instruments /\ begun \subseteq Instruments
    /\ passes \in 0..plan.passes /\ calls \in 0..plan.calls /\ adds \in 0..plan.adds

Init ==
    /\ ClockInit
    /\ registry = [k \in Kinds |-> <<>>]
    /\ lock = [k \in Locks |-> Free]
    /\ todo = [t \in Threads |-> <<>>]
    /\ total = [c \in Counters |-> 0] /\ shipped = [c \in Counters |-> 0] /\ now = 0
    /\ out = <<>> /\ stamp = 0
    /\ added = [c \in Counters |-> 0] /\ collected = [c \in Counters |-> 0]
    /\ present = {} /\ begun = {}
    /\ passes = 0 /\ calls = 0 /\ adds = 0
-----------------------------------------------------------------------------
(* The methods, as the steps they take *)

AllLocks   == << <<"lock", "counters">>, <<"lock", "histograms">>, <<"lock", "gauges">> >>
AllUnlocks == << <<"unlock", "gauges">>, <<"unlock", "histograms">>, <<"unlock", "counters">> >>

\* Metrics::len: the three guards live to the end of the sum.
len == AllLocks \o AllUnlocks

is_empty == AllLocks \o << <<"check", "">> >> \o AllUnlocks

OfKind(k) == << <<"lock", k>>, <<"each", k>>, <<"unlock", k>> >>

\* Mutant: the gauges are read first, and all three guards are kept.
SampleHolding ==
    << <<"lock", "gauges">>, <<"each", "gauges">>,
       <<"lock", "histograms">>, <<"each", "histograms">>,
       <<"lock", "counters">>, <<"each", "counters">> >> \o AllUnlocks
    \o << <<"ship", DroppedGauge>> >>

SampleEach ==
    OfKind("counters") \o OfKind("histograms") \o OfKind("gauges") \o << <<"ship", DroppedGauge>> >>

\* sample_instruments and Metrics::sample, which both ask is_empty.
sample == is_empty \o << <<"stamp", "">> >> \o is_empty \o SampleEach

\* CounterBuilder::register, HistogramBuilder::register, Metrics::gauge
register(i) == << <<"lock", KindOf(i)>>, <<"push", i>>, <<"unlock", KindOf(i)>> >>

ByApp(steps) == << <<"lock", "app">> >> \o steps \o << <<"unlock", "app">> >>

\* What the closure of a gauge may do: read handles, take a lock of the
\* application for a moment, or come back to the registry.
ReaderSteps(g) ==
    CASE Reader[g] = "handle" -> <<>>
      [] Reader[g] = "lock"   -> ByApp(<<>>)
      [] Reader[g] = "len"    -> len

\* What a loop does with one instrument.
EachSteps(i) ==
    IF i \in Cumulative THEN << <<"load", i>> >>
    ELSE IF i \in Counters THEN << <<"load", i>>, <<"swap", i>> >>
    ELSE IF i \in Histograms THEN << <<"snapshot", i>> >>
    ELSE << <<"read", i>>, <<"ship", i>> >>

NextStep(t) == Head(todo[t])
Does(t, op) == todo[t] # <<>> /\ NextStep(t)[1] = op
Continue(t, steps) == todo' = [todo EXCEPT ![t] = steps]
Advance(t) == Continue(t, Tail(todo[t]))
-----------------------------------------------------------------------------
(* Steps of any thread *)

Lock(t) ==
    /\ Does(t, "lock") /\ lock[NextStep(t)[2]] = Free
    /\ lock' = [lock EXCEPT ![NextStep(t)[2]] = t]
    /\ Advance(t)
    /\ UNCHANGED <<clockVars, registry, cellVars, passVars, callVars>>

Unlock(t) ==
    /\ Does(t, "unlock")
    /\ lock' = [lock EXCEPT ![NextStep(t)[2]] = Free]
    /\ Advance(t)
    /\ UNCHANGED <<clockVars, registry, cellVars, passVars, callVars>>

Push(t) ==
    /\ Does(t, "push")
    /\ registry' = [registry EXCEPT ![KindOf(NextStep(t)[2])] = Append(@, NextStep(t)[2])]
    /\ Advance(t)
    /\ UNCHANGED <<clockVars, lock, cellVars, passVars, callVars>>

\* What a thread of the application may do: ask, use its own lock, register.
Asks == {len, ByApp(<<>>)} \cup (IF "len" \in UnderLock THEN {ByApp(len)} ELSE {})
Registers(i) ==
    {register(i)} \cup (IF "register" \in UnderLock THEN {ByApp(register(i))} ELSE {})

Calls(t) ==
    /\ t \in Callers /\ todo[t] = <<>> /\ calls < plan.calls
    /\ calls' = calls + 1
    /\ \/ \E steps \in Asks : Continue(t, steps) /\ UNCHANGED begun
       \/ \E i \in Instruments \ begun : \E steps \in Registers(i) :
            Continue(t, steps) /\ begun' = begun \cup {i}
    /\ UNCHANGED <<clockVars, registry, lock, cellVars, passVars>>

\* Counter::add and Counter::inc: one fetch_add, by whoever has the handle.
Add(c, n) ==
    /\ c \in Registered /\ adds < plan.adds
    /\ adds' = adds + 1
    /\ total' = [total EXCEPT ![c] = (@ + n) % Modulus]
    /\ added' = [added EXCEPT ![c] = @ + n]
    /\ UNCHANGED <<clockVars, registry, lock, todo, shipped, now, collected, passVars, callVars>>
-----------------------------------------------------------------------------
(* The worker *)

SampleTick ==
    /\ todo[Sampler] = <<>> /\ done[Sampler] = 0 /\ passes < plan.passes
    /\ passes' = passes + 1
    /\ Continue(Sampler, sample)
    /\ out' = <<>> /\ present' = Registered
    /\ UNCHANGED <<clockVars, registry, lock, cellVars, stamp, callVars>>

\* Mutant: only the counters are counted.
NoCounters == registry["counters"] = <<>>

NothingRegistered == \A k \in Kinds : registry[k] = <<>>

CheckEmpty ==
    /\ Does(Sampler, "check")
    /\ Continue(Sampler, IF NothingRegistered THEN AllUnlocks ELSE Tail(todo[Sampler]))
    /\ UNCHANGED <<clockVars, registry, lock, cellVars, passVars, callVars>>

Stamp ==
    /\ Does(Sampler, "stamp") /\ Anchored
    /\ stamp' = now_ms
    /\ Advance(Sampler)
    /\ UNCHANGED <<clockVars, registry, lock, cellVars, out, present, passes, callVars>>

Each ==
    /\ Does(Sampler, "each")
    /\ LET all == registry[NextStep(Sampler)[2]]
       IN  Continue(Sampler, FlattenSeq([n \in DOMAIN all |-> EachSteps(all[n])]) \o Tail(todo[Sampler]))
    /\ UNCHANGED <<clockVars, registry, lock, cellVars, passVars, callVars>>

\* Counter::sample: the load, with the point of a cumulative counter.
LoadTotal ==
    LET c == NextStep(Sampler)[2] IN
    /\ Does(Sampler, "load")
    /\ now' = IF c \in Cumulative THEN 0 ELSE total[c]
    /\ IF c \in Cumulative
       THEN out' = Append(out, c) /\ collected' = [collected EXCEPT ![c] = total[c]]
       ELSE UNCHANGED <<out, collected>>
    /\ Advance(Sampler)
    /\ UNCHANGED <<clockVars, registry, lock, total, shipped, added, adds, stamp, present, passes, callVars>>

\* Mutant: the total is loaded a second time.
LoadAgain(c) == total[c]

\* What swap puts in the place of the total shipped before.
ShippedNow(c) == now

\* The point of a delta counter, and the saturating subtraction in it.
Delta(c) == NotBelowZero(now - shipped[c])

SwapShipped ==
    LET c == NextStep(Sampler)[2] IN
    /\ Does(Sampler, "swap")
    /\ shipped' = [shipped EXCEPT ![c] = ShippedNow(c)]
    /\ collected' = [collected EXCEPT ![c] = @ + Delta(c)]
    /\ out' = Append(out, c)
    /\ now' = 0
    /\ Advance(Sampler)
    /\ UNCHANGED <<clockVars, registry, lock, total, added, adds, stamp, present, passes, callVars>>

\* Histogram::sample: a point, or none if nothing was observed yet.
Snapshot ==
    /\ Does(Sampler, "snapshot")
    /\ out' \in {out, Append(out, NextStep(Sampler)[2])}
    /\ Advance(Sampler)
    /\ UNCHANGED <<clockVars, registry, lock, cellVars, stamp, present, passes, callVars>>

\* Gauge::sample: the reader runs on the worker, with the gauges locked.
ReadGauge ==
    /\ Does(Sampler, "read")
    /\ Continue(Sampler, ReaderSteps(NextStep(Sampler)[2]) \o Tail(todo[Sampler]))
    /\ UNCHANGED <<clockVars, registry, lock, cellVars, passVars, callVars>>

Ship ==
    /\ Does(Sampler, "ship")
    /\ out' = Append(out, NextStep(Sampler)[2])
    /\ Advance(Sampler)
    /\ UNCHANGED <<clockVars, registry, lock, cellVars, stamp, present, passes, callVars>>

SampleStep == CheckEmpty \/ Stamp \/ Each \/ LoadTotal \/ SwapShipped \/ Snapshot \/ ReadGauge \/ Ship

ThreadStep(t) == Lock(t) \/ Unlock(t) \/ Push(t) \/ (t = Sampler /\ SampleStep)

\* The clock goes on beside all this; a worker resyncs between its passes.
BesideSampling == UNCHANGED <<registry, lock, todo, cellVars, passVars, callVars>>
Worlds     == World /\ BesideSampling
Anchors    == TakeAnchor /\ BesideSampling
Resyncs(w) == (w = Sampler => todo[w] = <<>>) /\ resync(w) /\ BesideSampling

Next ==
    \/ \E t \in Threads : ThreadStep(t) \/ Calls(t)
    \/ \E c \in Counters, n \in Amounts : Add(c, n)
    \/ SampleTick
    \/ Worlds \/ Anchors \/ \E w \in Workers : Resyncs(w)

Spec == Init /\ [][Next]_vars

\* Fairness.  Threads run, and one that waits for a mutex gets it when nobody
\* else wants it any more; the worker comes back to its resync tick, and its
\* readings and its store have no await between them.
Fairness ==
    /\ \A t \in Threads : WF_vars(ThreadStep(t))
    /\ \A w \in Workers : WF_vars(Resyncs(w))
    /\ WF_vars(Anchors)
FairSpec == Spec /\ Fairness
-----------------------------------------------------------------------------
\* What the points of a delta counter say, together with what the next sample
\* will say, is what was added, whatever was added between the load and the
\* swap of a sample; a total that wraps makes them say less, never more.  The
\* last point of a cumulative counter is never more than was added.
DeltasAddUp ==
    \A c \in Counters :
        /\ collected[c] <= added[c]
        /\ c \notin Cumulative /\ added[c] < Modulus
            => collected[c] + (total[c] - shipped[c]) = added[c]

\* A pass that is over has sampled every counter and gauge that was registered
\* when it began, nothing twice, and the dropped-messages gauge with them,
\* whatever was registered meanwhile; with nothing registered it says nothing.
SampleIsComplete ==
    todo[Sampler] = <<>> /\ passes > 0 =>
        /\ IsInjective(out)
        /\ present \ Histograms \subseteq ToSet(out)
        /\ present # {} \/ out # <<>> => DroppedGauge \in ToSet(out)
        /\ ToSet(out) \subseteq Registered \cup {DroppedGauge}

\* No thread waits for ever, neither a pass for the registry or a reader nor a
\* caller for a pass, as long as readers take locks of the application under
\* which it does not come to the registry.  (Does not hold with Reader[g] =
\* "len", which waits for the lock its own caller holds, and with "register" or
\* "len" in UnderLock: a thread that holds the lock a reader wants waits for the
\* registry, though gauge.rs:17 allows a reader "a short lock".)
EveryoneGetsThrough == \A t \in Threads : []<>(todo[t] = <<>>)

\* Does not hold.  "Sum the points to get a total" (metrics/mod.rs:43-44):
\* the sample after a total has wrapped ships nothing for what was added.
DeltasAlwaysAddUp ==
    \A c \in Counters \ Cumulative :
        collected[c] + ((total[c] - shipped[c]) % Modulus) = added[c]
=============================================================================
