----------------------------- MODULE Histogram -----------------------------
(***************************************************************************)
(* One series of crates/tell/src/metrics/histogram.rs: call sites observe  *)
(* values while the worker samples.  A series is a row of atomic cells     *)
(* that are updated and read one by one with Ordering::Relaxed, which      *)
(* keeps the updates of one cell in one order but orders nothing between   *)
(* cells.  So an observer carries a set of cells it has still to update    *)
(* and takes them in any order.  The sampler reads in program order: with  *)
(* updates in any order, every read may come before or after every update  *)
(* of its cell whatever the order of the reads.                            *)
(*                                                                         *)
(* Floats are integers here; Infinity is a number above all values.        *)
(***************************************************************************)
EXTENDS Integers, FiniteSets, Sequences

CONSTANTS
    Observers,          \* threads that observe
    Values,             \* what they observe
    Bounds,             \* Histogram.bounds: ascending, the last is Infinity
    Infinity,
    MaxObservations,    \* bound: observations begun
    MaxSamples          \* bound: samples taken

ASSUME BoundsAssumption ==
    /\ IsFiniteSet(Observers) /\ Values # {} /\ Infinity \in Nat
    /\ \A v \in Values : v \in Int /\ -Infinity < v /\ v < Infinity
    /\ Bounds \in Seq(Int) /\ Bounds # <<>> /\ Bounds[Len(Bounds)] = Infinity
    /\ \A a, b \in DOMAIN Bounds : a < b => Bounds[a] < Bounds[b]
    /\ MaxObservations \in Nat /\ MaxSamples \in Nat

\* A cell is named by a pair, so that buckets are told apart by their index.
Count == <<"count", 0>>
Sum   == <<"sum", 0>>
Min   == <<"min", 0>>
Max   == <<"max", 0>>
Bucket(b) == <<"bucket", b>>

Folded  == {Sum, Min, Max}      \* updated by compare-and-swap
Buckets == {Bucket(b) : b \in DOMAIN Bounds}
Cells   == {Count} \cup Folded \cup Buckets
None    == <<"none", 0>>

\* The order in which snapshot loads the cells.
Loads == <<Count, Sum, Min, Max>> \o [b \in DOMAIN Bounds |-> Bucket(b)]

VARIABLES
    cell,           \* the atomic cells of the Series
    todo,           \* cells each observer has still to update
    value,          \* what it observes
    cas,            \* the cell it is in update_f64 for, and
    current,        \*   the value it expects there
    loaded,         \* cells the sampler has read so far, -1 between samples
    snap,           \* what it has read
    shipped,        \* the last snapshot that became a point
    \* history
    seen,           \* values observed, in the order the calls began
    quietly,        \* no call overlapped the snapshot being read
    samples

vars == <<cell, todo, value, cas, current, loaded, snap, shipped, seen, quietly, samples>>
observerVars == <<todo, value, cas, current>>
samplerVars  == <<loaded, snap, shipped, samples>>

Empty == [c \in Cells |-> CASE c = Min -> Infinity [] c = Max -> -Infinity [] OTHER -> 0]

Active == {t \in Observers : todo[t] # {}}

TypeOK ==
    /\ cell \in [Cells -> Int]
    /\ todo \in [Observers -> SUBSET Cells]
    /\ value \in [Observers -> Values]
    /\ cas \in [Observers -> Folded \cup {None}]
    /\ current \in [Observers -> Int]
    /\ loaded \in -1..Len(Loads) /\ samples \in 0..MaxSamples
    /\ snap \in [Cells -> Int] /\ shipped \in [Cells -> Int]
    /\ seen \in Seq(Values) /\ Len(seen) <= MaxObservations
    /\ quietly \in BOOLEAN

Init ==
    /\ cell = Empty
    /\ todo = [t \in Observers |-> {}]
    /\ value \in {[t \in Observers |-> v] : v \in {CHOOSE w \in Values : TRUE}}
    /\ cas = [t \in Observers |-> None] /\ current = [t \in Observers |-> 0]
    /\ loaded = -1 /\ samples = 0 /\ snap = Empty /\ shipped = Empty
    /\ seen = <<>> /\ quietly = TRUE
-----------------------------------------------------------------------------
\* Mutant: a value on a bound is counted above it.
TouchedBelow(v) == {Count} \cup Folded \cup {c \in Buckets : v < Bounds[c[2]]}

\* Series::observe: the cells this value touches.
Touched(v) == {Count} \cup Folded \cup {c \in Buckets : v <= Bounds[c[2]]}

Observe(t, v) ==
    /\ todo[t] = {} /\ Len(seen) < MaxObservations
    /\ todo' = [todo EXCEPT ![t] = Touched(v)]
    /\ value' = [value EXCEPT ![t] = v]
    /\ seen' = Append(seen, v)
    /\ quietly' = FALSE
    /\ UNCHANGED <<cell, cas, current, samplerVars>>

\* fetch_add on the count or a bucket.
Add(t, c) ==
    /\ c \in todo[t] \ Folded
    /\ cell' = [cell EXCEPT ![c] = @ + 1]
    /\ todo' = [todo EXCEPT ![t] = @ \ {c}]
    /\ UNCHANGED <<value, cas, current, samplerVars, seen, quietly>>

\* update_f64: the load before the loop.
LoadFolded(t, c) ==
    /\ c \in todo[t] \cap Folded /\ cas[t] = None
    /\ cas' = [cas EXCEPT ![t] = c]
    /\ current' = [current EXCEPT ![t] = cell[c]]
    /\ UNCHANGED <<cell, todo, value, samplerVars, seen, quietly>>

Smaller(a, b) == IF a <= b THEN a ELSE b
Larger(a, b)  == IF a <= b THEN b ELSE a

\* The f of update_f64.
Fold(c, old, v) ==
    CASE c = Sum -> old + v
      [] c = Min -> Smaller(old, v)
      [] c = Max -> Larger(old, v)

\* Mutant: a store instead of a compare-and-swap.
StoreBlindly(t) == TRUE

AsExpected(t) == cell[cas[t]] = current[t]

\* update_f64: compare_exchange_weak, which may fail for no reason.
Exchange(t) ==
    LET c == cas[t] IN
    /\ c # None /\ AsExpected(t)
    /\ cell' = [cell EXCEPT ![c] = Fold(c, current[t], value[t])]
    /\ todo' = [todo EXCEPT ![t] = @ \ {c}]
    /\ cas' = [cas EXCEPT ![t] = None]
    /\ current' = [current EXCEPT ![t] = 0]
    /\ UNCHANGED <<value, samplerVars, seen, quietly>>

ExchangeFails(t) ==
    /\ cas[t] # None
    /\ current' = [current EXCEPT ![t] = cell[cas[t]]]
    /\ UNCHANGED <<cell, todo, value, cas, samplerVars, seen, quietly>>

\* Series::snapshot, one load at a time.
SampleBegins ==
    /\ loaded = -1 /\ samples < MaxSamples
    /\ loaded' = 0
    /\ samples' = samples + 1
    /\ quietly' = (Active = {})
    /\ UNCHANGED <<cell, observerVars, snap, shipped, seen>>

\* Mutant: the sampler takes the totals away, as a delta counter would.
TakeTotal(c) == [cell EXCEPT ![c] = 0]

LeaveTotal(c) == cell

Load ==
    LET c == Loads[loaded + 1] IN
    /\ loaded \in 0..(Len(Loads) - 1)
    /\ loaded = 1 => snap[Count] # 0
    /\ loaded' = loaded + 1
    /\ snap' = [snap EXCEPT ![c] = cell[c]]
    /\ cell' = LeaveTotal(c)
    /\ UNCHANGED <<observerVars, shipped, samples, seen, quietly>>

\* The point is pushed, or there is none: a series whose count reads zero
\* ships nothing and reads no further.
SampleEnds ==
    /\ \/ loaded = Len(Loads) /\ shipped' = snap
       \/ loaded = 1 /\ snap[Count] = 0 /\ UNCHANGED shipped
    /\ loaded' = -1
    /\ snap' = Empty
    /\ UNCHANGED <<cell, observerVars, samples, seen, quietly>>

Next ==
    \/ \E t \in Observers :
        \/ \E v \in Values : Observe(t, v)
        \/ \E c \in Cells : Add(t, c) \/ LoadFolded(t, c)
        \/ Exchange(t) \/ ExchangeFails(t)
    \/ SampleBegins \/ Load \/ SampleEnds

Spec == Init /\ [][Next]_vars
-----------------------------------------------------------------------------
Positions == DOMAIN seen
SumTo[n \in 0..Len(seen)] == IF n = 0 THEN 0 ELSE SumTo[n - 1] + seen[n]
CountAtMost(x) == Cardinality({n \in Positions : seen[n] <= x})

\* The distribution of the values seen so far.
Exact(c) ==
    CASE c = Count -> Len(seen)
      [] c = Sum -> SumTo[Len(seen)]
      [] c = Min -> IF seen = <<>> THEN Infinity
                      ELSE CHOOSE v \in Values : (\E n \in Positions : seen[n] = v)
                                                  /\ \A n \in Positions : v <= seen[n]
      [] c = Max -> IF seen = <<>> THEN -Infinity
                      ELSE CHOOSE v \in Values : (\E n \in Positions : seen[n] = v)
                                                  /\ \A n \in Positions : v >= seen[n]
      [] OTHER -> CountAtMost(Bounds[c[2]])

\* No observation is lost or counted twice, however the calls interleave: when
\* none is under way the cells hold the exact distribution.
ExactWhenQuiet == Active = {} => \A c \in Cells : cell[c] = Exact(c)

\* A snapshot no call overlapped is the exact distribution.
QuietSnapshotIsExact ==
    loaded = Len(Loads) /\ quietly => \A c \in Cells : snap[c] = Exact(c)

\* The totals never fall back behind a point that was shipped, so that a
\* collector that subtracts two cumulative points never sees a negative count.
PointsGrow ==
    /\ \A c \in {Count, Max} \cup Buckets : shipped[c] <= cell[c]
    /\ cell[Min] <= shipped[Min]

\* Does not hold.  "Buckets are cumulative: bucket b counts every observation
\* <= bounds[b]" (histogram.rs:10-11): in a point, no bucket counts less than
\* a lower one.  A sample between the updates of two buckets ships such a
\* point.
PointsAreCumulative ==
    \A a, b \in DOMAIN Bounds : a <= b => shipped[Bucket(a)] <= shipped[Bucket(b)]
=============================================================================
