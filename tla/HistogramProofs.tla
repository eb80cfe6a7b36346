--------------------------- MODULE HistogramProofs ---------------------------
(***************************************************************************)
(* Theorems about one series of a histogram (module Histogram), for any    *)
(* number of observing threads, any bounds and any values.                 *)
(*                                                                         *)
(* The inductive invariants are TypeOK and                                 *)
(*   Grown     what was read of a cell is behind it, whether the sampler   *)
(*             still has it or it was shipped;                             *)
(*   Tally     a count and the threads that have still to add to it make   *)
(*             the number of observations it is about;                     *)
(*   Extremes  the least and the greatest value are in their cells, or on  *)
(*             their way with the thread that observed them;               *)
(*   Balance   the sum is that of the observations but for one of each     *)
(*             thread that has still to add it.                            *)
(***************************************************************************)
EXTENDS Histogram, InductionLemmas, FiniteSetTheorems, SequenceTheorems, TLAPS

(* Cells *)

Rising == {Count, Max} \cup Buckets
Counted == {Count} \cup Buckets

LEMMA CellsApart ==
    /\ Count \notin Folded \cup Buckets \cup {None} /\ None \notin Cells
    /\ Sum # Min /\ Sum # Max /\ Min # Max /\ Folded \cap Buckets = {}
    /\ \A b \in DOMAIN Bounds : Bucket(b) \in Buckets /\ Bucket(b)[2] = b
BY DEF Count, Sum, Min, Max, None, Folded, Buckets, Bucket, Cells

LEMMA BoundsSeq ==
    /\ Len(Bounds) \in Nat /\ DOMAIN Bounds = 1..Len(Bounds)
    /\ \A b \in DOMAIN Bounds : Bounds[b] \in Int
    /\ Infinity \in Nat /\ -Infinity \in Int /\ -Infinity <= Infinity
    /\ Values \subseteq Int /\ \A v \in Values : -Infinity < v /\ v < Infinity
BY BoundsAssumption

LEMMA LoadsSeq ==
    /\ Loads \in Seq(Cells) /\ Len(Loads) \in Nat
    /\ \A i \in 0..(Len(Loads) - 1) : Loads[i + 1] \in Cells
<1> DEFINE b == [i \in DOMAIN Bounds |-> Bucket(i)]
           f == <<Count, Sum, Min, Max>>
<1>1. b \in Seq(Cells)
  <2>1. \A i \in 1..Len(Bounds) : Bucket(i) \in Cells
    BY BoundsSeq DEF Cells, Buckets
  <2>2. b \in [1..Len(Bounds) -> Cells] /\ Len(Bounds) \in Nat
    BY <2>1, BoundsSeq
  <2> QED BY <2>2, SeqDef
<1>2. f \in Seq(Cells)
  BY DEF Cells, Folded
<1>3. Loads \in Seq(Cells)
  BY <1>1, <1>2, ConcatProperties DEF Loads
<1> QED BY <1>3, LenProperties

LEMMA EmptyCells ==
    /\ Empty \in [Cells -> Int] /\ Empty[Min] = Infinity /\ Empty[Max] = -Infinity
    /\ \A c \in Cells \ {Min, Max} : Empty[c] = 0
<1>1. Min \in Cells /\ Max \in Cells
  BY DEF Cells, Folded
<1> QED BY <1>1, CellsApart, BoundsSeq DEF Empty

LEMMA FoldTyped == \A c \in Folded : \A o \in Int, v \in Values : Fold(c, o, v) \in Int
BY CellsApart, BoundsSeq DEF Fold, Folded, Smaller, Larger
-----------------------------------------------------------------------------
LEMMA TypeStep == TypeOK /\ [Next]_vars => TypeOK'
<1> SUFFICES ASSUME TypeOK, [Next]_vars PROVE TypeOK'
  OBVIOUS
<1> USE DEF TypeOK
<1>0. Folded \subseteq Cells /\ MaxObservations \in Nat /\ MaxSamples \in Nat
  BY BoundsAssumption DEF Cells
<1>1. CASE UNCHANGED vars
  BY <1>1 DEF vars
<1>2. ASSUME NEW t \in Observers, NEW v \in Values, Observe(t, v) PROVE TypeOK'
  <2>1. Touched(v) \subseteq Cells
    BY DEF Touched, Cells
  <2>2. seen' \in Seq(Values) /\ Len(seen') <= MaxObservations
    <3>1. Len(seen') = Len(seen) + 1 /\ seen' \in Seq(Values) /\ Len(seen) \in Nat
      BY <1>2, AppendProperties DEF Observe
    <3> QED BY <1>0, <1>2, <3>1 DEF Observe
  <2> QED BY <1>2, <2>1, <2>2 DEF Observe, samplerVars
<1>3. ASSUME NEW t \in Observers, NEW c \in Cells, Add(t, c) PROVE TypeOK'
  BY <1>3 DEF Add, samplerVars
<1>4. ASSUME NEW t \in Observers, NEW c \in Cells, LoadFolded(t, c) PROVE TypeOK'
  BY <1>4 DEF LoadFolded, samplerVars
<1>5. ASSUME NEW t \in Observers, Exchange(t) PROVE TypeOK'
  <2>1. cas[t] \in Folded
    BY <1>5 DEF Exchange
  <2> DEFINE new == Fold(cas[t], current[t], value[t])
  <2>2. new \in Int
    BY <2>1, FoldTyped
  <2>3. /\ cell' = [cell EXCEPT ![cas[t]] = new] /\ todo' = [todo EXCEPT ![t] = @ \ {cas[t]}]
        /\ cas' = [cas EXCEPT ![t] = None] /\ current' = [current EXCEPT ![t] = 0]
        /\ UNCHANGED <<value, loaded, snap, shipped, samples, seen, quietly>>
    BY <1>5 DEF Exchange, samplerVars
  <2> HIDE DEF new
  <2>4. cell' \in [Cells -> Int]
    BY <2>2, <2>3
  <2>5. todo' \in [Observers -> SUBSET Cells]
    BY <2>3
  <2>6. cas' \in [Observers -> Folded \cup {None}]
    BY <2>3
  <2>7. current' \in [Observers -> Int]
    BY <2>3
  <2> QED BY <2>3, <2>4, <2>5, <2>6, <2>7
<1>6. ASSUME NEW t \in Observers, ExchangeFails(t) PROVE TypeOK'
  <2>1. cell[cas[t]] \in Int
    BY <1>0, <1>6 DEF ExchangeFails
  <2> QED BY <1>6, <2>1 DEF ExchangeFails, samplerVars
<1>7. CASE SampleBegins
  <2>1. 0 \in -1..Len(Loads) /\ samples' \in 0..MaxSamples /\ quietly' \in BOOLEAN
    BY <1>0, <1>7, LoadsSeq DEF SampleBegins
  <2> QED BY <1>7, <2>1 DEF SampleBegins, observerVars
<1>8. CASE Load
  <2>1. Loads[loaded + 1] \in Cells /\ loaded' \in -1..Len(Loads)
    BY <1>8, LoadsSeq DEF Load
  <2> QED BY <1>8, <2>1 DEF Load, LeaveTotal, observerVars
<1>9. CASE SampleEnds
  <2>1. -1 \in -1..Len(Loads)
    BY LoadsSeq
  <2> QED BY <1>9, <2>1, EmptyCells DEF SampleEnds, observerVars
<1> QED BY <1>1, <1>2, <1>3, <1>4, <1>5, <1>6, <1>7, <1>8, <1>9 DEF Next

LEMMA TypeInit == Init => TypeOK
<1> SUFFICES ASSUME Init PROVE TypeOK
  OBVIOUS
<1>1. 0 \in 0..MaxSamples /\ -1 \in -1..Len(Loads) /\ Len(<<>>) <= MaxObservations
  BY BoundsAssumption, LoadsSeq
<1>2. (CHOOSE w \in Values : TRUE) \in Values
  BY BoundsAssumption
<1> QED BY <1>1, <1>2, EmptyCells, EmptySeq DEF Init, TypeOK

\* The cells, the observers and the sampler have their types.
THEOREM TypesHold == Spec => []TypeOK
BY TypeInit, TypeStep, PTL DEF Spec
-----------------------------------------------------------------------------
(* Totals only grow *)

\* The values x are behind the cells.
Behind(x) == (\A c \in Rising : x[c] <= cell[c]) /\ cell[Min] <= x[Min]

Grown == Behind(Empty) /\ Behind(snap) /\ Behind(shipped)

Grows == (\A c \in Rising : cell[c] <= cell'[c]) /\ cell'[Min] <= cell[Min]

LEMMA RisingCells == Rising \subseteq Cells /\ Min \in Cells /\ Sum \in Cells /\ Sum \notin Rising /\ Min \notin Rising
BY CellsApart DEF Rising, Cells, Folded

LEMMA BehindStays ==
    ASSUME TypeOK, TypeOK', Grows, NEW x \in [Cells -> Int], Behind(x)
    PROVE  (\A c \in Rising : x[c] <= cell'[c]) /\ cell'[Min] <= x[Min]
<1>1. \A c \in Cells : x[c] \in Int /\ cell[c] \in Int /\ cell'[c] \in Int
  BY DEF TypeOK
<1> QED BY <1>1, RisingCells DEF Behind, Grows

LEMMA GrownStays ==
    ASSUME TypeOK, TypeOK', Grown, Grows, snap' \in {snap, Empty}, shipped' \in {shipped, snap}
    PROVE  Grown'
<1>1. \A x \in {Empty, snap, shipped} : x \in [Cells -> Int] /\ Behind(x)
  BY EmptyCells DEF Grown, TypeOK
<1>2. \A x \in {Empty, snap, shipped} : (\A c \in Rising : x[c] <= cell'[c]) /\ cell'[Min] <= x[Min]
  BY <1>1, BehindStays
<1> QED BY <1>2 DEF Grown, Behind

LEMMA SameCells == TypeOK /\ cell' = cell => Grows
<1> SUFFICES ASSUME TypeOK, cell' = cell PROVE Grows
  OBVIOUS
<1>1. \A c \in Cells : cell[c] \in Int
  BY DEF TypeOK
<1> QED BY <1>1, RisingCells DEF Grows

\* What a compare-and-swap that succeeds does to the cells.
LEMMA ExchangeCells ==
    ASSUME TypeOK, NEW t \in Observers, Exchange(t)
    PROVE  /\ cas[t] \in Folded /\ value[t] \in Int
           /\ cas[t] # Sum => cell'[Sum] = cell[Sum]
           /\ cell'[Min] = IF cas[t] = Min THEN Smaller(cell[Min], value[t]) ELSE cell[Min]
           /\ cell'[Max] = IF cas[t] = Max THEN Larger(cell[Max], value[t]) ELSE cell[Max]
           /\ \A c \in Counted : cell'[c] = cell[c]
<1>1. /\ cas[t] \in Folded /\ value[t] \in Int /\ current[t] = cell[cas[t]]
      /\ cell' = [cell EXCEPT ![cas[t]] = Fold(cas[t], current[t], value[t])]
  BY BoundsSeq DEF Exchange, AsExpected, TypeOK
<1>2. \A c \in Cells : cell'[c] = IF c = cas[t] THEN Fold(c, cell[c], value[t]) ELSE cell[c]
  BY <1>1 DEF TypeOK
<1>3. Sum \in Cells /\ Min \in Cells /\ Max \in Cells /\ Counted \subseteq Cells
  BY DEF Cells, Folded, Counted
<1>4. \A c \in Counted : c \notin Folded
  BY CellsApart DEF Counted
<1>5. Fold(Min, cell[Min], value[t]) = Smaller(cell[Min], value[t])
  BY CellsApart DEF Fold
<1>6. Fold(Max, cell[Max], value[t]) = Larger(cell[Max], value[t])
  BY CellsApart DEF Fold
<1> QED BY <1>1, <1>2, <1>3, <1>4, <1>5, <1>6

LEMMA GrownStep == TypeOK /\ Grown /\ [Next]_vars => Grown'
<1> SUFFICES ASSUME TypeOK, Grown, [Next]_vars PROVE Grown'
  OBVIOUS
<1>0. TypeOK'
  BY TypeStep
<1> USE <1>0
<1>1. CASE UNCHANGED vars
  BY <1>1, SameCells, GrownStays DEF vars
<1>2. ASSUME NEW t \in Observers, NEW v \in Values, Observe(t, v) PROVE Grown'
  BY <1>2, SameCells, GrownStays DEF Observe, samplerVars
<1>3. ASSUME NEW t \in Observers, NEW c \in Cells, Add(t, c) PROVE Grown'
  <2>1. \A d \in Cells : cell[d] \in Int /\ cell'[d] = IF d = c THEN cell[d] + 1 ELSE cell[d]
    BY <1>3 DEF Add, TypeOK
  <2>2. Min # c
    BY <1>3 DEF Add, Folded
  <2>3. Grows
    BY <2>1, <2>2, RisingCells DEF Grows
  <2> QED BY <1>3, <2>3, GrownStays DEF Add, samplerVars
<1>4. ASSUME NEW t \in Observers, NEW c \in Cells, LoadFolded(t, c) PROVE Grown'
  BY <1>4, SameCells, GrownStays DEF LoadFolded, samplerVars
<1>5. ASSUME NEW t \in Observers, Exchange(t) PROVE Grown'
  <2>1. \A c \in Cells : cell[c] \in Int
    BY DEF TypeOK
  <2>2. \A c \in Rising : c = Max \/ c \in Counted
    BY DEF Rising, Counted
  <2>3. Grows
    BY <1>5, <2>1, <2>2, ExchangeCells, RisingCells DEF Grows, Smaller, Larger, Rising
  <2> QED BY <1>5, <2>3, GrownStays DEF Exchange, samplerVars
<1>6. ASSUME NEW t \in Observers, ExchangeFails(t) PROVE Grown'
  BY <1>6, SameCells, GrownStays DEF ExchangeFails, samplerVars
<1>7. CASE SampleBegins
  BY <1>7, SameCells, GrownStays DEF SampleBegins
<1>8. CASE Load
  <2>1. /\ cell' = cell /\ shipped' = shipped
        /\ \A c \in Cells : snap'[c] = snap[c] \/ snap'[c] = cell[c]
    BY <1>8 DEF Load, LeaveTotal, TypeOK
  <2>2. \A c \in Cells : cell[c] \in Int
    BY DEF TypeOK
  <2>3. (\A c \in Rising : snap'[c] <= cell[c]) /\ cell[Min] <= snap'[Min]
    BY <2>1, <2>2, RisingCells DEF Grown, Behind
  <2> QED BY <2>1, <2>3 DEF Grown, Behind
<1>9. CASE SampleEnds
  BY <1>9, SameCells, GrownStays DEF SampleEnds
<1> QED BY <1>1, <1>2, <1>3, <1>4, <1>5, <1>6, <1>7, <1>8, <1>9 DEF Next

\* However observers and the sampler interleave, no point that was shipped is
\* ahead of the cells, so that later points never fall back behind it.
THEOREM TotalsNeverFallBack == Spec => []PointsGrow
<1>1. Init => Grown
  <2> SUFFICES ASSUME Init PROVE Grown
    OBVIOUS
  <2>1. \A c \in Cells : Empty[c] \in Int
    BY EmptyCells
  <2> QED BY <2>1, RisingCells DEF Init, Grown, Behind
<1>2. TypeOK /\ Grown => PointsGrow
  BY DEF Grown, Behind, PointsGrow, Rising
<1> QED BY <1>1, <1>2, GrownStep, TypeInit, TypeStep, PTL DEF Spec
-----------------------------------------------------------------------------
(* Counts *)

Pending(c) == {t \in Observers : c \in todo[t]}
Fits(c) == {n \in 1..Len(seen) : c \in Touched(seen[n])}

Tally == \A c \in Counted : cell[c] + Cardinality(Pending(c)) = Cardinality(Fits(c))

LEMMA Finite ==
    ASSUME TypeOK, NEW c
    PROVE  /\ IsFiniteSet(Pending(c)) /\ Cardinality(Pending(c)) \in Nat
           /\ IsFiniteSet(Fits(c)) /\ Cardinality(Fits(c)) \in Nat
<1>1. IsFiniteSet(Pending(c))
  BY BoundsAssumption, FS_Subset DEF Pending
<1>2. 1 \in Int /\ Len(seen) \in Int
  BY LenProperties DEF TypeOK
<1>3. IsFiniteSet(1..Len(seen))
  BY <1>2, FS_Interval
<1>4. IsFiniteSet(Fits(c))
  BY <1>3, FS_Subset DEF Fits
<1> QED BY <1>1, <1>4, FS_CardinalityType

LEMMA SameTally ==
    ASSUME Tally, seen' = seen, \A c \in Counted : cell'[c] = cell[c] /\ Pending(c)' = Pending(c)
    PROVE  Tally'
<1>1. \A c : Fits(c)' = Fits(c)
  BY DEF Fits
<1> QED BY <1>1 DEF Tally

LEMMA NewSeen ==
    ASSUME TypeOK, NEW t \in Observers, NEW v \in Values, Observe(t, v)
    PROVE  /\ Len(seen) \in Nat /\ Len(seen') = Len(seen) + 1 /\ seen'[Len(seen) + 1] = v
           /\ \A n \in 1..Len(seen) : seen'[n] = seen[n]
           /\ 1..Len(seen') = 1..Len(seen) \cup {Len(seen) + 1}
           /\ todo[t] = {}
           /\ \A u \in Observers : todo'[u] = (IF u = t THEN Touched(v) ELSE todo[u])
           /\ \A u \in Observers : value'[u] = (IF u = t THEN v ELSE value[u])
<1>1. seen \in Seq(Values) /\ seen' = Append(seen, v)
  BY DEF Observe, TypeOK
<1>2. /\ Len(seen) \in Nat /\ Len(seen') = Len(seen) + 1 /\ seen'[Len(seen) + 1] = v
      /\ \A n \in 1..Len(seen) : seen'[n] = seen[n]
  BY <1>1, AppendProperties, LenProperties
<1>3. 1..(Len(seen) + 1) = 1..Len(seen) \cup {Len(seen) + 1}
  BY <1>2
<1> QED BY <1>2, <1>3 DEF Observe, TypeOK

LEMMA TallyStep == TypeOK /\ Tally /\ [Next]_vars => Tally'
<1> SUFFICES ASSUME TypeOK, Tally, [Next]_vars PROVE Tally'
  OBVIOUS
<1>0. Counted \subseteq Cells /\ Counted \cap Folded = {}
  BY CellsApart DEF Counted, Cells
<1>1. CASE UNCHANGED vars
  BY <1>1, SameTally DEF vars, Pending
<1>2. ASSUME NEW t \in Observers, NEW v \in Values, Observe(t, v) PROVE Tally'
  <2> SUFFICES ASSUME NEW c \in Counted
               PROVE  cell'[c] + Cardinality(Pending(c)') = Cardinality(Fits(c)')
    BY DEF Tally, Pending, Fits
  <2>1. cell' = cell /\ t \notin Pending(c) /\ Len(seen) + 1 \notin Fits(c)
    BY <1>2, NewSeen DEF Observe, Pending, Fits
  <2>2. Pending(c)' = {u \in Observers : c \in todo'[u]} /\ Fits(c)' = {n \in 1..Len(seen') : c \in Touched(seen'[n])}
    BY DEF Pending, Fits
  <2>3. CASE c \in Touched(v)
    <3>1. Pending(c)' = Pending(c) \cup {t} /\ Fits(c)' = Fits(c) \cup {Len(seen) + 1}
      BY <1>2, <2>2, <2>3, NewSeen DEF Pending, Fits
    <3>2. Cardinality(Pending(c)') = Cardinality(Pending(c)) + 1
      BY <2>1, <3>1, Finite, FS_AddElement
    <3>3. Cardinality(Fits(c)') = Cardinality(Fits(c)) + 1
      BY <2>1, <3>1, Finite, FS_AddElement
    <3>4. cell[c] \in Int
      BY <1>0 DEF TypeOK
    <3> QED BY <2>1, <3>2, <3>3, <3>4, Finite DEF Tally
  <2>4. CASE c \notin Touched(v)
    <3>1. Pending(c)' = Pending(c) /\ Fits(c)' = Fits(c)
      BY <1>2, <2>1, <2>2, <2>4, NewSeen DEF Pending, Fits
    <3> QED BY <2>1, <3>1 DEF Tally
  <2> QED BY <2>3, <2>4
<1>3. ASSUME NEW t \in Observers, NEW c \in Cells, Add(t, c) PROVE Tally'
  <2>1. /\ \A d \in Cells : cell[d] \in Int /\ cell'[d] = IF d = c THEN cell[d] + 1 ELSE cell[d]
        /\ \A u \in Observers : todo'[u] = IF u = t THEN todo[u] \ {c} ELSE todo[u]
        /\ c \in todo[t] /\ seen' = seen
    BY <1>3 DEF Add, TypeOK
  <2>2. \A d : Fits(d)' = Fits(d)
    BY <2>1 DEF Fits
  <2>3. \A d : d # c => Pending(d)' = Pending(d)
    BY <2>1 DEF Pending
  <2>4. Pending(c)' = Pending(c) \ {t} /\ t \in Pending(c)
    BY <2>1 DEF Pending
  <2>5. Cardinality(Pending(c)') = Cardinality(Pending(c)) - 1
    BY <2>4, Finite, FS_RemoveElement
  <2>6. Cardinality(Pending(c)) \in Nat
    BY Finite
  <2>7. ASSUME NEW d \in Counted PROVE cell'[d] + Cardinality(Pending(d)') = Cardinality(Fits(d)')
    BY <1>0, <2>1, <2>2, <2>3, <2>5, <2>6, <2>7 DEF Tally
  <2> QED BY <2>7 DEF Tally, Pending, Fits
<1>4. ASSUME NEW t \in Observers, NEW c \in Cells, LoadFolded(t, c) PROVE Tally'
  BY <1>4, SameTally DEF LoadFolded, Pending
<1>5. ASSUME NEW t \in Observers, Exchange(t) PROVE Tally'
  <2>1. /\ \A c \in Counted : cell'[c] = cell[c]
        /\ \A u \in Observers : todo'[u] = IF u = t THEN todo[u] \ {cas[t]} ELSE todo[u]
        /\ cas[t] \in Folded /\ seen' = seen
    BY <1>5, ExchangeCells DEF Exchange, TypeOK
  <2>2. \A c \in Counted : Pending(c)' = Pending(c)
    BY <1>0, <2>1 DEF Pending
  <2> QED BY <2>1, <2>2, SameTally
<1>6. ASSUME NEW t \in Observers, ExchangeFails(t) PROVE Tally'
  BY <1>6, SameTally DEF ExchangeFails, Pending
<1>7. CASE SampleBegins
  BY <1>7, SameTally DEF SampleBegins, observerVars, Pending
<1>8. CASE Load
  BY <1>8, SameTally DEF Load, LeaveTotal, observerVars, Pending
<1>9. CASE SampleEnds
  BY <1>9, SameTally DEF SampleEnds, observerVars, Pending
<1> QED BY <1>1, <1>2, <1>3, <1>4, <1>5, <1>6, <1>7, <1>8, <1>9 DEF Next
-----------------------------------------------------------------------------
(* The least and the greatest value *)

\* n is not yet in cell c: the thread that observed it has still to put it there.
Coming(c, n) == \E t \in Observers : c \in todo[t] /\ value[t] = seen[n]
Observed(x) == \E n \in 1..Len(seen) : x = seen[n]

Extremes ==
    /\ \A n \in 1..Len(seen) : cell[Min] <= seen[n] \/ Coming(Min, n)
    /\ \A n \in 1..Len(seen) : cell[Max] >= seen[n] \/ Coming(Max, n)
    /\ cell[Min] = Infinity \/ Observed(cell[Min])
    /\ cell[Max] = -Infinity \/ Observed(cell[Max])
    /\ \A t \in Observers : todo[t] # {} => Observed(value[t])
    /\ \A t \in Observers : cas[t] # None => cas[t] \in todo[t]

LEMMA SameExtremes ==
    ASSUME Extremes, UNCHANGED <<seen, value>>, cell'[Min] = cell[Min], cell'[Max] = cell[Max],
           \A t \in Observers : todo'[t] \subseteq todo[t] /\ todo[t] \cap {Min, Max} \subseteq todo'[t],
           \A t \in Observers : cas'[t] # None => cas'[t] \in todo'[t]
    PROVE  Extremes'
<1>1. \A n : (Coming(Min, n) => Coming(Min, n)') /\ (Coming(Max, n) => Coming(Max, n)')
  BY DEF Coming
<1>2. \A x : Observed(x) => \E n \in 1..Len(seen') : x = seen'[n]
  BY DEF Observed
<1> QED BY <1>1, <1>2 DEF Extremes, Observed

LEMMA ExtremesStep == TypeOK /\ Extremes /\ [Next]_vars => Extremes'
<1> SUFFICES ASSUME TypeOK, Extremes, [Next]_vars PROVE Extremes'
  OBVIOUS
<1>0. /\ Min \in Cells /\ Max \in Cells /\ Min \in Folded /\ Max \in Folded
      /\ None \notin Cells /\ \A n \in 1..Len(seen) : seen[n] \in Values /\ seen[n] \in Int
  <2>1. seen \in Seq(Values)
    BY DEF TypeOK
  <2>2. \A n \in 1..Len(seen) : seen[n] \in Values
    BY <2>1
  <2> QED BY <2>2, CellsApart, BoundsSeq DEF Cells, Folded
<1>1. CASE UNCHANGED vars
  BY <1>1, SameExtremes DEF vars, Extremes
<1>2. ASSUME NEW t \in Observers, NEW v \in Values, Observe(t, v) PROVE Extremes'
  <2>1. cell' = cell /\ cas' = cas /\ Min \in Touched(v) /\ Max \in Touched(v)
    BY <1>0, <1>2 DEF Observe, Touched
  <2>2. \A c, n : n \in 1..Len(seen) /\ Coming(c, n) =>
           \E u \in Observers : c \in todo'[u] /\ value'[u] = seen'[n]
    BY <1>2, NewSeen DEF Coming
  <2>3. \A c \in {Min, Max} : \E u \in Observers : c \in todo'[u] /\ value'[u] = seen'[Len(seen) + 1]
    BY <1>2, <2>1, NewSeen
  <2>4. \A x : Observed(x) => \E n \in 1..Len(seen') : x = seen'[n]
    BY <1>2, NewSeen DEF Observed
  <2>5. \A u \in Observers : todo'[u] # {} => \E n \in 1..Len(seen') : value'[u] = seen'[n]
    BY <1>2, <2>4, NewSeen DEF Extremes
  <2>6. \A u \in Observers : cas'[u] # None => cas'[u] \in todo'[u]
    BY <1>2, <2>1, NewSeen DEF Extremes
  <2>7. \A n \in 1..Len(seen') :
           /\ cell'[Min] <= seen'[n] \/ \E u \in Observers : Min \in todo'[u] /\ value'[u] = seen'[n]
           /\ cell'[Max] >= seen'[n] \/ \E u \in Observers : Max \in todo'[u] /\ value'[u] = seen'[n]
    BY <1>2, <2>1, <2>2, <2>3, NewSeen DEF Extremes
  <2>8. /\ cell'[Min] = Infinity \/ \E n \in 1..Len(seen') : cell'[Min] = seen'[n]
        /\ cell'[Max] = -Infinity \/ \E n \in 1..Len(seen') : cell'[Max] = seen'[n]
    BY <2>1, <2>4 DEF Extremes
  <2> QED BY <2>5, <2>6, <2>7, <2>8 DEF Extremes, Coming, Observed
<1>3. ASSUME NEW t \in Observers, NEW c \in Cells, Add(t, c) PROVE Extremes'
  <2>1. /\ \A d \in Cells : cell'[d] = IF d = c THEN cell[d] + 1 ELSE cell[d]
        /\ \A u \in Observers : todo'[u] = IF u = t THEN todo[u] \ {c} ELSE todo[u]
        /\ c \notin Folded /\ UNCHANGED <<seen, value, cas>>
    BY <1>3 DEF Add, TypeOK
  <2>2. \A u \in Observers : cas'[u] # None => cas'[u] \in todo[u] /\ cas'[u] \in Folded
    BY <2>1 DEF Extremes, TypeOK
  <2> QED BY <1>0, <2>1, <2>2, SameExtremes
<1>4. ASSUME NEW t \in Observers, NEW c \in Cells, LoadFolded(t, c) PROVE Extremes'
  <2>1. \A u \in Observers : cas'[u] # None => cas'[u] \in todo'[u]
    BY <1>4 DEF LoadFolded, Extremes, TypeOK
  <2> QED BY <1>4, <2>1, SameExtremes DEF LoadFolded
<1>5. ASSUME NEW t \in Observers, Exchange(t) PROVE Extremes'
  <2>1. /\ \A u \in Observers : todo'[u] = IF u = t THEN todo[u] \ {cas[t]} ELSE todo[u]
        /\ \A u \in Observers : cas'[u] = IF u = t THEN None ELSE cas[u]
        /\ UNCHANGED <<seen, value>> /\ cas[t] # None
    BY <1>5 DEF Exchange, TypeOK
  <2>2. /\ cell[Min] \in Int /\ cell[Max] \in Int /\ value[t] \in Int
        /\ cell'[Min] = IF cas[t] = Min THEN Smaller(cell[Min], value[t]) ELSE cell[Min]
        /\ cell'[Max] = IF cas[t] = Max THEN Larger(cell[Max], value[t]) ELSE cell[Max]
    BY <1>0, <1>5, ExchangeCells DEF TypeOK
  <2>3. Observed(value[t])
    BY <2>1 DEF Extremes
  <2>4. \A n \in 1..Len(seen) : cell'[Min] <= seen[n] \/ Coming(Min, n)'
    <3> SUFFICES ASSUME NEW n \in 1..Len(seen) PROVE cell'[Min] <= seen[n] \/ Coming(Min, n)'
      OBVIOUS
    <3>1. CASE cell[Min] <= seen[n]
      BY <1>0, <2>2, <3>1 DEF Smaller
    <3>2. CASE Coming(Min, n)
      <4>1. PICK u \in Observers : Min \in todo[u] /\ value[u] = seen[n]
        BY <3>2 DEF Coming
      <4>2. CASE u = t /\ cas[t] = Min
        BY <1>0, <2>2, <4>1, <4>2 DEF Smaller
      <4>3. CASE ~(u = t /\ cas[t] = Min)
        BY <2>1, <4>1, <4>3 DEF Coming
      <4> QED BY <4>2, <4>3
    <3> QED BY <3>1, <3>2 DEF Extremes
  <2>5. \A n \in 1..Len(seen) : cell'[Max] >= seen[n] \/ Coming(Max, n)'
    <3> SUFFICES ASSUME NEW n \in 1..Len(seen) PROVE cell'[Max] >= seen[n] \/ Coming(Max, n)'
      OBVIOUS
    <3>1. CASE cell[Max] >= seen[n]
      BY <1>0, <2>2, <3>1 DEF Larger
    <3>2. CASE Coming(Max, n)
      <4>1. PICK u \in Observers : Max \in todo[u] /\ value[u] = seen[n]
        BY <3>2 DEF Coming
      <4>2. CASE u = t /\ cas[t] = Max
        BY <1>0, <2>2, <4>1, <4>2 DEF Larger
      <4>3. CASE ~(u = t /\ cas[t] = Max)
        BY <2>1, <4>1, <4>3 DEF Coming
      <4> QED BY <4>2, <4>3
    <3> QED BY <3>1, <3>2 DEF Extremes
  <2>6. /\ cell'[Min] = Infinity \/ Observed(cell'[Min])
        /\ cell'[Max] = -Infinity \/ Observed(cell'[Max])
    BY <2>2, <2>3 DEF Extremes, Smaller, Larger
  <2>7. \A u \in Observers : todo'[u] # {} => Observed(value[u])
    BY <2>1 DEF Extremes
  <2>8. \A u \in Observers : cas'[u] # None => cas'[u] \in todo'[u]
    BY <2>1 DEF Extremes
  <2>9. \A x : Observed(x) => \E n \in 1..Len(seen') : x = seen'[n]
    BY <2>1 DEF Observed
  <2> QED BY <2>1, <2>4, <2>5, <2>6, <2>7, <2>8, <2>9 DEF Extremes, Observed
<1>6. ASSUME NEW t \in Observers, ExchangeFails(t) PROVE Extremes'
  BY <1>6, SameExtremes DEF ExchangeFails, Extremes
<1>7. CASE SampleBegins
  BY <1>7, SameExtremes DEF SampleBegins, observerVars, Extremes
<1>8. CASE Load
  BY <1>8, SameExtremes DEF Load, LeaveTotal, observerVars, Extremes
<1>9. CASE SampleEnds
  BY <1>9, SameExtremes DEF SampleEnds, observerVars, Extremes
<1> QED BY <1>1, <1>2, <1>3, <1>4, <1>5, <1>6, <1>7, <1>8, <1>9 DEF Next
-----------------------------------------------------------------------------
(* The sum *)

Adding == Pending(Sum)

\* at says which observation each thread has still to add: no two the same.
Owes(at) ==
    /\ at \in [Adding -> 1..Len(seen)]
    /\ \A t, u \in Adding : t # u => at[t] # at[u]
    /\ \A t \in Adding : seen[at[t]] = value[t]

\* so[n] is the sum of the first n observations without those.
SumsBut(at, so) ==
    /\ so \in [0..Len(seen) -> Int] /\ so[0] = 0
    /\ \A n \in 1..Len(seen) :
         so[n] = so[n - 1] + IF \E t \in Adding : at[t] = n THEN 0 ELSE seen[n]

Balance == \E at, so : Owes(at) /\ SumsBut(at, so) /\ cell[Sum] = so[Len(seen)]

LEMMA SeenTyped ==
    ASSUME TypeOK
    PROVE  /\ Len(seen) \in Nat
           /\ \A n \in 1..Len(seen) : seen[n] \in Values /\ seen[n] \in Int
<1>1. seen \in Seq(Values)
  BY DEF TypeOK
<1>2. Len(seen) \in Nat /\ \A n \in 1..Len(seen) : seen[n] \in Values
  BY <1>1, LenProperties
<1> QED BY <1>2, BoundsSeq

LEMMA SameBalance ==
    ASSUME Balance, UNCHANGED <<seen, value>>, cell'[Sum] = cell[Sum], Adding' = Adding
    PROVE  Balance'
<1>1. PICK at, so : Owes(at) /\ SumsBut(at, so) /\ cell[Sum] = so[Len(seen)]
  BY DEF Balance
<1>2. Owes(at)' /\ SumsBut(at, so)' /\ cell'[Sum] = so[Len(seen')]
  BY <1>1 DEF Owes, SumsBut
<1> QED BY <1>2 DEF Balance

LEMMA BalanceStep == TypeOK /\ Extremes /\ Balance /\ [Next]_vars => Balance'
<1> SUFFICES ASSUME TypeOK, Extremes, Balance, [Next]_vars PROVE Balance'
  OBVIOUS
<1>0. Sum \in Cells /\ Sum \in Folded
  BY DEF Cells, Folded
<1>1. CASE UNCHANGED vars
  BY <1>1, SameBalance DEF vars, Adding, Pending
<1>2. ASSUME NEW t \in Observers, NEW v \in Values, Observe(t, v) PROVE Balance'
  <2>1. PICK at, so : Owes(at) /\ SumsBut(at, so) /\ cell[Sum] = so[Len(seen)]
    BY DEF Balance
  <2> DEFINE k == Len(seen)
  <2>a. PICK at1 : at1 = [u \in Adding \cup {t} |-> IF u = t THEN k + 1 ELSE at[u]]
    OBVIOUS
  <2>b. PICK so1 : so1 = [n \in 0..(k + 1) |-> IF n = k + 1 THEN so[k] ELSE so[n]]
    OBVIOUS
  <2>2. Adding' = Adding \cup {t} /\ t \notin Adding /\ cell' = cell
    <3>1. Sum \in Touched(v) /\ cell' = cell
      BY <1>2 DEF Observe, Touched, Folded
    <3> QED BY <1>2, <3>1, NewSeen DEF Adding, Pending
  <2>3. Owes(at1)'
    <3>1. /\ at1 \in [Adding' -> 1..Len(seen')]
          /\ \A u, w \in Adding' : u # w => at1[u] # at1[w]
      BY <1>2, <2>1, <2>2, <2>a, NewSeen DEF Owes
    <3>2. \A u \in Adding' : seen'[at1[u]] = value'[u]
      BY <1>2, <2>1, <2>2, <2>a, NewSeen DEF Owes, Adding, Pending
    <3> QED BY <3>1, <3>2 DEF Owes
  <2>4. SumsBut(at1, so1)'
    <3>1. k \in Nat /\ Len(seen') = k + 1
      BY <1>2, NewSeen
    <3>2. so1 \in [0..Len(seen') -> Int] /\ so1[0] = 0
      BY <2>1, <2>b, <3>1 DEF SumsBut
    <3>3. ASSUME NEW n \in 1..Len(seen')
          PROVE  so1[n] = so1[n - 1] + IF \E u \in Adding' : at1[u] = n THEN 0 ELSE seen'[n]
      <4>1. CASE n = k + 1
        <5>1. at1[t] = n /\ t \in Adding'
          BY <2>2, <2>a, <4>1
        <5>2. so1[n] = so[k] /\ so1[n - 1] = so[k] /\ so[k] \in Int
          BY <2>1, <2>b, <3>1, <4>1 DEF SumsBut
        <5> QED BY <5>1, <5>2
      <4>2. CASE n # k + 1
        <5>1. n \in 1..k /\ so1[n] = so[n] /\ so1[n - 1] = so[n - 1] /\ seen'[n] = seen[n]
          BY <1>2, <2>b, <3>1, <4>2, NewSeen
        <5>2. (\E u \in Adding' : at1[u] = n) <=> \E u \in Adding : at[u] = n
          <6>1. \A u \in Adding' : at1[u] = IF u = t THEN k + 1 ELSE at[u]
            BY <2>2, <2>a
          <6>2. k + 1 # n
            BY <3>1, <5>1
          <6> QED BY <2>2, <6>1, <6>2
        <5> QED BY <2>1, <5>1, <5>2 DEF SumsBut
      <4> QED BY <4>1, <4>2
    <3> QED BY <3>2, <3>3 DEF SumsBut
  <2>5. cell'[Sum] = so1[Len(seen')]
    BY <1>2, <2>1, <2>2, <2>b, NewSeen
  <2> QED BY <2>3, <2>4, <2>5 DEF Balance
<1>3. ASSUME NEW t \in Observers, NEW c \in Cells, Add(t, c) PROVE Balance'
  <2>1. /\ \A d \in Cells : cell'[d] = IF d = c THEN cell[d] + 1 ELSE cell[d]
        /\ \A u \in Observers : todo'[u] = IF u = t THEN todo[u] \ {c} ELSE todo[u]
        /\ c \notin Folded /\ UNCHANGED <<seen, value>>
    BY <1>3 DEF Add, TypeOK
  <2>2. Adding' = Adding
    BY <1>0, <2>1 DEF Adding, Pending
  <2> QED BY <1>0, <2>1, <2>2, SameBalance
<1>4. ASSUME NEW t \in Observers, NEW c \in Cells, LoadFolded(t, c) PROVE Balance'
  BY <1>4, SameBalance DEF LoadFolded, Adding, Pending
<1>5. ASSUME NEW t \in Observers, Exchange(t), cas[t] # Sum PROVE Balance'
  <2>1. /\ \A u \in Observers : todo'[u] = IF u = t THEN todo[u] \ {cas[t]} ELSE todo[u]
        /\ UNCHANGED <<seen, value>>
    BY <1>5 DEF Exchange, TypeOK
  <2>2. cell'[Sum] = cell[Sum]
    BY <1>0, <1>5 DEF Exchange, TypeOK
  <2>3. Adding' = Adding
    BY <1>5, <2>1 DEF Adding, Pending
  <2> QED BY <2>1, <2>2, <2>3, SameBalance
<1>6. ASSUME NEW t \in Observers, Exchange(t), cas[t] = Sum PROVE Balance'
  <2>1. PICK at, so : Owes(at) /\ SumsBut(at, so) /\ cell[Sum] = so[Len(seen)]
    BY DEF Balance
  <2>2. /\ \A u \in Observers : todo'[u] = IF u = t THEN todo[u] \ {Sum} ELSE todo[u]
        /\ UNCHANGED <<seen, value>> /\ Sum \in todo[t]
    BY <1>6, CellsApart DEF Exchange, TypeOK, Extremes
  <2>3. cell'[Sum] = cell[Sum] + value[t] /\ value[t] \in Int /\ cell[Sum] \in Int
    <3>1. Fold(Sum, current[t], value[t]) = current[t] + value[t]
      BY CellsApart DEF Fold
    <3>2. cell'[Sum] = Fold(Sum, current[t], value[t]) /\ cell[Sum] = current[t]
      BY <1>0, <1>6 DEF Exchange, AsExpected, TypeOK
    <3> QED BY <1>0, <3>1, <3>2, BoundsSeq DEF TypeOK
  <2>4. Adding' = Adding \ {t} /\ t \in Adding
    BY <2>2 DEF Adding, Pending
  <2> DEFINE k == Len(seen)
  <2>a. PICK at1 : at1 = [u \in Adding \ {t} |-> at[u]]
    OBVIOUS
  <2>b. PICK so1 : so1 = [n \in 0..k |-> IF n < at[t] THEN so[n] ELSE so[n] + value[t]]
    OBVIOUS
  <2>5. k \in Nat /\ at[t] \in 1..k /\ seen[at[t]] = value[t] /\ Len(seen') = k /\ k \in 0..k
    BY <2>1, <2>2, <2>4, SeenTyped DEF Owes
  <2>6. Owes(at1)'
    <3>1. /\ at1 \in [Adding' -> 1..Len(seen')]
          /\ \A u, w \in Adding' : u # w => at1[u] # at1[w]
          /\ \A u \in Adding' : seen'[at1[u]] = value'[u]
      BY <2>1, <2>2, <2>4, <2>a DEF Owes
    <3> QED BY <3>1 DEF Owes
  <2>7. SumsBut(at1, so1)'
    <3>1. so1 \in [0..Len(seen') -> Int] /\ so1[0] = 0
      BY <2>1, <2>3, <2>5, <2>b DEF SumsBut
    <3>2. ASSUME NEW n \in 1..Len(seen')
          PROVE  so1[n] = so1[n - 1] + IF \E u \in Adding' : at1[u] = n THEN 0 ELSE seen'[n]
      <4>1. /\ n \in 1..k /\ so[n] \in Int /\ so[n - 1] \in Int /\ seen'[n] = seen[n] /\ seen[n] \in Int
            /\ so[n] = so[n - 1] + IF \E u \in Adding : at[u] = n THEN 0 ELSE seen[n]
        <5>1. n \in 1..k /\ seen'[n] = seen[n] /\ seen[n] \in Int
          BY <2>2, <2>5, SeenTyped
        <5>2. n \in 0..k /\ n - 1 \in 0..k
          BY <2>5, <5>1
        <5> QED BY <2>1, <5>1, <5>2 DEF SumsBut
      <4>2. /\ so1[n] = IF n < at[t] THEN so[n] ELSE so[n] + value[t]
            /\ so1[n - 1] = IF n - 1 < at[t] THEN so[n - 1] ELSE so[n - 1] + value[t]
        BY <2>5, <2>b, <4>1
      <4>3. (\E u \in Adding' : at1[u] = n) <=> \E u \in Adding \ {t} : at[u] = n
        BY <2>4, <2>a
      <4>4. CASE n = at[t]
        <5>1. ~ \E u \in Adding \ {t} : at[u] = n
          BY <2>1, <2>4, <4>4 DEF Owes
        <5>2. \E u \in Adding : at[u] = n
          BY <2>4, <4>4
        <5>3. so[n] = so[n - 1] /\ seen[n] = value[t]
          BY <2>5, <4>1, <4>4, <5>2
        <5>4. so1[n] = so[n] + value[t] /\ so1[n - 1] = so[n - 1]
          BY <2>5, <4>2, <4>4
        <5> QED BY <4>1, <4>3, <5>1, <5>3, <5>4
      <4>5. CASE n # at[t]
        <5>1. (\E u \in Adding \ {t} : at[u] = n) <=> \E u \in Adding : at[u] = n
          BY <4>5
        <5>2. (n < at[t] <=> n - 1 < at[t])
          BY <2>5, <4>1, <4>5
        <5>3. CASE \E u \in Adding : at[u] = n
          <6>1. so[n] = so[n - 1] /\ so1[n] = so1[n - 1] /\ so1[n] \in Int
            BY <2>3, <4>1, <4>2, <5>2, <5>3
          <6> QED BY <4>3, <5>1, <5>3, <6>1
        <5>4. CASE ~ \E u \in Adding : at[u] = n
          <6>1. so[n] = so[n - 1] + seen[n]
            BY <4>1, <5>4
          <6>2. so1[n] = so1[n - 1] + seen[n]
            <7>1. CASE n < at[t]
              BY <4>1, <4>2, <5>2, <6>1, <7>1
            <7>2. CASE ~(n < at[t])
              <8>1. so1[n] = so[n] + value[t] /\ so1[n - 1] = so[n - 1] + value[t]
                BY <4>2, <5>2, <7>2
              <8> QED BY <2>3, <4>1, <6>1, <8>1
            <7> QED BY <7>1, <7>2
          <6> QED BY <4>1, <4>3, <5>1, <5>4, <6>2
        <5> QED BY <5>3, <5>4
      <4> QED BY <4>4, <4>5
    <3> QED BY <3>1, <3>2 DEF SumsBut
  <2>8. cell'[Sum] = so1[Len(seen')]
    BY <2>1, <2>3, <2>5, <2>b
  <2> QED BY <2>6, <2>7, <2>8 DEF Balance
<1>7. ASSUME NEW t \in Observers, ExchangeFails(t) PROVE Balance'
  BY <1>7, SameBalance DEF ExchangeFails, Adding, Pending
<1>8. CASE SampleBegins
  BY <1>8, SameBalance DEF SampleBegins, observerVars, Adding, Pending
<1>9. CASE Load
  BY <1>9, SameBalance DEF Load, LeaveTotal, observerVars, Adding, Pending
<1>10. CASE SampleEnds
  BY <1>10, SameBalance DEF SampleEnds, observerVars, Adding, Pending
<1> QED BY <1>1, <1>2, <1>3, <1>4, <1>5, <1>6, <1>7, <1>8, <1>9, <1>10 DEF Next

\* SumTo is what its recursive definition says.
LEMMA SumToDef ==
    ASSUME TypeOK
    PROVE  /\ SumTo \in [0..Len(seen) -> Int] /\ SumTo[0] = 0
           /\ \A n \in 1..Len(seen) : SumTo[n] = SumTo[n - 1] + seen[n]
<1> DEFINE k == Len(seen)
           step == [p \in Nat \X Int |-> IF p[1] + 1 \in 1..k THEN p[2] + seen[p[1] + 1] ELSE 0]
<1>1. k \in Nat /\ \A n \in 1..k : seen[n] \in Int
  BY SeenTyped
<1>2. step \in [Nat \X Int -> Int]
  BY <1>1
<1>3. PICK f \in [Nat -> Int] : f[0] = 0 /\ \A n \in Nat : f[n + 1] = step[<<n, f[n]>>]
  <2> HIDE DEF step
  <2>1. 0 \in Int
    OBVIOUS
  <2> QED BY <1>2, <2>1, IntegerRecursion
<1>4. ASSUME NEW n \in 1..k PROVE f[n] = f[n - 1] + seen[n]
  <2>1. n - 1 \in Nat /\ (n - 1) + 1 = n /\ f[n - 1] \in Int
    BY <1>1
  <2>2. f[n] = step[<<n - 1, f[n - 1]>>]
    <3> HIDE DEF step
    <3> QED BY <1>3, <2>1
  <2> QED BY <2>1, <2>2
<1> HIDE DEF step
<1> DEFINE g == [n \in 0..k |-> f[n]]
<1>5. g = [n \in 0..k |-> IF n = 0 THEN 0 ELSE g[n - 1] + seen[n]]
  BY <1>1, <1>3, <1>4
<1>6. SumTo = [n \in 0..k |-> IF n = 0 THEN 0 ELSE SumTo[n - 1] + seen[n]]
  <2> HIDE DEF g, k
  <2>1. \E h : h = [n \in 0..k |-> IF n = 0 THEN 0 ELSE h[n - 1] + seen[n]]
    BY <1>5
  <2> QED BY <2>1, Zenon DEF SumTo, k
<1> DEFINE T == {n \in Nat : n \in 0..k => SumTo[n] \in Int}
<1>7. SumTo[0] = 0 /\ \A n \in 1..k : SumTo[n] = SumTo[n - 1] + seen[n]
  <2> HIDE DEF k
  <2>1. 0 \in 0..k /\ \A n \in 1..k : n \in 0..k /\ n # 0
    BY <1>1
  <2>2. \A n \in 0..k : SumTo[n] = IF n = 0 THEN 0 ELSE SumTo[n - 1] + seen[n]
    BY <1>6, Zenon
  <2> QED BY <2>1, <2>2
<1>8. Nat \subseteq T
  <2>1. 0 \in T
    BY <1>7
  <2>2. ASSUME NEW n \in Nat, n \in T PROVE n + 1 \in T
    BY <1>1, <1>7, <2>2, SMTT(30), ZenonT(30)
  <2> HIDE DEF T
  <2> QED BY <2>1, <2>2, Induction
<1>9. \A n \in 0..k : SumTo[n] \in Int
  BY <1>8
<1>10. SumTo \in [0..k -> Int]
  BY <1>6, <1>9
<1> QED BY <1>7, <1>10

LEMMA SumExact ==
    ASSUME TypeOK, Balance, Active = {}
    PROVE  cell[Sum] = Exact(Sum)
<1>1. PICK at, so : Owes(at) /\ SumsBut(at, so) /\ cell[Sum] = so[Len(seen)]
  BY DEF Balance
<1>2. Adding = {}
  BY DEF Adding, Pending, Active
<1>3. Len(seen) \in Nat /\ \A n \in 1..Len(seen) : so[n] = so[n - 1] + seen[n]
  BY <1>1, <1>2, SeenTyped DEF SumsBut
<1> DEFINE T == {n \in Nat : n \in 0..Len(seen) => so[n] = SumTo[n]}
<1>4. Nat \subseteq T
  <2>1. 0 \in T
    BY <1>1, SumToDef DEF SumsBut
  <2>2. ASSUME NEW n \in Nat, n \in T PROVE n + 1 \in T
    BY <1>3, <2>2, SumToDef
  <2> HIDE DEF T
  <2> QED BY <2>1, <2>2, Induction
<1>5. so[Len(seen)] = SumTo[Len(seen)]
  BY <1>3, <1>4
<1>6. Exact(Sum) = SumTo[Len(seen)]
  BY CellsApart DEF Exact, Count, Sum
<1> QED BY <1>1, <1>5, <1>6
-----------------------------------------------------------------------------
(* When nobody observes *)

HistogramInv == TypeOK /\ Tally /\ Extremes /\ Balance

LEMMA Invariance == Spec => []HistogramInv
<1>1. Init => HistogramInv
  <2> SUFFICES ASSUME Init PROVE HistogramInv
    OBVIOUS
  <2>1. TypeOK
    BY TypeInit
  <2>2. Counted \subseteq Cells \ {Min, Max}
    BY CellsApart DEF Counted, Cells, Folded
  <2>3. /\ 1..Len(seen) = {} /\ (\A c : Pending(c) = {} /\ Fits(c) = {})
        /\ \A c \in Counted : cell[c] = 0
    BY <2>2, EmptyCells DEF Init, Pending, Fits
  <2>4. Tally
    <3>1. \A c : Cardinality(Pending(c)) = 0 /\ Cardinality(Fits(c)) = 0
      BY <2>3, FS_EmptySet
    <3> QED BY <2>3, <3>1 DEF Tally
  <2>5. Extremes
    BY <2>3, EmptyCells DEF Init, Extremes
  <2>6. Balance
    <3>1. Adding = {} /\ Len(seen) = 0 /\ cell[Sum] = 0
      BY CellsApart, EmptyCells DEF Init, Adding, Pending, Cells, Folded
    <3>2. PICK at, so : at = [t \in {} |-> 0] /\ so = [n \in {0} |-> 0]
      OBVIOUS
    <3>3. Owes(at) /\ SumsBut(at, so) /\ cell[Sum] = so[Len(seen)]
      BY <3>1, <3>2 DEF Owes, SumsBut
    <3> QED BY <3>3 DEF Balance
  <2> QED BY <2>1, <2>4, <2>5, <2>6 DEF HistogramInv
<1>2. HistogramInv /\ [Next]_vars => HistogramInv'
  BY TypeStep, TallyStep, ExtremesStep, BalanceStep DEF HistogramInv
<1> QED BY <1>1, <1>2, PTL DEF Spec

LEMMA CountsExact ==
    ASSUME HistogramInv, Active = {}, NEW c \in Counted
    PROVE  cell[c] = Exact(c)
<1>1. Pending(c) = {} /\ cell[c] \in Int
  BY DEF Pending, Active, HistogramInv, TypeOK, Counted, Cells
<1>2. cell[c] = Cardinality(Fits(c))
  BY <1>1, Finite, FS_EmptySet DEF HistogramInv, Tally
<1>3. /\ Len(seen) \in Nat /\ DOMAIN seen = 1..Len(seen)
      /\ Cardinality(1..Len(seen)) = Len(seen)
  <2>1. Len(seen) \in Nat /\ DOMAIN seen = 1..Len(seen)
    BY LenProperties DEF HistogramInv, TypeOK
  <2>2. 1 \in Int /\ Len(seen) \in Int /\ (1 > Len(seen) => Len(seen) = 0)
    BY <2>1
  <2>3. Cardinality(1..Len(seen)) = IF 1 > Len(seen) THEN 0 ELSE Len(seen) - 1 + 1
    BY <2>2, FS_Interval
  <2> QED BY <2>1, <2>2, <2>3
<1>4. CASE c = Count
  <2>1. Fits(c) = 1..Len(seen)
    BY <1>4 DEF Fits, Touched
  <2>2. c # Sum /\ c # Min /\ c # Max
    BY <1>4, CellsApart DEF Folded
  <2>3. Exact(c) = Len(seen)
    BY <1>4, <2>2 DEF Exact
  <2> QED BY <1>2, <1>3, <2>1, <2>3
<1>5. CASE c \in Buckets
  <2>1. c \notin {Count, Sum, Min, Max}
    BY <1>5, CellsApart DEF Folded
  <2>2. \A v : c \in Touched(v) <=> v <= Bounds[c[2]]
    BY <1>5, <2>1 DEF Touched, Folded
  <2>3. Fits(c) = {n \in DOMAIN seen : seen[n] <= Bounds[c[2]]}
    BY <1>3, <2>2 DEF Fits
  <2>4. Exact(c) = CountAtMost(Bounds[c[2]])
    BY <2>1 DEF Exact
  <2> QED BY <1>2, <2>3, <2>4 DEF CountAtMost, Positions
<1> QED BY <1>4, <1>5 DEF Counted

LEMMA ExtremesExact ==
    ASSUME HistogramInv, Active = {}
    PROVE  cell[Min] = Exact(Min) /\ cell[Max] = Exact(Max)
<1>1. /\ seen \in Seq(Values) /\ Len(seen) \in Nat /\ DOMAIN seen = 1..Len(seen)
      /\ \A t \in Observers : todo[t] = {}
  BY LenProperties DEF HistogramInv, TypeOK, Active
<1>2. /\ \A n \in DOMAIN seen : cell[Min] <= seen[n] /\ cell[Max] >= seen[n]
      /\ cell[Min] = Infinity \/ \E n \in DOMAIN seen : cell[Min] = seen[n]
      /\ cell[Max] = -Infinity \/ \E n \in DOMAIN seen : cell[Max] = seen[n]
  BY <1>1 DEF HistogramInv, Extremes, Coming, Observed
<1>3. /\ Exact(Min) = IF seen = <<>> THEN Infinity
                      ELSE CHOOSE v \in Values : (\E n \in Positions : seen[n] = v)
                                                  /\ \A n \in Positions : v <= seen[n]
      /\ Exact(Max) = IF seen = <<>> THEN -Infinity
                      ELSE CHOOSE v \in Values : (\E n \in Positions : seen[n] = v)
                                                  /\ \A n \in Positions : v >= seen[n]
  BY CellsApart DEF Exact, Folded
<1>4. CASE seen = <<>>
  BY <1>2, <1>3, <1>4
<1>5. CASE seen # <<>>
  <2>1. 1 \in DOMAIN seen
    BY <1>1, <1>5, EmptySeq
  <2>2. \A n \in DOMAIN seen : seen[n] \in Values /\ seen[n] \in Int /\ -Infinity < seen[n] /\ seen[n] < Infinity
    <3>1. \A n \in DOMAIN seen : seen[n] \in Values
      BY <1>1
    <3> QED BY <3>1, BoundsSeq
  <2>3. /\ \E n \in DOMAIN seen : cell[Min] = seen[n]
        /\ \E n \in DOMAIN seen : cell[Max] = seen[n]
    BY <1>2, <2>1, <2>2, BoundsSeq
  <2>4. cell[Min] \in Values /\ cell[Max] \in Values
    BY <2>2, <2>3
  <2>5. \A v \in Values : (\E n \in Positions : seen[n] = v) /\ (\A n \in Positions : v <= seen[n])
                            => v = cell[Min]
    BY <1>2, <2>2, <2>3 DEF Positions
  <2>6. \A v \in Values : (\E n \in Positions : seen[n] = v) /\ (\A n \in Positions : v >= seen[n])
                            => v = cell[Max]
    BY <1>2, <2>2, <2>3 DEF Positions
  <2>7. /\ (\E n \in Positions : seen[n] = cell[Min]) /\ (\A n \in Positions : cell[Min] <= seen[n])
        /\ (\E n \in Positions : seen[n] = cell[Max]) /\ (\A n \in Positions : cell[Max] >= seen[n])
    BY <1>2, <2>3 DEF Positions
  <2> QED BY <1>3, <1>5, <2>4, <2>5, <2>6, <2>7
<1> QED BY <1>4, <1>5

LEMMA QuietIsExact ==
    ASSUME HistogramInv, Active = {}
    PROVE  \A c \in Cells : cell[c] = Exact(c)
<1>1. \A c \in Cells : c \in Counted \/ c = Sum \/ c = Min \/ c = Max
  BY DEF Cells, Folded, Counted
<1> QED BY <1>1, CountsExact, ExtremesExact, SumExact DEF HistogramInv

\* Whatever the threads do to each other's cells: when no call is under way,
\* the count, the buckets, the sum, the least and the greatest value are
\* exactly those of the values observed.
THEOREM NothingLost == Spec => []ExactWhenQuiet
<1>1. HistogramInv => ExactWhenQuiet
  BY QuietIsExact DEF ExactWhenQuiet
<1> QED BY <1>1, Invariance, PTL
-----------------------------------------------------------------------------
(* Snapshots *)

\* What a snapshot that nobody disturbs has read is what the cells hold.
Undisturbed ==
    loaded >= 0 /\ quietly =>
        /\ Active = {}
        /\ \A i \in 1..loaded : snap[Loads[i]] = cell[Loads[i]]

LEMMA Appended ==
    ASSUME NEW S, NEW s \in Seq(S), NEW t \in Seq(S)
    PROVE  /\ Len(s \o t) = Len(s) + Len(t)
           /\ \A i \in 1..(Len(s) + Len(t)) :
                  (s \o t)[i] = IF i <= Len(s) THEN s[i] ELSE t[i - Len(s)]
OBVIOUS

LEMMA LoadsAll == \A c \in Cells : \E i \in 1..Len(Loads) : Loads[i] = c
<1> DEFINE b == [i \in DOMAIN Bounds |-> Bucket(i)]
           f == <<Count, Sum, Min, Max>>
<1>1. b \in Seq(Cells) /\ Len(b) = Len(Bounds) /\ \A i \in DOMAIN Bounds : b[i] = Bucket(i)
  <2>1. \A i \in 1..Len(Bounds) : Bucket(i) \in Cells
    BY BoundsSeq DEF Cells, Buckets
  <2>2. b \in [1..Len(Bounds) -> Cells] /\ Len(Bounds) \in Nat
    BY <2>1, BoundsSeq
  <2>3. b \in Seq(Cells) /\ DOMAIN b = 1..Len(Bounds)
    BY <2>2, SeqDef
  <2> QED BY <2>2, <2>3, LenProperties
<1>2. f \in Seq(Cells) /\ Len(f) = 4 /\ f[1] = Count /\ f[2] = Sum /\ f[3] = Min /\ f[4] = Max
  BY DEF Cells, Folded
<1> HIDE DEF b, f
<1>3. /\ Len(Loads) = 4 + Len(Bounds)
      /\ \A i \in 1..4 : Loads[i] = f[i]
      /\ \A i \in 1..Len(Bounds) : Loads[4 + i] = b[i]
  <2>1. Loads = f \o b
    BY DEF Loads, f, b
  <2>2. Len(f \o b) = Len(f) + Len(b)
    BY <1>1, <1>2, Appended
  <2>3. \A i \in 1..(Len(f) + Len(b)) : (f \o b)[i] = IF i <= Len(f) THEN f[i] ELSE b[i - Len(f)]
    BY <1>1, <1>2, Appended, Zenon
  <2>4. /\ \A i \in 1..4 : i \in 1..(4 + Len(Bounds)) /\ i <= 4
        /\ \A i \in 1..Len(Bounds) : 4 + i \in 1..(4 + Len(Bounds)) /\ ~(4 + i <= 4) /\ (4 + i) - 4 = i
    BY BoundsSeq
  <2> QED BY <1>1, <1>2, <2>1, <2>2, <2>3, <2>4
<1>4. ASSUME NEW c \in {Count} \cup Folded PROVE \E i \in 1..Len(Loads) : Loads[i] = c
  BY <1>2, <1>3, <1>4, BoundsSeq DEF Folded
<1>5. ASSUME NEW c \in Buckets PROVE \E i \in 1..Len(Loads) : Loads[i] = c
  <2>1. PICK i \in DOMAIN Bounds : c = Bucket(i)
    BY <1>5 DEF Buckets
  <2>2. i \in 1..Len(Bounds) /\ 4 + i \in 1..Len(Loads)
    BY <1>3, BoundsSeq
  <2> QED BY <1>1, <1>3, <2>1, <2>2
<1> QED BY <1>4, <1>5 DEF Cells

LEMMA UndisturbedStep == TypeOK /\ Extremes /\ Undisturbed /\ [Next]_vars => Undisturbed'
<1> SUFFICES ASSUME TypeOK, Extremes, Undisturbed, [Next]_vars PROVE Undisturbed'
  OBVIOUS
<1>1. CASE UNCHANGED vars
  BY <1>1 DEF vars, Undisturbed, Active
<1>2. ASSUME NEW t \in Observers, NEW v \in Values, Observe(t, v) PROVE Undisturbed'
  BY <1>2 DEF Observe, Undisturbed
<1>3. ASSUME NEW t \in Observers, todo[t] # {}, UNCHANGED <<samplerVars, quietly>> PROVE Undisturbed'
  <2>1. ~(loaded >= 0 /\ quietly)
    BY <1>3 DEF Undisturbed, Active
  <2> QED BY <1>3, <2>1 DEF samplerVars, Undisturbed
<1>4. ASSUME NEW t \in Observers, NEW c \in Cells, Add(t, c) \/ LoadFolded(t, c) PROVE Undisturbed'
  BY <1>3, <1>4 DEF Add, LoadFolded
<1>5. ASSUME NEW t \in Observers, Exchange(t) \/ ExchangeFails(t) PROVE Undisturbed'
  <2>1. todo[t] # {}
    BY <1>5 DEF Exchange, ExchangeFails, Extremes
  <2> QED BY <1>3, <1>5, <2>1 DEF Exchange, ExchangeFails
<1>6. CASE SampleBegins
  <2>1. loaded' = 0 /\ Active' = Active /\ (quietly' => Active = {})
    BY <1>6 DEF SampleBegins, observerVars, Active
  <2>2. 1..0 = {}
    OBVIOUS
  <2> QED BY <2>1, <2>2 DEF Undisturbed
<1>7. CASE Load
  <2>1. /\ loaded \in Nat /\ loaded' = loaded + 1 /\ cell' = cell /\ quietly' = quietly /\ Active' = Active
        /\ snap' = [snap EXCEPT ![Loads[loaded + 1]] = cell[Loads[loaded + 1]]]
    BY <1>7 DEF Load, LeaveTotal, observerVars, Active
  <2>2. \A i \in 1..(loaded + 1) : Loads[i] \in Cells
    <3>1. loaded + 1 <= Len(Loads) /\ Len(Loads) \in Nat
      BY <1>7, LoadsSeq DEF Load
    <3> QED BY <2>1, <3>1, LoadsSeq
  <2>3. ASSUME loaded' >= 0, quietly', NEW i \in 1..loaded' PROVE snap'[Loads[i]] = cell'[Loads[i]]
    <3>1. i \in 1..loaded \/ i = loaded + 1
      BY <2>1
    <3>2. loaded >= 0 /\ quietly
      BY <2>1, <2>3
    <3>3. \A c \in Cells : snap'[c] = IF c = Loads[loaded + 1] THEN cell[c] ELSE snap[c]
      BY <2>1 DEF TypeOK
    <3> QED BY <2>1, <2>2, <3>1, <3>2, <3>3 DEF Undisturbed
  <2> QED BY <2>1, <2>3 DEF Undisturbed
<1>8. CASE SampleEnds
  BY <1>8 DEF SampleEnds, Undisturbed
<1> QED BY <1>1, <1>2, <1>4, <1>5, <1>6, <1>7, <1>8 DEF Next

\* A snapshot that no call overlapped ships exactly the distribution of the
\* values observed.
THEOREM QuietSnapshots == Spec => []QuietSnapshotIsExact
<1>1. Init => Undisturbed
  BY DEF Init, Undisturbed
<1>2. HistogramInv /\ Undisturbed /\ [Next]_vars => Undisturbed'
  BY UndisturbedStep DEF HistogramInv
<1>3. HistogramInv /\ Undisturbed => QuietSnapshotIsExact
  <2> SUFFICES ASSUME HistogramInv, Undisturbed, loaded = Len(Loads), quietly, NEW c \in Cells
               PROVE  snap[c] = Exact(c)
    BY DEF QuietSnapshotIsExact
  <2>1. Active = {} /\ \A i \in 1..Len(Loads) : snap[Loads[i]] = cell[Loads[i]]
    BY LoadsSeq DEF Undisturbed
  <2> QED BY <2>1, LoadsAll, QuietIsExact
<1> QED BY <1>1, <1>2, <1>3, Invariance, PTL DEF Spec
=============================================================================
