---------------------------- MODULE EncodingProofs ----------------------------
(***************************************************************************)
(* Theorems about the encoders (modules FlatBuffer and Encoding), for      *)
(* chunks of any length, texts, labels and buckets of any length, and any  *)
(* fields absent.                                                          *)
(*                                                                         *)
(* A buffer only grows at its end, but for offsets that are patched later. *)
(* So what a writer promises is said of every buffer d that keeps what it  *)
(* wrote: Keeps(d, c, from), d has what c has from position `from` on.     *)
(*                                                                         *)
(*   Laid, Fits       what the seven layouts have in common: the vtable    *)
(*                    names the places where the body is pushed, each part *)
(*                    of the tail has a slot of its own in the body        *)
(*   HeadWritten      vtable and table are written as laid out             *)
(*   TableKept        what the parts of the tail patch and append leaves   *)
(*                    the fields where the vtable says: FieldAt finds them *)
(*   TextTable, AnyTable   a table and what its offsets lead to            *)
(*   VectorKept       the slots of a vector of tables lead to its tables   *)
(*   ...Written       an entry, a vector, the data and the batch are read  *)
(*                    back from any buffer that keeps them; each is an     *)
(*                    induction over the parts or elements                 *)
(*   Moved            the same bytes behind others: what is written behind *)
(*                    a multiple of four bytes is what is written alone,   *)
(*                    so that collecting entries is encoding them in place *)
(*                                                                         *)
(* Recursive functions are related to the runs of the writers: a run f is  *)
(* a function with f[0] the head and f[n] what the nth part makes of       *)
(* f[n - 1] (RunsBy, VectorRunsBy).                                        *)
(*                                                                         *)
(* The inductive invariant, IInv, says that the buffers are what the last  *)
(* call made of empty ones, and the theorems follow from it by what is     *)
(* shown of the encoders.                                                  *)
(***************************************************************************)
EXTENDS Encoding, InductionLemmas, SequenceTheorems, TLAPS

(* Sequences of cells *)

\* What a place of a buffer holds: the value of a number, or Rest behind it.
Cell == Nat \cup {Rest}

LEMMA Cells == Nat \subseteq Cell /\ Rest \in Cell /\ 0 \in Cell /\ Cell \subseteq Int
BY DEF Cell, Rest

\* Sequences given place by place.
LEMMA Mapped ==
    ASSUME NEW n \in Nat, NEW P, NEW f, f = [j \in 1..n |-> f[j]], \A j \in 1..n : f[j] \in P
    PROVE  f \in Seq(P) /\ Len(f) = n
BY SeqDef

LEMMA ZerosAre ==
    ASSUME NEW n \in Nat
    PROVE  Zeros(n) \in Seq(Cell) /\ Len(Zeros(n)) = n /\ \A i \in 1..n : Zeros(n)[i] = 0
BY Cells, Mapped DEF Zeros

LEMMA NumberIs ==
    ASSUME NEW n \in Nat, NEW v \in Cell
    PROVE  Number(n, v) \in Seq(Cell) /\ Len(Number(n, v)) = n /\ (n > 0 => Number(n, v)[1] = v)
<1>0. PICK f : f = Number(n, v)
  OBVIOUS
<1>1. f = [j \in 1..n |-> f[j]] /\ \A j \in 1..n : f[j] \in Cell
  BY <1>0, Cells DEF Number
<1>2. n > 0 => f[1] = v
  BY <1>0 DEF Number
<1> QED BY <1>0, <1>1, <1>2, Mapped

\* c is b and what was put behind it.
Continues(c, b) ==
    c \in Seq(Cell) /\ Len(b) <= Len(c) /\ \A i \in 1..Len(b) : c[i] = b[i]

\* d has what c has from a position on.
Keeps(d, c, from) ==
    d \in Seq(Cell) /\ Len(c) <= Len(d) /\ \A i \in (from + 1)..Len(c) : d[i] = c[i]

LEMMA Concatenated ==
    ASSUME NEW b \in Seq(Cell), NEW x \in Seq(Cell)
    PROVE  /\ Continues(b \o x, b) /\ Len(b \o x) = Len(b) + Len(x)
           /\ \A i \in 1..Len(x) : (b \o x)[Len(b) + i] = x[i]
<1>1. Len(b) \in Nat /\ Len(x) \in Nat
  BY LenProperties
<1>2. /\ b \o x \in Seq(Cell) /\ Len(b \o x) = Len(b) + Len(x)
      /\ \A i \in 1..(Len(b) + Len(x)) : (b \o x)[i] = IF i <= Len(b) THEN b[i] ELSE x[i - Len(b)]
  BY ConcatProperties
<1>3. ASSUME NEW i \in 1..Len(x) PROVE (b \o x)[Len(b) + i] = x[i]
  <2>1. Len(b) + i \in 1..(Len(b) + Len(x)) /\ ~(Len(b) + i <= Len(b)) /\ Len(b) + i - Len(b) = i
    BY <1>1
  <2> QED BY <1>2, <2>1
<1> QED BY <1>1, <1>2, <1>3 DEF Continues

LEMMA Put ==
    ASSUME NEW b \in Seq(Cell), NEW x \in Seq(Cell)
    PROVE  \E c \in Seq(Cell) :
             /\ c = b \o x /\ Continues(c, b) /\ Len(c) = Len(b) + Len(x)
             /\ \A i \in 1..Len(x) : c[Len(b) + i] = x[i]
BY Concatenated DEF Continues

LEMMA Continued ==
    /\ \A b \in Seq(Cell) : Continues(b, b)
    /\ \A b, c, d \in Seq(Cell) : Continues(c, b) /\ Continues(d, c) => Continues(d, b)
<1>1. \A b \in Seq(Cell) : Len(b) \in Nat
  BY LenProperties
<1> QED BY <1>1 DEF Continues

LEMMA Remainders ==
    ASSUME NEW n \in Nat
    PROVE  (-n) % 4 \in 0..3 /\ (n + ((-n) % 4)) % 4 = 0 /\ (n % 4 = 0 => (-n) % 4 = 0)
OBVIOUS

LEMMA Multiples == \A m, n \in Nat : m % 4 = 0 /\ n % 4 = 0 => (m + n) % 4 = 0
OBVIOUS

LEMMA BehindFour ==
    \A at, p, e \in Nat : p >= 4 /\ p < e => (p - 4) + 1 \in 1..(e - 4) /\ at + 4 + ((p - 4) + 1) = at + p + 1
OBVIOUS

LEMMA AlignedBehind ==
    ASSUME NEW b \in Seq(Cell)
    PROVE  /\ Align4(b) \in Seq(Cell) /\ Continues(Align4(b), b)
           /\ Len(Align4(b)) % 4 = 0 /\ Len(Align4(b)) = Len(b) + ((-Len(b)) % 4)
           /\ Len(b) % 4 = 0 => Align4(b) = b
<1>1. Len(b) \in Nat
  BY LenProperties
<1>a. PICK k : k = (-Len(b)) % 4
  OBVIOUS
<1>2. k \in Nat /\ (Len(b) + k) % 4 = 0 /\ (Len(b) % 4 = 0 => k = 0)
  BY <1>1, <1>a, Remainders
<1>3. Align4(b) = b \o Zeros(k)
  BY <1>a DEF Align4
<1>4. Continues(b \o Zeros(k), b) /\ Len(b \o Zeros(k)) = Len(b) + k
  <2>1. PICK z \in Seq(Cell) : z = Zeros(k) /\ Len(z) = k
    BY <1>2, ZerosAre
  <2>2. Continues(b \o z, b) /\ Len(b \o z) = Len(b) + Len(z)
    BY Concatenated
  <2> QED BY <2>1, <2>2
<1>5. k = 0 => b \o Zeros(k) = b
  <2>1. ASSUME k = 0 PROVE Zeros(k) = <<>>
    BY <1>2, <2>1, ZerosAre, EmptySeq
  <2> QED BY <2>1, ConcatEmptySeq
<1>6. Continues(Align4(b), b) /\ Align4(b) \in Seq(Cell) /\ Len(Align4(b)) = Len(b) + k
  BY <1>3, <1>4 DEF Continues
<1>7. Len(Align4(b)) % 4 = 0
  BY <1>2, <1>6
<1>8. Len(b) % 4 = 0 => Align4(b) = b
  BY <1>2, <1>3, <1>5
<1> QED BY <1>a, <1>6, <1>7, <1>8

\* Two runs that begin alike and go on alike are the same.
LEMMA SameTo ==
    ASSUME NEW m \in Nat, NEW f, NEW g, f[0] = g[0],
           \A n \in 1..m : f[n - 1] = g[n - 1] => f[n] = g[n]
    PROVE  \A n \in 0..m : f[n] = g[n]
<1> DEFINE E == {n \in 0..m : f[n] = g[n]}
<1>1. 0 \in E
  OBVIOUS
<1>2. ASSUME NEW n \in 0..(m - 1), n \in E PROVE n + 1 \in E
  <2>1. PICK k : k = n + 1
    OBVIOUS
  <2>2. k \in 1..m /\ k - 1 = n /\ k \in 0..m
    BY <2>1
  <2>3. f[k - 1] = g[k - 1]
    BY <1>2, <2>2
  <2>4. f[k] = g[k]
    BY <2>2, <2>3
  <2> QED BY <2>1, <2>2, <2>4
<1>3. 0..m \subseteq E
  <2> HIDE DEF E
  <2> QED BY <1>1, <1>2, InductionTo
<1> QED BY <1>3

\* The same, named so that it is easy to cite.
Alike(m, f, g) ==
    m \in Nat /\ f[0] = g[0] /\ \A n \in 1..m : f[n - 1] = g[n - 1] => f[n] = g[n]

LEMMA AlikeTo == \A m, f, g : Alike(m, f, g) => \A n \in 0..m : f[n] = g[n]
<1> SUFFICES ASSUME NEW m, NEW f, NEW g, Alike(m, f, g) PROVE \A n \in 0..m : f[n] = g[n]
  OBVIOUS
<1>1. m \in Nat /\ f[0] = g[0] /\ \A n \in 1..m : f[n - 1] = g[n - 1] => f[n] = g[n]
  BY DEF Alike
<1> QED BY <1>1, SameTo

\* Where each sequence is in the concatenation of all of them.
LEMMA FlatAt ==
    ASSUME NEW ss \in Seq(Seq(Cell)), ss # <<>>, NEW g \in [0..Len(ss) -> Nat], g[0] = 0,
           \A n \in 1..Len(ss) : g[n] = g[n - 1] + Len(ss[n])
    PROVE  /\ Flat(ss) \in Seq(Cell) /\ Len(Flat(ss)) = g[Len(ss)]
           /\ \A n \in 1..Len(ss) : \A j \in 1..Len(ss[n]) : Flat(ss)[g[n - 1] + j] = ss[n][j]
<1>1. PICK f \in [1..Len(ss) -> Seq(Cell)] :
        /\ f[1] = ss[1] /\ \A i \in 2..Len(ss) : f[i] = f[i - 1] \o ss[i]
        /\ Flat(ss) = f[Len(ss)]
  BY Flattened
<1>2. PICK m \in Nat : m = Len(ss)
  BY LenProperties
<1>3. m >= 1 /\ (\A n \in 1..m : ss[n] \in Seq(Cell) /\ Len(ss[n]) \in Nat) /\ \A n \in 0..m : g[n] \in Nat
  <2>1. m >= 1
    BY <1>2, EmptySeq
  <2>2. \A n \in 1..m : ss[n] \in Seq(Cell)
    BY <1>2, ElementOfSeq
  <2>3. \A n \in 1..m : Len(ss[n]) \in Nat
    BY <2>2, LenProperties
  <2> QED BY <1>2, <2>1, <2>2, <2>3
<1> DEFINE Good(i) == /\ Len(f[i]) = g[i] /\ \A n \in 1..i : g[n] <= g[i]
                      /\ \A n \in 1..i : \A j \in 1..Len(ss[n]) : f[i][g[n - 1] + j] = ss[n][j]
           E == {i \in 0..(m - 1) : Good(i + 1)}
<1>4. 0 \in E
  <2>1. g[1] = Len(ss[1]) /\ g[1 - 1] = 0 /\ f[1] = ss[1]
    BY <1>1, <1>2, <1>3
  <2>2. Good(1)
    BY <2>1, <1>3
  <2> QED BY <1>3, <2>2
<1>5. ASSUME NEW i \in 0..(m - 1 - 1), i \in E PROVE i + 1 \in E
  <2>1. PICK k \in 2..m : k = i + 2
    BY <1>3
  <2>2. k - 1 \in 1..m /\ i + 1 = k - 1 /\ (i + 1) + 1 = k /\ i + 1 \in 0..(m - 1) /\ k \in 1..m
    BY <2>1, <1>3
  <2>3. Good(k - 1)
    <3>1. Good(i + 1)
      BY <1>5
    <3> HIDE DEF Good
    <3> QED BY <2>2, <3>1
  <2>4. f[k] = f[k - 1] \o ss[k] /\ f[k - 1] \in Seq(Cell) /\ ss[k] \in Seq(Cell)
    BY <1>1, <1>2, <1>3, <2>2
  <2>5. g[k] = g[k - 1] + Len(ss[k]) /\ g[k] \in Nat /\ g[k - 1] \in Nat /\ Len(ss[k]) \in Nat
    BY <1>2, <1>3, <2>2
  <2>6. /\ Continues(f[k], f[k - 1]) /\ Len(f[k]) = Len(f[k - 1]) + Len(ss[k])
        /\ \A j \in 1..Len(ss[k]) : f[k][Len(f[k - 1]) + j] = ss[k][j]
    <3>1. PICK b \in Seq(Cell), x \in Seq(Cell) : b = f[k - 1] /\ x = ss[k] /\ f[k] = b \o x
      BY <2>4
    <3>2. /\ Continues(b \o x, b) /\ Len(b \o x) = Len(b) + Len(x)
          /\ \A j \in 1..Len(x) : (b \o x)[Len(b) + j] = x[j]
      BY Concatenated
    <3> QED BY <3>1, <3>2
  <2>7. Len(f[k]) = g[k] /\ \A n \in 1..k : g[n] <= g[k]
    <3>1. Len(f[k]) = g[k]
      BY <2>3, <2>5, <2>6
    <3>2. ASSUME NEW n \in 1..k PROVE g[n] <= g[k]
      <4>1. CASE n = k
        BY <4>1, <2>5
      <4>2. CASE n # k
        <5>1. n \in 1..(k - 1) /\ g[n] <= g[k - 1] /\ n \in 0..m
          BY <4>2, <2>1, <2>3
        <5>2. g[n] \in Nat
          BY <5>1, <1>3
        <5> QED BY <5>1, <5>2, <2>5, SMTT(30), ZenonT(30)
      <4> QED BY <4>1, <4>2
    <3> QED BY <3>1, <3>2
  <2>8. ASSUME NEW n \in 1..k, NEW j \in 1..Len(ss[n]) PROVE f[k][g[n - 1] + j] = ss[n][j]
    <3>1. CASE n = k
      BY <3>1, <2>3, <2>6
    <3>2. CASE n # k
      <4>1. n \in 1..(k - 1) /\ f[k - 1][g[n - 1] + j] = ss[n][j] /\ n \in 1..m /\ n - 1 \in 0..m
        BY <3>2, <2>1, <2>3
      <4>2. g[n] = g[n - 1] + Len(ss[n]) /\ g[n] <= g[k - 1] /\ g[n - 1] \in Nat /\ Len(ss[n]) \in Nat
        BY <4>1, <1>2, <1>3, <2>3
      <4>3. g[n - 1] + j \in 1..Len(f[k - 1])
        <5>1. Len(f[k - 1]) = g[k - 1] /\ g[k - 1] \in Nat /\ j \in Nat /\ 1 <= j /\ j <= Len(ss[n])
          BY <2>3, <2>5, <4>2
        <5>2. PICK a \in Nat, l \in Nat, e \in Nat : a = g[n - 1] /\ l = Len(ss[n]) /\ e = g[k - 1]
          BY <4>2, <5>1
        <5>3. j <= l /\ a + l <= e
          BY <4>2, <5>1, <5>2
        <5>4. a + j \in 1..e
          BY <5>1, <5>3
        <5> QED BY <5>1, <5>2, <5>4
      <4> QED BY <4>1, <4>3, <2>6 DEF Continues
    <3> QED BY <3>1, <3>2
  <2>9. Good(k)
    BY <2>7, <2>8
  <2> HIDE DEF Good
  <2> QED BY <2>2, <2>9
<1>6. 0..(m - 1) \subseteq E
  <2>1. m - 1 \in Nat
    BY <1>3
  <2> HIDE DEF E
  <2> QED BY <1>4, <1>5, <2>1, InductionTo
<1>7. Good(m)
  <2>1. m - 1 \in 0..(m - 1) /\ (m - 1) + 1 = m
    BY <1>3
  <2>2. Good((m - 1) + 1)
    BY <1>6, <2>1
  <2> HIDE DEF Good
  <2> QED BY <2>1, <2>2
<1>8. f[m] \in Seq(Cell) /\ Flat(ss) = f[m]
  BY <1>1, <1>2, <1>3
<1> QED BY <1>2, <1>7, <1>8

LEMMA FlattenIsFlat == \A ss : FlattenSeq(ss) = Flat(ss)
BY DEF FlattenSeq, Flat
-----------------------------------------------------------------------------
(* What the seven layouts have in common *)

\* What fields and the parts of bodies and tails are called.
Names == {"event_type", "timestamp", "service", "device_id", "session_id", "event_name", "payload",
          "level", "source", "metric_type", "name", "value", "labels", "temporality", "histogram",
          "int_labels", "key", "count", "sum", "buckets", "min", "max", "upper_bound", "api_key",
          "schema_type", "version", "batch_id", "data", "source_ip", "pad"}
Types == {"bytes", "string", "labels", "histogram", "buckets"}

\* The parts of a table's body are at `places`; the vtable gives those of the
\* fields, and every field of the tail has a slot among them.
Laid(layout, places) ==
    /\ layout.fields \in Seq(Names) /\ layout.fields # <<>>
    /\ \A i, j \in 1..Len(layout.fields) : layout.fields[i] = layout.fields[j] => i = j
    /\ layout.size \in Nat
    /\ \/ layout.pad = ToAlign
       \/ layout.pad \in Nat /\ (4 + 2 * Len(layout.fields) + layout.pad) % 4 = 0
    /\ layout.body \in Seq(Names \X (Nat \ {0})) /\ layout.body # <<>>
    /\ \A m, n \in 1..Len(layout.body) : layout.body[m][1] = layout.body[n][1] => m = n
    /\ places \in [1..(Len(layout.body) + 1) -> Nat] /\ places[1] = 4
    /\ \A n \in 1..Len(layout.body) : places[n + 1] = places[n] + layout.body[n][2]
    /\ \A name \in DOMAIN layout.at :
         \E n \in 1..Len(layout.body) : layout.body[n][1] = name /\ layout.at[name] = places[n]
    /\ layout.tail \in Seq((DOMAIN layout.at) \X Types)
    /\ \A m, n \in 1..Len(layout.tail) : layout.tail[m][1] = layout.tail[n][1] => m = n

\* Scalars are cells, and what the vtable has no place for is absent.
Fits(params, layout) ==
    /\ \A i \in 1..Len(layout.fields) :
         params[layout.fields[i]] # Absent => layout.fields[i] \in DOMAIN layout.at
    /\ \A name \in DOMAIN params \ TailFields(layout) :
         params[name] # Absent => The(params[name]) \in Cell

Slot(layout, params, i) ==
    IF params[layout.fields[i]] = Absent THEN 0 ELSE layout.at[layout.fields[i]]

LEMMA Two ==
    ASSUME NEW v \in Cell
    PROVE  Number(2, v) \in Seq(Cell) /\ Len(Number(2, v)) = 2 /\ Number(2, v)[1] = v
<1>1. PICK n \in Nat : n = 2 /\ n > 0
  OBVIOUS
<1>2. Number(n, v) \in Seq(Cell) /\ Len(Number(n, v)) = n /\ Number(n, v)[1] = v
  BY <1>1, NumberIs
<1> QED BY <1>1, <1>2

LEMMA Four ==
    ASSUME NEW v \in Cell
    PROVE  Number(4, v) \in Seq(Cell) /\ Len(Number(4, v)) = 4 /\ Number(4, v)[1] = v
<1>1. PICK n \in Nat : n = 4 /\ n > 0
  OBVIOUS
<1>2. Number(n, v) \in Seq(Cell) /\ Len(Number(n, v)) = n /\ Number(n, v)[1] = v
  BY <1>1, NumberIs
<1> QED BY <1>1, <1>2

LEMMA PlacesOrdered ==
    ASSUME NEW layout, NEW places, Laid(layout, places)
    PROVE  /\ Len(layout.body) \in Nat /\ Len(layout.body) >= 1
           /\ \A n \in 1..(Len(layout.body) + 1) : places[n] \in Nat /\ places[n] >= 4
           /\ \A m, n \in 1..(Len(layout.body) + 1) : m < n => places[m] < places[n]
<1>1. PICK k \in Nat : k = Len(layout.body) /\ k >= 1
  BY EmptySeq, LenProperties DEF Laid
<1>2. places \in [1..(k + 1) -> Nat] /\ places[1] = 4
  BY <1>1 DEF Laid
<1>3. \A n \in 1..k : places[n] < places[n + 1]
  <2> SUFFICES ASSUME NEW n \in 1..k PROVE places[n] < places[n + 1]
    OBVIOUS
  <2>1. layout.body[n] \in Names \X (Nat \ {0})
    BY <1>1, ElementOfSeq DEF Laid
  <2>2. PICK w \in Nat \ {0} : w = layout.body[n][2]
    BY <2>1
  <2>3. places[n + 1] = places[n] + w
    BY <1>1, <2>2 DEF Laid
  <2>4. places[n] \in Nat
    BY <1>2
  <2> QED BY <2>3, <2>4
<1> DEFINE E == {n \in 0..k : places[n + 1] >= 4 /\ \A m \in 1..n : places[m] < places[n + 1]}
<1>4. 0 \in E
  BY <1>2
<1>5. ASSUME NEW n \in 0..(k - 1), n \in E PROVE n + 1 \in E
  <2>1. PICK j \in 1..k : j = n + 1
    OBVIOUS
  <2>2. places[j] >= 4 /\ (\A m \in 1..(j - 1) : places[m] < places[j]) /\ places[j] < places[j + 1]
    BY <1>3, <1>5, <2>1
  <2>3. places[j] \in Nat /\ places[j + 1] \in Nat /\ \A m \in 1..j : places[m] \in Nat
    BY <1>2
  <2>4. ASSUME NEW m \in 1..j PROVE places[m] < places[j + 1]
    <3>1. m = j \/ m \in 1..(j - 1)
      OBVIOUS
    <3>2. places[m] \in Nat /\ (places[m] = places[j] \/ places[m] < places[j])
      BY <2>2, <2>3, <3>1
    <3> QED BY <2>2, <2>3, <3>2
  <2>5. j \in E
    BY <2>2, <2>3, <2>4
  <2> QED BY <2>1, <2>5
<1>6. 0..k \subseteq E
  <2> HIDE DEF E
  <2> QED BY <1>4, <1>5, InductionTo
<1>7. ASSUME NEW n \in 1..(k + 1) PROVE places[n] >= 4 /\ \A m \in 1..(k + 1) : m < n => places[m] < places[n]
  <2>1. PICK j \in 0..k : n = j + 1
    <3>1. n - 1 \in 0..k /\ n = (n - 1) + 1
      BY <1>1
    <3> QED BY <3>1
  <2>2. j \in E
    BY <1>6
  <2>3. \A m \in 1..(k + 1) : m < n => m \in 1..j
    BY <2>1
  <2> QED BY <2>1, <2>2, <2>3
<1> QED BY <1>1, <1>2, <1>7

LEMMA VTableWritten ==
    ASSUME NEW layout, NEW places, NEW params, Laid(layout, places), Fits(params, layout)
    PROVE  /\ VTable(layout, params) \in Seq(Cell)
           /\ Len(VTable(layout, params)) = 4 + 2 * Len(layout.fields)
           /\ \A i \in 1..Len(layout.fields) :
                VTable(layout, params)[4 + 2 * (i - 1) + 1] = Slot(layout, params, i)
<1>1. PICK k \in Nat : k = Len(layout.fields) /\ k >= 1
  BY EmptySeq, LenProperties DEF Laid
<1>2. \A i \in 1..k : Slot(layout, params, i) \in Cell
  <2> SUFFICES ASSUME NEW i \in 1..k, params[layout.fields[i]] # Absent
               PROVE  layout.at[layout.fields[i]] \in Cell
    BY Cells DEF Slot
  <2>1. layout.fields[i] \in DOMAIN layout.at
    BY <1>1 DEF Fits
  <2>2. PICK n \in 1..Len(layout.body) : layout.at[layout.fields[i]] = places[n]
    BY <2>1 DEF Laid
  <2>3. n \in 1..(Len(layout.body) + 1)
    BY PlacesOrdered
  <2> QED BY <2>2, <2>3, Cells, PlacesOrdered
<1>3. PICK ss : ss = [i \in 1..k |-> Number(2, Slot(layout, params, i))]
  OBVIOUS
<1>4. \A i \in 1..k : ss[i] \in Seq(Cell) /\ Len(ss[i]) = 2 /\ ss[i][1] = Slot(layout, params, i)
  BY <1>2, <1>3, Two
<1>5. ss \in Seq(Seq(Cell)) /\ Len(ss) = k /\ ss # <<>>
  <2>1. ss = [i \in 1..k |-> ss[i]]
    BY <1>3
  <2>2. ss \in Seq(Seq(Cell)) /\ Len(ss) = k
    BY <1>4, <2>1, Mapped
  <2> QED BY <1>1, <2>2, EmptySeq
<1>6. PICK g \in [0..k -> Nat] : \A n \in 0..k : g[n] = 2 * n
  <2> DEFINE g == [n \in 0..k |-> 2 * n]
  <2>1. g \in [0..k -> Nat] /\ \A n \in 0..k : g[n] = 2 * n
    OBVIOUS
  <2> HIDE DEF g
  <2> QED BY <2>1
<1>7. /\ Flat(ss) \in Seq(Cell) /\ Len(Flat(ss)) = 2 * k
      /\ \A n \in 1..k : Flat(ss)[2 * (n - 1) + 1] = Slot(layout, params, n)
  <2>1. g[0] = 0 /\ g[k] = 2 * k /\ \A n \in 1..k : g[n] = g[n - 1] + Len(ss[n]) /\ g[n - 1] = 2 * (n - 1)
    <3>1. \A n \in 1..k : n \in 0..k /\ n - 1 \in 0..k /\ 2 * n = 2 * (n - 1) + 2
      OBVIOUS
    <3>2. 0 \in 0..k /\ k \in 0..k /\ 2 * 0 = 0
      OBVIOUS
    <3>3. g[0] = 0 /\ g[k] = 2 * k
      BY <1>6, <3>2
    <3>4. ASSUME NEW n \in 1..k PROVE g[n] = g[n - 1] + Len(ss[n]) /\ g[n - 1] = 2 * (n - 1)
      BY <1>4, <1>6, <3>1
    <3> QED BY <3>3, <3>4
  <2>2. /\ Flat(ss) \in Seq(Cell) /\ Len(Flat(ss)) = g[k]
        /\ \A n \in 1..k : \A j \in 1..Len(ss[n]) : Flat(ss)[g[n - 1] + j] = ss[n][j]
    BY <1>5, <2>1, FlatAt
  <2>3. \A n \in 1..k : Flat(ss)[g[n - 1] + 1] = ss[n][1]
    BY <1>4, <2>2
  <2> QED BY <1>4, <2>1, <2>2, <2>3
<1>8. PICK x, y, z : /\ x = Number(2, 4 + 2 * k) /\ y = Number(2, layout.size) /\ z = Flat(ss)
                     /\ VTable(layout, params) = (x \o y) \o z
  <2>1. FlattenSeq([i \in 1..Len(layout.fields) |->
           Number(2, IF params[layout.fields[i]] = Absent THEN 0 ELSE layout.at[layout.fields[i]])]) = Flat(ss)
    BY <1>1, <1>3, FlattenIsFlat DEF Slot
  <2>2. VTable(layout, params) = (Number(2, 4 + 2 * k) \o Number(2, layout.size)) \o Flat(ss)
    BY <1>1, <2>1 DEF VTable
  <2> QED BY <2>2
<1>9. x \in Seq(Cell) /\ Len(x) = 2 /\ y \in Seq(Cell) /\ Len(y) = 2
  <2>1. 4 + 2 * k \in Cell /\ layout.size \in Cell
    BY Cells DEF Laid
  <2> QED BY <1>8, <2>1, Two
<1>10. x \o y \in Seq(Cell) /\ Len(x \o y) = 4
  BY <1>9, Concatenated, SMTT(30), ZenonT(30) DEF Continues
<1>11. PICK xy \in Seq(Cell) : xy = x \o y /\ Len(xy) = 4 /\ z \in Seq(Cell) /\ Len(z) = 2 * k
  BY <1>7, <1>8, <1>10
<1>12. /\ xy \o z \in Seq(Cell) /\ Len(xy \o z) = 4 + 2 * k
       /\ \A j \in 1..(2 * k) : (xy \o z)[4 + j] = z[j]
  BY <1>11, Concatenated, SMTT(30), ZenonT(30) DEF Continues
<1>13. \A n \in 1..k : (xy \o z)[4 + 2 * (n - 1) + 1] = Slot(layout, params, n)
  <2> SUFFICES ASSUME NEW n \in 1..k PROVE (xy \o z)[4 + 2 * (n - 1) + 1] = Slot(layout, params, n)
    OBVIOUS
  <2>1. PICK j \in 1..(2 * k) : j = 2 * (n - 1) + 1 /\ 4 + j = 4 + 2 * (n - 1) + 1
    OBVIOUS
  <2>2. (xy \o z)[4 + j] = z[j]
    BY <1>12
  <2> QED BY <1>7, <1>8, <2>1, <2>2
<1> QED BY <1>1, <1>8, <1>11, <1>12, <1>13

\* What a table has of its own, not behind an offset.
IsScalar(layout, params, name) ==
    name \in DOMAIN params \ TailFields(layout) /\ params[name] # Absent

LEMMA BodyWritten ==
    ASSUME NEW layout, NEW places, NEW params, Laid(layout, places), Fits(params, layout)
    PROVE  /\ Body(layout, params) \in Seq(Cell)
           /\ Len(Body(layout, params)) = places[Len(layout.body) + 1] - 4
           /\ \A n \in 1..Len(layout.body) :
                IsScalar(layout, params, layout.body[n][1]) =>
                    Body(layout, params)[(places[n] - 4) + 1] = The(params[layout.body[n][1]])
<1>1. PICK k \in Nat : k = Len(layout.body) /\ k >= 1
  BY PlacesOrdered
<1>2. /\ \A n \in 1..(k + 1) : places[n] \in Nat /\ places[n] >= 4
      /\ places[1] = 4 /\ \A n \in 1..k : places[n + 1] = places[n] + layout.body[n][2]
  BY <1>1, PlacesOrdered DEF Laid
<1>3. \A n \in 1..k : layout.body[n][2] \in Nat /\ layout.body[n][2] > 0
  <2> SUFFICES ASSUME NEW n \in 1..k PROVE layout.body[n][2] \in Nat /\ layout.body[n][2] > 0
    OBVIOUS
  <2>1. layout.body[n] \in Names \X (Nat \ {0})
    BY <1>1, ElementOfSeq DEF Laid
  <2> QED BY <2>1
<1>4. PICK ss : ss = [n \in 1..k |->
                        IF IsScalar(layout, params, layout.body[n][1])
                        THEN Number(layout.body[n][2], The(params[layout.body[n][1]]))
                        ELSE Zeros(layout.body[n][2])]
  OBVIOUS
<1>5. ASSUME NEW n \in 1..k
      PROVE  /\ ss[n] \in Seq(Cell) /\ Len(ss[n]) = layout.body[n][2]
             /\ IsScalar(layout, params, layout.body[n][1]) => ss[n][1] = The(params[layout.body[n][1]])
  <2>1. PICK w \in Nat : w = layout.body[n][2] /\ w > 0
    BY <1>3
  <2>2. CASE IsScalar(layout, params, layout.body[n][1])
    <3>1. PICK v \in Cell : v = The(params[layout.body[n][1]])
      BY <2>2 DEF IsScalar, Fits
    <3>2. ss[n] = Number(w, v)
      BY <1>4, <2>1, <2>2, <3>1
    <3>3. Number(w, v) \in Seq(Cell) /\ Len(Number(w, v)) = w /\ Number(w, v)[1] = v
      BY <2>1, NumberIs
    <3> QED BY <2>1, <3>1, <3>2, <3>3
  <2>3. CASE ~IsScalar(layout, params, layout.body[n][1])
    <3>1. ss[n] = Zeros(w)
      BY <1>4, <2>1, <2>3
    <3> QED BY <2>1, <2>3, <3>1, ZerosAre
  <2> QED BY <2>2, <2>3
<1>6. ss \in Seq(Seq(Cell)) /\ Len(ss) = k /\ ss # <<>>
  <2>1. ss = [i \in 1..k |-> ss[i]]
    BY <1>4
  <2>2. ss \in Seq(Seq(Cell)) /\ Len(ss) = k
    BY <1>5, <2>1, Mapped
  <2> QED BY <1>1, <2>2, EmptySeq
<1>7. PICK g \in [0..k -> Nat] : \A n \in 0..k : g[n] = places[n + 1] - 4
  <2> DEFINE g == [n \in 0..k |-> places[n + 1] - 4]
  <2>1. ASSUME NEW n \in 0..k PROVE places[n + 1] - 4 \in Nat
    <3>1. PICK j \in 1..(k + 1) : j = n + 1
      OBVIOUS
    <3> QED BY <1>2, <3>1
  <2>2. g \in [0..k -> Nat] /\ \A n \in 0..k : g[n] = places[n + 1] - 4
    BY <2>1
  <2> HIDE DEF g
  <2> QED BY <2>2
<1>8. /\ Flat(ss) \in Seq(Cell) /\ Len(Flat(ss)) = places[k + 1] - 4
      /\ \A n \in 1..k : Flat(ss)[(places[n] - 4) + 1] = ss[n][1]
  <2>1. g[0] = 0 /\ g[k] = places[k + 1] - 4
    <3>1. 0 \in 0..k /\ k \in 0..k /\ 0 + 1 = 1
      OBVIOUS
    <3> QED BY <1>2, <1>7, <3>1
  <2>2. ASSUME NEW n \in 1..k PROVE g[n] = g[n - 1] + Len(ss[n]) /\ g[n - 1] = places[n] - 4
    <3>1. n \in 0..k /\ n - 1 \in 0..k /\ (n - 1) + 1 = n /\ n \in 1..(k + 1)
      OBVIOUS
    <3>2. g[n] = places[n + 1] - 4 /\ g[n - 1] = places[n] - 4
      BY <1>7, <3>1
    <3>3. places[n + 1] = places[n] + Len(ss[n]) /\ Len(ss[n]) \in Nat /\ places[n] \in Nat
      BY <1>2, <1>3, <1>5, <3>1
    <3> QED BY <3>2, <3>3
  <2>3. /\ Flat(ss) \in Seq(Cell) /\ Len(Flat(ss)) = g[k]
        /\ \A n \in 1..k : \A j \in 1..Len(ss[n]) : Flat(ss)[g[n - 1] + j] = ss[n][j]
    BY <1>6, <2>1, <2>2, FlatAt
  <2>4. ASSUME NEW n \in 1..k PROVE 1 \in 1..Len(ss[n])
    <3>1. PICK w \in Nat : w = Len(ss[n]) /\ w > 0
      BY <1>3, <1>5
    <3> QED BY <3>1
  <2> QED BY <2>1, <2>2, <2>3, <2>4
<1>9. Body(layout, params) = Flat(ss)
  BY <1>1, <1>4, FlattenIsFlat, Zenon DEF Body, IsScalar
<1> QED BY <1>1, <1>5, <1>8, <1>9

\* The slots are where the vtable says.
LEMMA PlaceIs ==
    ASSUME NEW layout, NEW places, Laid(layout, places), NEW name \in DOMAIN layout.at
    PROVE  PlaceOf(layout, name) = layout.at[name]
<1>1. PICK k \in Nat : k = Len(layout.body) /\ k >= 1
  BY PlacesOrdered
<1>2. places \in [1..(k + 1) -> Nat] /\ places[1] = 4 /\ \A n \in 1..k : places[n + 1] = places[n] + layout.body[n][2]
  BY <1>1 DEF Laid
<1> DEFINE behind[n \in 0..k] == IF n = 0 THEN 4 ELSE behind[n - 1] + layout.body[n][2]
<1>3. PlaceOf(layout, name) = behind[(CHOOSE n \in 1..k : layout.body[n][1] = name) - 1]
  BY <1>1, Zenon DEF PlaceOf, behind
<1>4. PICK f : f = [n \in 0..k |-> places[n + 1]]
  OBVIOUS
<1>5. f = [n \in 0..k |-> IF n = 0 THEN 4 ELSE f[n - 1] + layout.body[n][2]]
  <2>1. ASSUME NEW n \in 0..k PROVE places[n + 1] = IF n = 0 THEN 4 ELSE f[n - 1] + layout.body[n][2]
    <3>1. CASE n = 0
      BY <1>2, <3>1
    <3>2. CASE n # 0
      <4>1. n \in 1..k /\ n - 1 \in 0..k /\ (n - 1) + 1 = n
        BY <3>2
      <4> QED BY <1>2, <1>4, <3>2, <4>1
    <3> QED BY <3>1, <3>2
  <2> QED BY <1>4, <2>1, Zenon
<1>6. behind = [n \in 0..k |-> IF n = 0 THEN 4 ELSE behind[n - 1] + layout.body[n][2]]
  BY <1>5, Zenon DEF behind
<1> HIDE DEF behind
<1>7. \A n \in 0..k : behind[n] = f[n]
  <2>1. \A n \in 0..k : behind[n] = IF n = 0 THEN 4 ELSE behind[n - 1] + layout.body[n][2]
    BY <1>6, Zenon
  <2>2. \A n \in 0..k : f[n] = IF n = 0 THEN 4 ELSE f[n - 1] + layout.body[n][2]
    BY <1>5, Zenon
  <2>3. 0 \in 0..k /\ \A n \in 1..k : n \in 0..k /\ n # 0
    OBVIOUS
  <2>4. behind[0] = f[0]
    BY <2>1, <2>2, <2>3
  <2>5. \A n \in 1..k : behind[n - 1] = f[n - 1] => behind[n] = f[n]
    BY <2>1, <2>2, <2>3, Zenon
  <2> QED BY <2>4, <2>5, SameTo
<1>8. PICK n \in 1..k : layout.body[n][1] = name /\ layout.at[name] = places[n]
  BY <1>1 DEF Laid
<1>9. \A m \in 1..k : layout.body[m][1] = name => m = n
  BY <1>1, <1>8 DEF Laid
<1>10. (CHOOSE m \in 1..k : layout.body[m][1] = name) = n
  BY <1>8, <1>9
<1>11. n - 1 \in 0..k /\ (n - 1) + 1 = n
  OBVIOUS
<1> QED BY <1>3, <1>4, <1>7, <1>8, <1>10, <1>11

\* A table begins at a multiple of four: its vtable does, or aligns its end.
CanStart(layout, b) == layout.pad = ToAlign \/ Len(b) % 4 = 0

\* A vtable and its table, before anything is behind it.
HeadWritten(c, b, at, layout, places, params) ==
    /\ Continues(c, b) /\ at \in Nat /\ at % 4 = 0 /\ at >= Len(b) + 4 + 2 * Len(layout.fields)
    /\ Len(c) = at + places[Len(layout.body) + 1] /\ c[at + 1] = at - Len(b)
    /\ \A i \in 1..Len(layout.fields) : c[Len(b) + 4 + 2 * (i - 1) + 1] = Slot(layout, params, i)
    /\ \A n \in 1..Len(layout.body) :
         IsScalar(layout, params, layout.body[n][1]) =>
             c[at + places[n] + 1] = The(params[layout.body[n][1]])

LEMMA TableHeadWritten ==
    ASSUME NEW layout, NEW places, NEW params, Laid(layout, places), Fits(params, layout),
           NEW b \in Seq(Cell), CanStart(layout, b),
           NEW t, t = TableHead(b, layout, params)
    PROVE  /\ HeadWritten(t.buf, b, t.at, layout, places, params)
           /\ t.buf \in Seq(Cell) /\ t = [buf |-> t.buf, at |-> t.at]
<1>1. PICK k \in Nat : k = Len(layout.fields) /\ k >= 1
  BY EmptySeq, LenProperties DEF Laid
<1>2. PICK B \in Nat : B = Len(b)
  BY LenProperties
<1>3. PICK V \in Seq(Cell) :
        /\ V = VTable(layout, params) /\ Len(V) = 4 + 2 * k
        /\ \A i \in 1..k : V[4 + 2 * (i - 1) + 1] = Slot(layout, params, i)
  BY <1>1, VTableWritten
<1>4. PICK bv \in Seq(Cell) : bv = b \o V /\ Continues(bv, b) /\ Len(bv) = B + (4 + 2 * k)
        /\ \A i \in 1..(4 + 2 * k) : bv[B + i] = V[i]
  <2>1. PICK c \in Seq(Cell) :
          /\ c = b \o V /\ Continues(c, b) /\ Len(c) = Len(b) + Len(V)
          /\ \A i \in 1..Len(V) : c[Len(b) + i] = V[i]
    BY Put
  <2> QED BY <1>2, <1>3, <2>1
<1>5. PICK head \in Seq(Cell) : head = Padded(bv, layout.pad) /\ Continues(head, bv) /\ Len(head) % 4 = 0
  <2>1. CASE layout.pad = ToAlign
    <3>1. Padded(bv, layout.pad) = Align4(bv)
      BY <2>1 DEF Padded
    <3> QED BY <3>1, AlignedBehind
  <2>2. CASE layout.pad # ToAlign
    <3>1. layout.pad \in Nat /\ (4 + 2 * k + layout.pad) % 4 = 0 /\ B % 4 = 0
      BY <1>1, <1>2, <2>2 DEF Laid, CanStart
    <3>2. PICK p \in Nat : p = layout.pad
      BY <3>1
    <3>3. Padded(bv, layout.pad) = bv \o Zeros(p)
      BY <2>2, <3>2 DEF Padded
    <3>4. PICK z \in Seq(Cell) : z = Zeros(p) /\ Len(z) = p
      BY <3>2, ZerosAre
    <3>5. PICK c \in Seq(Cell) : c = bv \o z /\ Continues(c, bv) /\ Len(c) = B + (4 + 2 * k) + p
      <4>1. PICK c \in Seq(Cell) : c = bv \o z /\ Continues(c, bv) /\ Len(c) = Len(bv) + Len(z)
        BY Put
      <4> QED BY <1>4, <3>4, <4>1
    <3>6. PICK r \in Nat : r = 4 + 2 * k + p /\ B + (4 + 2 * k) + p = B + r /\ r % 4 = 0
      BY <3>1, <3>2
    <3>7. (B + r) % 4 = 0
      BY <3>1, <3>6, Multiples, Zenon
    <3> QED BY <3>3, <3>4, <3>5, <3>6, <3>7
  <2> QED BY <2>1, <2>2
<1>6. PICK at \in Nat : at = Len(head) /\ at % 4 = 0 /\ at >= B + 4 + 2 * k
  <2>1. Len(head) \in Nat /\ Len(bv) <= Len(head)
    BY <1>5, LenProperties DEF Continues
  <2>2. Len(head) >= B + 4 + 2 * k
    BY <1>4, <2>1
  <2> QED BY <1>5, <2>1, <2>2
<1>7. PICK n4 \in Seq(Cell) : n4 = Number(4, at - B) /\ Len(n4) = 4 /\ n4[1] = at - B
  <2>1. at - B \in Cell
    BY <1>6, Cells
  <2> QED BY <2>1, Four
<1>8. PICK h4 \in Seq(Cell) : h4 = head \o n4 /\ Continues(h4, head) /\ Len(h4) = at + 4
        /\ \A i \in 1..4 : h4[at + i] = n4[i]
  <2>1. PICK c \in Seq(Cell) :
          /\ c = head \o n4 /\ Continues(c, head) /\ Len(c) = Len(head) + Len(n4)
          /\ \A i \in 1..Len(n4) : c[Len(head) + i] = n4[i]
    BY Put
  <2> QED BY <1>6, <1>7, <2>1
<1>9. PICK y \in Seq(Cell) :
        /\ y = Body(layout, params) /\ Len(y) = places[Len(layout.body) + 1] - 4
        /\ \A n \in 1..Len(layout.body) :
             IsScalar(layout, params, layout.body[n][1]) =>
                 y[(places[n] - 4) + 1] = The(params[layout.body[n][1]])
  BY BodyWritten
<1>10. PICK c \in Seq(Cell) : c = h4 \o y /\ Continues(c, h4) /\ Len(c) = at + 4 + Len(y)
        /\ \A i \in 1..Len(y) : c[at + 4 + i] = y[i]
  <2>1. PICK c \in Seq(Cell) :
          /\ c = h4 \o y /\ Continues(c, h4) /\ Len(c) = Len(h4) + Len(y)
          /\ \A i \in 1..Len(y) : c[Len(h4) + i] = y[i]
    BY Put
  <2> QED BY <1>8, <2>1, ZenonT(30)
<1>11. t.buf = c /\ t.at = at /\ t = [buf |-> t.buf, at |-> t.at]
  <2>1. t = [buf |-> head \o Number(4, Len(head) - Len(b)) \o Body(layout, params), at |-> Len(head)]
    BY <1>3, <1>4, <1>5 DEF TableHead
  <2>2. t = [buf |-> c, at |-> at]
    BY <1>2, <1>6, <1>7, <1>8, <1>9, <1>10, <2>1
  <2> QED BY <2>2
<1>12. Continues(c, b) /\ Continues(c, bv) /\ Continues(c, head)
  BY <1>4, <1>5, <1>8, <1>10, Continued
<1>13. c[at + 1] = at - B
  <2>1. at + 1 \in 1..(at + 4)
    BY <1>6
  <2>2. c[at + 1] = h4[at + 1]
    BY <1>8, <1>10, <2>1 DEF Continues
  <2>3. h4[at + 1] = n4[1]
    BY <1>8, SMTT(30), ZenonT(30)
  <2> QED BY <1>7, <2>2, <2>3
<1>14. ASSUME NEW i \in 1..k PROVE c[B + 4 + 2 * (i - 1) + 1] = Slot(layout, params, i)
  <2>1. PICK j \in 1..(4 + 2 * k) : j = 4 + 2 * (i - 1) + 1 /\ B + j = B + 4 + 2 * (i - 1) + 1
    OBVIOUS
  <2>2. bv[B + j] = V[j] /\ V[j] = Slot(layout, params, i)
    BY <1>3, <1>4, <2>1
  <2>3. B + j \in 1..Len(bv)
    BY <1>4
  <2>4. c[B + j] = bv[B + j]
    BY <1>12, <2>3 DEF Continues
  <2> QED BY <2>1, <2>2, <2>4
<1>15. PICK m \in Nat : m = Len(layout.body) /\ m >= 1
  BY PlacesOrdered
<1>16. ASSUME NEW n \in 1..m, IsScalar(layout, params, layout.body[n][1])
       PROVE  c[at + places[n] + 1] = The(params[layout.body[n][1]])
  <2>1. n \in 1..(m + 1) /\ m + 1 \in 1..(m + 1) /\ n < m + 1
    BY <1>15
  <2>2. places[n] \in Nat /\ places[n] >= 4 /\ places[m + 1] \in Nat /\ places[n] < places[m + 1]
    BY <1>15, <2>1, PlacesOrdered
  <2>3. PICK j \in Nat : j = (places[n] - 4) + 1 /\ j \in 1..Len(y) /\ at + 4 + j = at + places[n] + 1
    <3>1. PICK p \in Nat, e \in Nat : p = places[n] /\ e = places[m + 1] /\ p >= 4 /\ p < e /\ Len(y) = e - 4
      BY <1>9, <1>15, <2>2
    <3>2. (p - 4) + 1 \in 1..(e - 4) /\ at + 4 + ((p - 4) + 1) = at + p + 1
      BY <3>1, BehindFour, Zenon
    <3>3. (p - 4) + 1 \in Nat
      BY <3>1, SMTT(30), ZenonT(30)
    <3> QED BY <3>1, <3>2, <3>3, Zenon
  <2>4. c[at + 4 + j] = y[j]
    BY <1>10, <2>3
  <2> QED BY <1>9, <1>15, <1>16, <2>3, <2>4
<1>17. Len(c) = at + places[Len(layout.body) + 1]
  <2>1. m + 1 \in 1..(m + 1)
    BY <1>15
  <2>2. places[m + 1] \in Nat
    BY <1>15, <2>1, PlacesOrdered
  <2>3. PICK e \in Nat : e = places[m + 1] /\ Len(y) = e - 4 /\ at + 4 + (e - 4) = at + e
    BY <1>9, <1>15, <2>2, SMTT(30), ZenonT(30)
  <2> QED BY <1>10, <1>15, <2>3
<1>18. HeadWritten(c, b, at, layout, places, params)
  BY <1>1, <1>2, <1>6, <1>12, <1>13, <1>14, <1>15, <1>16, <1>17 DEF HeadWritten
<1> QED BY <1>11, <1>18
-----------------------------------------------------------------------------
(* Buffers that follow one another: each goes on from the one before it, but
   may have patched one place of the first *)

Grows(f, m, P, slot, val) ==
    /\ \A n \in 0..m : f[n] \in Seq(Cell)
    /\ \A n \in P : slot[n] \in 1..Len(f[0])
    /\ \A n, k \in P : slot[n] = slot[k] => n = k
    /\ \A n \in 1..m :
         /\ Len(f[n - 1]) <= Len(f[n])
         /\ \A j \in 1..Len(f[n - 1]) :
              f[n][j] = IF n \in P /\ j = slot[n] THEN val[n] ELSE f[n - 1][j]

Grown(f, m, P, slot, val) ==
    /\ \A k \in 0..m : Len(f[k]) \in Nat /\ Len(f[k]) <= Len(f[m]) /\ Len(f[0]) <= Len(f[k])
    /\ \A k \in 0..m : \A j \in 1..Len(f[k]) :
         (\A n \in P : n > k => j # slot[n]) => f[m][j] = f[k][j]
    /\ \A n \in P : f[m][slot[n]] = val[n]

LEMMA Chain ==
    ASSUME NEW m \in Nat, NEW f, NEW P, P \subseteq 1..m, NEW slot, NEW val, Grows(f, m, P, slot, val)
    PROVE  Grown(f, m, P, slot, val)
<1>1. /\ \A n \in 0..m : f[n] \in Seq(Cell) /\ Len(f[n]) \in Nat
      /\ \A n \in P : slot[n] \in 1..Len(f[0])
      /\ \A n, k \in P : slot[n] = slot[k] => n = k
      /\ \A n \in 1..m :
           /\ Len(f[n - 1]) <= Len(f[n])
           /\ \A j \in 1..Len(f[n - 1]) :
                f[n][j] = IF n \in P /\ j = slot[n] THEN val[n] ELSE f[n - 1][j]
  BY LenProperties DEF Grows
<1> DEFINE Good(i) == /\ \A k \in 0..i : Len(f[k]) <= Len(f[i]) /\ Len(f[0]) <= Len(f[i])
                      /\ \A k \in 0..i : \A j \in 1..Len(f[k]) :
                           (\A n \in P : n > k /\ n <= i => j # slot[n]) => f[i][j] = f[k][j]
                      /\ \A n \in P : n <= i => f[i][slot[n]] = val[n]
           E == {i \in 0..m : Good(i)}
<1>2. 0 \in E
  <2>1. \A n \in P : ~(n <= 0)
    OBVIOUS
  <2> QED BY <1>1, <2>1
<1>3. ASSUME NEW i \in 0..(m - 1), i \in E PROVE i + 1 \in E
  <2>1. PICK h \in 1..m : h = i + 1 /\ h - 1 = i /\ h \in 0..m /\ i \in 0..m
    OBVIOUS
  <2>2. Good(i)
    BY <1>3
  <2>3. /\ Len(f[i]) <= Len(f[h]) /\ Len(f[i]) \in Nat /\ Len(f[h]) \in Nat /\ Len(f[0]) \in Nat
        /\ \A j \in 1..Len(f[i]) : f[h][j] = IF h \in P /\ j = slot[h] THEN val[h] ELSE f[i][j]
    <3>1. 0 \in 0..m
      OBVIOUS
    <3>2. /\ Len(f[h - 1]) <= Len(f[h])
          /\ \A j \in 1..Len(f[h - 1]) : f[h][j] = IF h \in P /\ j = slot[h] THEN val[h] ELSE f[h - 1][j]
      BY <1>1
    <3> HIDE DEF Good, E
    <3> QED BY <1>1, <2>1, <3>1, <3>2
  <2>4. \A k \in 0..h : Len(f[k]) <= Len(f[h]) /\ Len(f[0]) <= Len(f[h])
    <3> SUFFICES ASSUME NEW k \in 0..h PROVE Len(f[k]) <= Len(f[h]) /\ Len(f[0]) <= Len(f[h])
      OBVIOUS
    <3>1. i \in 0..i
      OBVIOUS
    <3>2. Len(f[0]) <= Len(f[i])
      BY <2>2, <3>1
    <3>3. CASE k = h
      BY <2>3, <3>2, <3>3
    <3>4. CASE k # h
      <4>1. k \in 0..i /\ k \in 0..m
        BY <2>1, <3>4
      <4>2. Len(f[k]) <= Len(f[i]) /\ Len(f[k]) \in Nat
        BY <1>1, <2>2, <4>1
      <4> HIDE DEF Good, E
      <4> QED BY <2>3, <3>2, <4>2
    <3> QED BY <3>3, <3>4
  <2>5. ASSUME NEW k \in 0..h, NEW j \in 1..Len(f[k]), \A n \in P : n > k /\ n <= h => j # slot[n]
        PROVE  f[h][j] = f[k][j]
    <3>1. CASE k = h
      BY <3>1
    <3>2. CASE k # h
      <4>1. k \in 0..i /\ k \in 0..m
        BY <2>1, <3>2
      <4>2. \A n \in P : n > k /\ n <= i => j # slot[n]
        BY <2>1, <2>5
      <4>3. f[i][j] = f[k][j] /\ Len(f[k]) <= Len(f[i]) /\ Len(f[k]) \in Nat
        BY <1>1, <2>2, <4>1, <4>2
      <4>4. j \in 1..Len(f[i])
        BY <2>3, <4>3
      <4>5. ~(h \in P /\ j = slot[h])
        <5>1. h > k
          BY <2>1, <4>1
        <5> QED BY <2>5, <5>1
      <4> HIDE DEF Good, E
      <4> QED BY <2>3, <4>3, <4>4, <4>5
    <3> QED BY <3>1, <3>2
  <2>6. ASSUME NEW n \in P, n <= h PROVE f[h][slot[n]] = val[n]
    <3>1. slot[n] \in 1..Len(f[0]) /\ Len(f[0]) <= Len(f[i])
      <4>1. i \in 0..i
        OBVIOUS
      <4> QED BY <1>1, <2>2, <4>1
    <3>2. slot[n] \in 1..Len(f[i])
      <4> HIDE DEF Good, E
      <4> QED BY <2>3, <3>1
    <3>3. CASE n = h
      <4> HIDE DEF Good, E
      <4> QED BY <2>3, <3>2, <3>3
    <3>4. CASE n # h
      <4>1. n <= i /\ h \in 1..m
        BY <2>1, <2>6, <3>4
      <4>2. f[i][slot[n]] = val[n]
        BY <2>2, <4>1
      <4>3. ~(h \in P /\ slot[n] = slot[h])
        BY <1>1, <3>4
      <4> HIDE DEF Good, E
      <4> QED BY <2>3, <3>2, <4>2, <4>3
    <3> QED BY <3>3, <3>4
  <2>7. Good(h)
    BY <2>4, <2>5, <2>6
  <2> HIDE DEF Good
  <2> QED BY <2>1, <2>7
<1>4. Good(m)
  <2>1. 0..m \subseteq E
    <3> HIDE DEF E
    <3> QED BY <1>2, <1>3, InductionTo
  <2> HIDE DEF Good
  <2> QED BY <2>1
<1>5. \A n \in P : n <= m
  OBVIOUS
<1>6. ASSUME NEW k \in 0..m PROVE Len(f[0]) <= Len(f[k])
  <2>1. 0..m \subseteq E
    <3> HIDE DEF E
    <3> QED BY <1>2, <1>3, InductionTo
  <2>2. Good(k) /\ k \in 0..k
    <3> HIDE DEF Good
    <3> QED BY <2>1
  <2> QED BY <2>2
<1> QED BY <1>1, <1>4, <1>5, <1>6 DEF Grown

LEMMA Patched ==
    ASSUME NEW c \in Seq(Cell), NEW at \in Nat, at + 1 \in 1..Len(c), NEW target \in Nat, target >= at
    PROVE  /\ Patch(c, at, target) \in Seq(Cell) /\ Len(Patch(c, at, target)) = Len(c)
           /\ \A j \in 1..Len(c) : Patch(c, at, target)[j] = IF j = at + 1 THEN target - at ELSE c[j]
<1>1. PICK i \in 1..Len(c), v \in Cell : i = at + 1 /\ v = target - at
  BY Cells
<1>2. /\ [c EXCEPT ![i] = v] \in Seq(Cell) /\ Len([c EXCEPT ![i] = v]) = Len(c)
      /\ \A j \in 1..Len(c) : [c EXCEPT ![i] = v][j] = IF j = i THEN v ELSE c[j]
  BY ExceptSeq
<1>3. Patch(c, at, target) = [c EXCEPT ![i] = v]
  BY <1>1 DEF Patch
<1> QED BY <1>1, <1>2, <1>3

\* What a writer returns: what was there, more behind it, and where to look.
Wrote(w, b) ==
    Continues(w.buf, b) /\ w.at \in Nat /\ w.at % 4 = 0 /\ w.at >= Len(b)

IsThere(layout, params, n) == params[layout.tail[n][1]] # Absent
StartOf(f, layout, n) == PartStart(f[n - 1], layout.tail[n][2])
SlotOf(layout, at, n) == at + layout.at[layout.tail[n][1]]

\* The parts of a tail are written one behind the other.
TailRun(f, w, at, layout, params) ==
    /\ \A n \in 0..Len(layout.tail) : f[n] \in Seq(Cell)
    /\ \A n \in 1..Len(layout.tail) :
         IF IsThere(layout, params, n)
         THEN /\ Wrote(w[n], StartOf(f, layout, n))
              /\ f[n] = Patch(w[n].buf, SlotOf(layout, at, n), w[n].at)
         ELSE f[n] = StartOf(f, layout, n)

LEMMA Starts ==
    ASSUME NEW b \in Seq(Cell), NEW type
    PROVE  PartStart(b, type) \in Seq(Cell) /\ Continues(PartStart(b, type), b)
BY AlignedBehind, Continued DEF PartStart

LEMMA FieldPlace ==
    ASSUME NEW layout, NEW places, Laid(layout, places), NEW name \in DOMAIN layout.at
    PROVE  /\ layout.at[name] \in Nat /\ layout.at[name] >= 4
           /\ layout.at[name] < places[Len(layout.body) + 1] /\ places[Len(layout.body) + 1] \in Nat
           /\ \A other \in DOMAIN layout.at : layout.at[other] = layout.at[name] => other = name
<1>1. PICK k \in Nat : k = Len(layout.body) /\ k >= 1
  BY PlacesOrdered
<1>2. PICK n \in 1..k : layout.body[n][1] = name /\ layout.at[name] = places[n]
  BY <1>1 DEF Laid
<1>3. n \in 1..(k + 1) /\ k + 1 \in 1..(k + 1) /\ n < k + 1
  BY <1>1
<1>4. places[n] \in Nat /\ places[n] >= 4 /\ places[n] < places[k + 1] /\ places[k + 1] \in Nat
  BY <1>1, <1>3, PlacesOrdered
<1>5. ASSUME NEW other \in DOMAIN layout.at, layout.at[other] = layout.at[name] PROVE other = name
  <2>1. PICK m \in 1..k : layout.body[m][1] = other /\ layout.at[other] = places[m]
    BY <1>1 DEF Laid
  <2>2. m \in 1..(k + 1) /\ (m < n \/ n < m \/ m = n)
    BY <1>3
  <2>3. ~(m < n) /\ ~(n < m)
    <3>1. places[m] = places[n] /\ places[m] \in Nat
      BY <1>2, <1>4, <1>5, <2>1
    <3>2. m < n => places[m] < places[n]
      BY <1>1, <1>3, <2>2, PlacesOrdered
    <3>3. n < m => places[n] < places[m]
      BY <1>1, <1>3, <2>2, PlacesOrdered
    <3> QED BY <3>1, <3>2, <3>3
  <2> QED BY <1>2, <2>1, <2>2, <2>3
<1> QED BY <1>1, <1>2, <1>4, <1>5

\* The whole table keeps what was before it, the table but for its slots, and
\* each part of the tail.
TailIsKept(f, w, b, at, layout, params, N) ==
    /\ N \in Nat /\ f[N] \in Seq(Cell) /\ Continues(f[N], b) /\ Len(f[0]) \in Nat /\ Len(f[0]) <= Len(f[N])
    /\ \A j \in 1..Len(f[0]) :
         (\A n \in 1..N : IsThere(layout, params, n) => j # SlotOf(layout, at, n) + 1)
         => f[N][j] = f[0][j]
    /\ \A n \in 1..N : IsThere(layout, params, n) =>
         /\ f[N][SlotOf(layout, at, n) + 1] = w[n].at - SlotOf(layout, at, n)
         /\ Keeps(f[N], w[n].buf, Len(StartOf(f, layout, n)))
         /\ Len(f[0]) <= Len(StartOf(f, layout, n))

LEMMA TailKept ==
    ASSUME NEW layout, NEW places, NEW params, Laid(layout, places), NEW b \in Seq(Cell),
           NEW at, NEW f, NEW w, HeadWritten(f[0], b, at, layout, places, params),
           TailRun(f, w, at, layout, params), NEW N, N = Len(layout.tail)
    PROVE  TailIsKept(f, w, b, at, layout, params, N)
<1>1. /\ N \in Nat /\ layout.tail \in Seq((DOMAIN layout.at) \X Types)
      /\ \A m, n \in 1..N : layout.tail[m][1] = layout.tail[n][1] => m = n
  BY LenProperties DEF Laid
<1>2. \A n \in 1..N : layout.tail[n][1] \in DOMAIN layout.at
  BY <1>1, ElementOfSeq
<1>3. PICK L \in Nat : L = Len(f[0]) /\ f[0] \in Seq(Cell)
  BY LenProperties DEF HeadWritten, Continues
<1>4. at \in Nat /\ Continues(f[0], b) /\ L = at + places[Len(layout.body) + 1] /\ at >= Len(b)
  <2>1. Len(b) \in Nat /\ Len(layout.fields) \in Nat
    BY LenProperties DEF Laid
  <2>2. /\ at \in Nat /\ Continues(f[0], b) /\ L = at + places[Len(layout.body) + 1]
        /\ at >= Len(b) + 4 + 2 * Len(layout.fields)
    BY <1>3 DEF HeadWritten
  <2>3. \A a, l, k \in Nat : a >= l + 4 + 2 * k => a >= l
    OBVIOUS
  <2>4. at >= Len(b)
    BY <2>1, <2>2, <2>3, Zenon
  <2> QED BY <2>2, <2>4
<1>a. PICK P, slot, val :
        /\ P = {n \in 1..N : IsThere(layout, params, n)}
        /\ slot = [n \in 1..N |-> SlotOf(layout, at, n) + 1]
        /\ val = [n \in 1..N |-> w[n].at - SlotOf(layout, at, n)]
  OBVIOUS
<1>5. \A n \in 1..N : /\ SlotOf(layout, at, n) \in Nat /\ SlotOf(layout, at, n) + 1 \in 1..L
                      /\ SlotOf(layout, at, n) > Len(b) /\ SlotOf(layout, at, n) < L
  <2> SUFFICES ASSUME NEW n \in 1..N
               PROVE /\ SlotOf(layout, at, n) \in Nat /\ SlotOf(layout, at, n) + 1 \in 1..L
                     /\ SlotOf(layout, at, n) > Len(b) /\ SlotOf(layout, at, n) < L
    OBVIOUS
  <2>1. PICK a \in Nat, e \in Nat :
          a = layout.at[layout.tail[n][1]] /\ e = places[Len(layout.body) + 1] /\ a >= 4 /\ a < e
    BY <1>2, FieldPlace, SMTT(30), ZenonT(30)
  <2>2. SlotOf(layout, at, n) = at + a /\ L = at + e /\ at \in Nat /\ at >= Len(b) /\ Len(b) \in Nat
    BY <1>4, <2>1, LenProperties DEF SlotOf
  <2>3. \A l, i, x, y \in Nat : l <= i /\ x >= 4 /\ x < y =>
          i + x \in Nat /\ (i + x) + 1 \in 1..(i + y) /\ i + x > l /\ i + x < i + y
    OBVIOUS
  <2>4. Len(b) <= at
    BY <2>2
  <2>5. at + a \in Nat /\ (at + a) + 1 \in 1..(at + e) /\ at + a > Len(b) /\ at + a < at + e
    BY <2>1, <2>2, <2>3, <2>4, Zenon
  <2> QED BY <2>2, <2>5, Zenon
<1>6. \A m, n \in 1..N : SlotOf(layout, at, m) = SlotOf(layout, at, n) => m = n
  <2> SUFFICES ASSUME NEW m \in 1..N, NEW n \in 1..N, SlotOf(layout, at, m) = SlotOf(layout, at, n)
               PROVE  m = n
    OBVIOUS
  <2>1. layout.at[layout.tail[m][1]] \in Nat /\ layout.at[layout.tail[n][1]] \in Nat
    BY <1>2, FieldPlace
  <2>2. layout.at[layout.tail[m][1]] = layout.at[layout.tail[n][1]]
    BY <1>4, <2>1, SMTT(30), ZenonT(30) DEF SlotOf
  <2>3. layout.tail[m][1] = layout.tail[n][1]
    BY <1>2, <2>2, FieldPlace
  <2> QED BY <1>1, <2>3
<1>7. ASSUME NEW n \in 1..N
      PROVE  /\ StartOf(f, layout, n) \in Seq(Cell) /\ Continues(StartOf(f, layout, n), f[n - 1])
             /\ n \in 0..N /\ n - 1 \in 0..N /\ f[n - 1] \in Seq(Cell) /\ f[n] \in Seq(Cell)
             /\ Len(f[n - 1]) \in Nat /\ Len(StartOf(f, layout, n)) \in Nat
             /\ Len(f[n - 1]) <= Len(StartOf(f, layout, n))
  <2>1. n \in 0..N /\ n - 1 \in 0..N
    OBVIOUS
  <2>2. f[n - 1] \in Seq(Cell) /\ f[n] \in Seq(Cell)
    BY <2>1 DEF TailRun
  <2>3. StartOf(f, layout, n) \in Seq(Cell) /\ Continues(StartOf(f, layout, n), f[n - 1])
    BY <2>2, Starts DEF StartOf
  <2> QED BY <2>1, <2>2, <2>3, LenProperties DEF Continues
\* Each step from what a writer returned.
<1>8. ASSUME NEW n \in 1..N, IsThere(layout, params, n), L <= Len(f[n - 1])
      PROVE  /\ w[n].buf \in Seq(Cell) /\ Continues(w[n].buf, StartOf(f, layout, n))
             /\ Len(f[n]) = Len(w[n].buf) /\ Len(w[n].buf) \in Nat
             /\ \A j \in 1..Len(w[n].buf) : f[n][j] = IF j = slot[n] THEN val[n] ELSE w[n].buf[j]
  <2>1. Wrote(w[n], StartOf(f, layout, n)) /\ f[n] = Patch(w[n].buf, SlotOf(layout, at, n), w[n].at)
    BY <1>8 DEF TailRun
  <2>2. /\ w[n].buf \in Seq(Cell) /\ Continues(w[n].buf, StartOf(f, layout, n))
        /\ w[n].at \in Nat /\ w[n].at >= Len(StartOf(f, layout, n))
        /\ Len(StartOf(f, layout, n)) <= Len(w[n].buf) /\ Len(w[n].buf) \in Nat
    BY <2>1, LenProperties DEF Wrote, Continues
  <2>3. PICK s \in Nat : s = SlotOf(layout, at, n) /\ s + 1 \in 1..L /\ s < L
    BY <1>5
  <2>4. s + 1 \in 1..Len(w[n].buf) /\ w[n].at >= s
    BY <1>7, <1>8, <2>2, <2>3, SMTT(30), ZenonT(30)
  <2>5. /\ Len(Patch(w[n].buf, s, w[n].at)) = Len(w[n].buf)
        /\ \A j \in 1..Len(w[n].buf) :
             Patch(w[n].buf, s, w[n].at)[j] = IF j = s + 1 THEN w[n].at - s ELSE w[n].buf[j]
    BY <2>2, <2>4, Patched, SMTT(30), ZenonT(30)
  <2>6. slot[n] = s + 1 /\ val[n] = w[n].at - s
    BY <1>a, <2>3
  <2> QED BY <2>1, <2>2, <2>3, <2>5, <2>6
<1>9. ASSUME NEW n \in 1..N, L <= Len(f[n - 1])
      PROVE  /\ Len(f[n - 1]) <= Len(f[n])
             /\ \A j \in 1..Len(f[n - 1]) :
                  f[n][j] = IF n \in P /\ j = slot[n] THEN val[n] ELSE f[n - 1][j]
  <2>1. CASE IsThere(layout, params, n)
    <3>1. /\ Continues(w[n].buf, StartOf(f, layout, n)) /\ Continues(StartOf(f, layout, n), f[n - 1])
          /\ Len(f[n]) = Len(w[n].buf) /\ Len(w[n].buf) \in Nat
          /\ \A j \in 1..Len(w[n].buf) : f[n][j] = IF j = slot[n] THEN val[n] ELSE w[n].buf[j]
      BY <1>7, <1>8, <1>9, <2>1
    <3>2. Continues(w[n].buf, f[n - 1])
      BY <1>7, <1>8, <1>9, <2>1, <3>1, Continued
    <3>3. n \in P
      BY <1>a, <2>1
    <3>4. Len(f[n - 1]) <= Len(w[n].buf) /\ \A j \in 1..Len(f[n - 1]) : w[n].buf[j] = f[n - 1][j]
      BY <3>2 DEF Continues
    <3>5. ASSUME NEW j \in 1..Len(f[n - 1])
          PROVE  f[n][j] = IF n \in P /\ j = slot[n] THEN val[n] ELSE f[n - 1][j]
      <4>1. j \in 1..Len(w[n].buf) /\ w[n].buf[j] = f[n - 1][j]
        BY <1>7, <3>1, <3>4
      <4> QED BY <3>1, <3>3, <4>1
    <3> QED BY <3>1, <3>4, <3>5
  <2>2. CASE ~IsThere(layout, params, n)
    <3>1. f[n] = StartOf(f, layout, n) /\ n \notin P
      BY <1>1, <1>a, <2>2 DEF TailRun
    <3> QED BY <1>7, <3>1 DEF Continues
  <2> QED BY <2>1, <2>2
<1>10. \A n \in 0..N : L <= Len(f[n])
  <2> DEFINE E == {n \in 0..N : L <= Len(f[n])}
  <2>1. 0 \in E
    BY <1>1, <1>3
  <2>2. ASSUME NEW n \in 0..(N - 1), n \in E PROVE n + 1 \in E
    <3>1. PICK h \in 1..N : h = n + 1 /\ h - 1 = n
      BY <1>1
    <3>2. L <= Len(f[h - 1])
      BY <2>2, <3>1
    <3>3. Len(f[h - 1]) <= Len(f[h]) /\ Len(f[h - 1]) \in Nat /\ Len(f[h]) \in Nat /\ h \in 0..N
      BY <1>7, <1>9, <3>2, LenProperties
    <3> QED BY <1>3, <3>1, <3>2, <3>3
  <2>3. 0..N \subseteq E
    <3> HIDE DEF E
    <3> QED BY <1>1, <2>1, <2>2, InductionTo
  <2> QED BY <2>3
<1>11. Grows(f, N, P, slot, val)
  <2>1. \A n \in 0..N : f[n] \in Seq(Cell)
    BY DEF TailRun
  <2>2. \A n \in P : slot[n] \in 1..Len(f[0])
    BY <1>a, <1>3, <1>5
  <2>3. \A n, k \in P : slot[n] = slot[k] => n = k
    <3> SUFFICES ASSUME NEW n \in 1..N, NEW k \in 1..N, slot[n] = slot[k] PROVE n = k
      BY <1>a
    <3>1. SlotOf(layout, at, n) + 1 = SlotOf(layout, at, k) + 1
      BY <1>a
    <3>2. SlotOf(layout, at, n) \in Nat /\ SlotOf(layout, at, k) \in Nat
      BY <1>5
    <3>3. SlotOf(layout, at, n) = SlotOf(layout, at, k)
      BY <3>1, <3>2
    <3> QED BY <1>6, <3>3
  <2>4. ASSUME NEW n \in 1..N
        PROVE  /\ Len(f[n - 1]) <= Len(f[n])
               /\ \A j \in 1..Len(f[n - 1]) :
                    f[n][j] = IF n \in P /\ j = slot[n] THEN val[n] ELSE f[n - 1][j]
    <3>1. L <= Len(f[n - 1])
      BY <1>7, <1>10
    <3> QED BY <1>9, <3>1
  <2> QED BY <2>1, <2>2, <2>3, <2>4 DEF Grows
<1>12. /\ \A k \in 0..N : Len(f[k]) \in Nat /\ Len(f[k]) <= Len(f[N]) /\ L <= Len(f[k])
       /\ \A k \in 0..N : \A j \in 1..Len(f[k]) :
            (\A n \in P : n > k => j # slot[n]) => f[N][j] = f[k][j]
       /\ \A n \in P : f[N][slot[n]] = val[n]
  <2>1. P \subseteq 1..N
    BY <1>a
  <2>2. Grown(f, N, P, slot, val)
    <3>1. N \in Nat
      BY <1>1
    <3> QED BY <1>11, <2>1, <3>1, Chain
  <2> QED BY <1>3, <2>2 DEF Grown
<1>13. f[N] \in Seq(Cell) /\ 0 \in 0..N /\ N \in 0..N
  <2>1. N \in 0..N /\ 0 \in 0..N
    BY <1>1
  <2> QED BY <1>1, <2>1 DEF TailRun
<1>14. ASSUME NEW j \in 1..L,
              \A n \in 1..N : IsThere(layout, params, n) => j # SlotOf(layout, at, n) + 1
       PROVE  f[N][j] = f[0][j]
  <2>1. \A n \in P : j # slot[n]
    BY <1>a, <1>14
  <2> QED BY <1>3, <1>12, <1>13, <2>1
<1>15. Continues(f[N], b)
  <2>1. Len(b) \in Nat /\ Len(b) <= L /\ \A j \in 1..Len(b) : f[0][j] = b[j]
    BY <1>3, <1>4, LenProperties DEF Continues
  <2>2. ASSUME NEW j \in 1..Len(b) PROVE f[N][j] = b[j]
    <3>1. j \in 1..L
      BY <2>1
    <3>2. \A n \in 1..N : j # SlotOf(layout, at, n) + 1
      BY <1>5, <2>1
    <3> QED BY <1>14, <2>1, <3>1, <3>2
  <2>3. Len(b) <= Len(f[N])
    BY <1>12, <1>13, <2>1
  <2> QED BY <1>13, <2>2, <2>3 DEF Continues
<1>16. ASSUME NEW n \in 1..N, IsThere(layout, params, n)
       PROVE  /\ f[N][SlotOf(layout, at, n) + 1] = w[n].at - SlotOf(layout, at, n)
              /\ Keeps(f[N], w[n].buf, Len(StartOf(f, layout, n)))
              /\ L <= Len(StartOf(f, layout, n))
  <2>1. f[N][SlotOf(layout, at, n) + 1] = w[n].at - SlotOf(layout, at, n)
    <3>1. n \in P /\ slot[n] = SlotOf(layout, at, n) + 1 /\ val[n] = w[n].at - SlotOf(layout, at, n)
      BY <1>a, <1>16
    <3> QED BY <1>12, <3>1
  <2>2. L <= Len(f[n - 1]) /\ L <= Len(StartOf(f, layout, n)) /\ Len(StartOf(f, layout, n)) \in Nat
    BY <1>3, <1>7, <1>10
  <2>3. /\ Len(f[n]) = Len(w[n].buf) /\ Len(w[n].buf) \in Nat
        /\ \A j \in 1..Len(w[n].buf) : f[n][j] = IF j = slot[n] THEN val[n] ELSE w[n].buf[j]
    BY <1>8, <1>16, <2>2
  <2>4. ASSUME NEW j \in (Len(StartOf(f, layout, n)) + 1)..Len(w[n].buf) PROVE f[N][j] = w[n].buf[j]
    <3>1. j \in 1..Len(w[n].buf) /\ j \in 1..Len(f[n]) /\ j > L
      BY <2>2, <2>3
    <3>2. \A k \in 1..N : j # slot[k]
      BY <1>a, <1>5, <3>1
    <3>3. f[n][j] = w[n].buf[j]
      BY <2>3, <3>1, <3>2
    <3>4. \A k \in P : j # slot[k]
      BY <1>a, <3>2
    <3>5. f[N][j] = f[n][j]
      <4> QED BY <1>7, <1>12, <3>1, <3>4
    <3> QED BY <3>3, <3>5
  <2>5. Len(w[n].buf) <= Len(f[N])
    BY <1>7, <1>12, <2>3
  <2> QED BY <1>13, <2>1, <2>2, <2>4, <2>5 DEF Keeps
<1> QED BY <1>1, <1>3, <1>12, <1>13, <1>14, <1>15, <1>16 DEF TailIsKept

\* What a reader finds in a table, but for what its offsets lead to.
HasFields(d, at, layout, params) ==
    /\ \A i \in 1..Len(layout.fields) :
         FieldAt(d, at, i - 1) =
            IF params[layout.fields[i]] = Absent THEN {} ELSE {at + layout.at[layout.fields[i]]}
    /\ \A name \in DOMAIN layout.at :
         IsScalar(layout, params, name) => NumberAt(d, at + layout.at[name]) = The(params[name])

LEMMA TableKept ==
    ASSUME NEW layout, NEW places, NEW params, Laid(layout, places), Fits(params, layout), NEW b \in Seq(Cell),
           NEW at, NEW f, NEW w, HeadWritten(f[0], b, at, layout, places, params),
           TailRun(f, w, at, layout, params), NEW N, N = Len(layout.tail),
           NEW d, Keeps(d, f[N], Len(b))
    PROVE  /\ HasFields(d, at, layout, params)
           /\ \A n \in 1..N : IsThere(layout, params, n) =>
                /\ Follow(d, SlotOf(layout, at, n)) = w[n].at
                /\ Keeps(d, w[n].buf, Len(StartOf(f, layout, n)))
<1>1. /\ N \in Nat /\ f[N] \in Seq(Cell) /\ Continues(f[N], b) /\ Len(f[0]) \in Nat /\ Len(f[0]) <= Len(f[N])
      /\ \A j \in 1..Len(f[0]) :
           (\A n \in 1..N : IsThere(layout, params, n) => j # SlotOf(layout, at, n) + 1)
           => f[N][j] = f[0][j]
      /\ \A n \in 1..N : IsThere(layout, params, n) =>
           /\ f[N][SlotOf(layout, at, n) + 1] = w[n].at - SlotOf(layout, at, n)
           /\ Keeps(f[N], w[n].buf, Len(StartOf(f, layout, n)))
           /\ Len(f[0]) <= Len(StartOf(f, layout, n))
  <2>1. TailIsKept(f, w, b, at, layout, params, N)
    BY TailKept
  <2> QED BY <2>1 DEF TailIsKept
<1>2. PICK B \in Nat, k \in Nat, m \in Nat, e \in Nat :
        /\ B = Len(b) /\ k = Len(layout.fields) /\ m = Len(layout.body)
        /\ e = places[Len(layout.body) + 1] /\ e >= 4
  <2>1. Len(b) \in Nat /\ Len(layout.fields) \in Nat
    BY LenProperties DEF Laid
  <2>2. Len(layout.body) + 1 \in 1..(Len(layout.body) + 1) /\ Len(layout.body) \in Nat
    BY PlacesOrdered
  <2>3. places[Len(layout.body) + 1] \in Nat /\ places[Len(layout.body) + 1] >= 4
    BY <2>2, PlacesOrdered
  <2> QED BY <2>1, <2>2, <2>3
<1>3. /\ at \in Nat /\ at >= B + 4 + 2 * k /\ Len(f[0]) = at + e
      /\ f[0][at + 1] = at - B
      /\ \A i \in 1..k : f[0][B + 4 + 2 * (i - 1) + 1] = Slot(layout, params, i)
      /\ \A n \in 1..m : IsScalar(layout, params, layout.body[n][1]) =>
             f[0][at + places[n] + 1] = The(params[layout.body[n][1]])
  BY <1>2 DEF HeadWritten
<1>4. \A n \in 1..N : layout.tail[n][1] \in DOMAIN layout.at
  <2>1. layout.tail \in Seq((DOMAIN layout.at) \X Types)
    BY DEF Laid
  <2> QED BY <1>1, <2>1, ElementOfSeq
<1>5. \A name \in DOMAIN layout.at : layout.at[name] \in Nat /\ layout.at[name] >= 4 /\ layout.at[name] < e
  BY <1>2, FieldPlace
<1>6. \A n \in 1..N : SlotOf(layout, at, n) = at + layout.at[layout.tail[n][1]]
  BY DEF SlotOf
<1>7. d \in Seq(Cell) /\ \A j \in (B + 1)..Len(f[N]) : d[j] = f[N][j]
  BY <1>2 DEF Keeps
<1>8. ASSUME NEW j \in (B + 1)..(at + e),
             \A n \in 1..N : IsThere(layout, params, n) => j # SlotOf(layout, at, n) + 1
      PROVE  d[j] = f[0][j]
  <2>1. j \in 1..Len(f[0]) /\ j \in (B + 1)..Len(f[N])
    <3>1. Len(f[N]) \in Nat
      BY <1>1, LenProperties
    <3>2. at + e <= Len(f[N])
      BY <1>1, <1>3
    <3> QED BY <1>3, <3>1, <3>2
  <2> QED BY <1>1, <1>7, <1>8, <2>1
<1>9. ASSUME NEW j \in (B + 1)..(at + 4) PROVE d[j] = f[0][j]
  <2>1. \A n \in 1..N : j # SlotOf(layout, at, n) + 1
    <3> SUFFICES ASSUME NEW n \in 1..N PROVE j # SlotOf(layout, at, n) + 1
      OBVIOUS
    <3>1. PICK a \in Nat : a = layout.at[layout.tail[n][1]] /\ a >= 4
      BY <1>4, <1>5
    <3>2. SlotOf(layout, at, n) = at + a
      BY <1>6, <3>1
    <3> QED BY <1>3, <3>1, <3>2, SMTT(30), ZenonT(30)
  <2>2. j \in (B + 1)..(at + e)
    BY <1>2, <1>3, SMTT(30), ZenonT(30)
  <2> QED BY <1>8, <2>1, <2>2
<1>10. VTableAt(d, at) = B
  <2>1. at + 1 \in (B + 1)..(at + 4)
    <3>1. at >= B
      BY <1>3
    <3> QED BY <1>3, <3>1
  <2>2. d[at + 1] = at - B
    BY <1>3, <1>9, <2>1
  <2>3. at - (at - B) = B
    BY <1>3
  <2> QED BY <2>2, <2>3 DEF VTableAt, NumberAt
<1>11. ASSUME NEW i \in 1..k
       PROVE  FieldAt(d, at, i - 1) =
                 IF params[layout.fields[i]] = Absent THEN {} ELSE {at + layout.at[layout.fields[i]]}
  <2>1. PICK j \in Nat : j = B + 4 + 2 * (i - 1) /\ j + 1 \in (B + 1)..(at + 4)
    <3>1. \A x \in Nat, y \in 1..k, z \in Nat : z >= x + 4 + 2 * k =>
            x + 4 + 2 * (y - 1) \in Nat /\ (x + 4 + 2 * (y - 1)) + 1 \in (x + 1)..(z + 4)
      OBVIOUS
    <3> QED BY <1>3, <3>1
  <2>2. d[j + 1] = Slot(layout, params, i)
    <3>1. f[0][j + 1] = Slot(layout, params, i)
      BY <1>3, <2>1
    <3> QED BY <1>9, <2>1, <3>1
  <2>3. NumberAt(d, VTableAt(d, at) + 4 + 2 * (i - 1)) = Slot(layout, params, i)
    BY <1>10, <2>1, <2>2 DEF NumberAt
  <2>4. FieldAt(d, at, i - 1) = IF Slot(layout, params, i) = 0 THEN {} ELSE {at + Slot(layout, params, i)}
    BY <2>3, Zenon DEF FieldAt
  <2>5. CASE params[layout.fields[i]] = Absent
    BY <2>4, <2>5 DEF Slot
  <2>6. CASE params[layout.fields[i]] # Absent
    <3>1. layout.fields[i] \in DOMAIN layout.at
      BY <1>2, <2>6 DEF Fits
    <3>2. Slot(layout, params, i) = layout.at[layout.fields[i]]
      BY <2>6 DEF Slot
    <3>3. Slot(layout, params, i) \in Nat /\ Slot(layout, params, i) >= 4
      BY <1>5, <3>1, <3>2
    <3>4. Slot(layout, params, i) # 0
      BY <3>3
    <3> QED BY <2>4, <2>6, <3>2, <3>4
  <2> QED BY <2>5, <2>6
<1>12. ASSUME NEW name \in DOMAIN layout.at, IsScalar(layout, params, name)
       PROVE  NumberAt(d, at + layout.at[name]) = The(params[name])
  <2>1. PICK n \in 1..m : layout.body[n][1] = name /\ layout.at[name] = places[n]
    BY <1>2 DEF Laid
  <2>2. f[0][at + layout.at[name] + 1] = The(params[name])
    BY <1>3, <1>12, <2>1
  <2>3. PICK a \in Nat : a = layout.at[name] /\ a >= 4 /\ a < e
    BY <1>5
  <2>4. at + a + 1 \in (B + 1)..(at + e)
    <3>1. at >= B
      BY <1>3
    <3> QED BY <1>3, <2>3, <3>1
  <2>5. \A q \in 1..N : at + a + 1 # SlotOf(layout, at, q) + 1
    <3> SUFFICES ASSUME NEW q \in 1..N PROVE at + a + 1 # SlotOf(layout, at, q) + 1
      OBVIOUS
    <3>1. layout.tail[q][1] # name
      <4>1. layout.tail[q][1] \in TailFields(layout)
        <5>1. layout.tail[q] \in ToSet(layout.tail)
          <6>1. q \in DOMAIN layout.tail
            BY LenProperties DEF Laid
          <6> QED BY <6>1 DEF ToSet
        <5> QED BY <5>1 DEF TailFields
      <4> QED BY <1>12, <4>1 DEF IsScalar
    <3>2. layout.at[layout.tail[q][1]] # a
      BY <1>4, <2>3, <3>1, FieldPlace
    <3>3. PICK x \in Nat : x = layout.at[layout.tail[q][1]]
      BY <1>4, <1>5
    <3>4. x # a /\ SlotOf(layout, at, q) = at + x
      BY <1>6, <3>2, <3>3
    <3>5. \A z, y, v \in Nat : y # v => z + v + 1 # (z + y) + 1
      OBVIOUS
    <3> QED BY <1>3, <2>3, <3>3, <3>4, <3>5, ZenonT(30)
  <2>6. d[at + a + 1] = f[0][at + a + 1]
    BY <1>8, <2>4, <2>5
  <2> QED BY <2>2, <2>3, <2>6 DEF NumberAt
<1>13. ASSUME NEW n \in 1..N, IsThere(layout, params, n)
       PROVE  /\ Follow(d, SlotOf(layout, at, n)) = w[n].at
              /\ Keeps(d, w[n].buf, Len(StartOf(f, layout, n)))
  <2>1. PICK a \in Nat, s \in Nat : /\ a = layout.at[layout.tail[n][1]] /\ a >= 4 /\ a < e
                                    /\ s = SlotOf(layout, at, n) /\ s = at + a
    <3>1. PICK a \in Nat : a = layout.at[layout.tail[n][1]] /\ a >= 4 /\ a < e
      BY <1>4, <1>5
    <3>2. SlotOf(layout, at, n) = at + a
      BY <1>6, <3>1
    <3>3. at + a \in Nat
      BY <1>3
    <3> QED BY <3>1, <3>2, <3>3
  <2>2. s + 1 \in (B + 1)..Len(f[N])
    <3>1. Len(f[N]) \in Nat /\ at + e <= Len(f[N]) /\ at >= B
      BY <1>1, <1>3, LenProperties
    <3>2. at + a + 1 \in (B + 1)..Len(f[N])
      <4>1. \A v, x, y, z, l \in Nat : v < y /\ x + y <= l /\ x >= z => x + v + 1 \in (z + 1)..l
        OBVIOUS
      <4>2. at \in Nat
        BY <1>3
      <4> QED BY <2>1, <3>1, <4>1, <4>2, Zenon
    <3> QED BY <2>1, <3>2
  <2>3. d[s + 1] = w[n].at - s
    BY <1>1, <1>7, <1>13, <2>1, <2>2
  <2>4. w[n].at \in Nat
    BY <1>1, <1>13 DEF TailRun, Wrote
  <2>5. Follow(d, s) = w[n].at
    BY <2>1, <2>3, <2>4 DEF Follow, NumberAt
  <2>6. Keeps(f[N], w[n].buf, Len(StartOf(f, layout, n))) /\ Len(f[0]) <= Len(StartOf(f, layout, n))
    BY <1>1, <1>13
  <2>7. Len(f[N]) <= Len(d)
    BY DEF Keeps
  <2>8. Len(StartOf(f, layout, n)) \in Nat /\ B <= Len(StartOf(f, layout, n))
    <3>1. StartOf(f, layout, n) \in Seq(Cell)
      <4>1. n - 1 \in 0..Len(layout.tail)
        BY <1>1
      <4>2. f[n - 1] \in Seq(Cell)
        BY <4>1 DEF TailRun
      <4> QED BY <4>2, Starts DEF StartOf
    <3>2. Len(StartOf(f, layout, n)) \in Nat
      BY <3>1, LenProperties
    <3>3. B <= Len(f[0])
      <4>1. \A x, y, z, v \in Nat : x >= z + 4 + 2 * v => z <= x + y
        OBVIOUS
      <4>2. at \in Nat /\ at >= B + 4 + 2 * k /\ Len(f[0]) = at + e
        BY <1>3
      <4> QED BY <4>1, <4>2, Zenon
    <3> QED BY <1>1, <1>3, <2>6, <3>2, <3>3
  <2>9. Len(f[N]) \in Nat /\ Len(d) \in Nat /\ Len(w[n].buf) <= Len(f[N])
    BY <1>1, <1>7, <2>6, LenProperties DEF Keeps
  <2>10. Len(w[n].buf) \in Nat
    BY <1>1, <1>13, LenProperties DEF TailRun, Wrote, Continues
  <2>11. ASSUME NEW j \in (Len(StartOf(f, layout, n)) + 1)..Len(w[n].buf) PROVE d[j] = w[n].buf[j]
    <3>1. j \in (B + 1)..Len(f[N])
      BY <2>8, <2>9, <2>10, SMTT(30), ZenonT(30)
    <3>2. f[N][j] = w[n].buf[j]
      BY <2>6 DEF Keeps
    <3> QED BY <1>7, <3>1, <3>2
  <2> QED BY <1>7, <2>1, <2>5, <2>7, <2>9, <2>10, <2>11 DEF Keeps
<1> QED BY <1>2, <1>11, <1>12, <1>13 DEF HasFields
-----------------------------------------------------------------------------
(* Writing a table: its head, then part after part *)

\* A buffer after one more part, where w is what its writer returned.
Parted(layout, params, at, n, start, w) ==
    IF params[layout.tail[n][1]] = Absent THEN start
    ELSE Patch(w.buf, at + PlaceOf(layout, layout.tail[n][1]), w.at)

\* The buffers that may come after a head.
Behind(head) == {x \in Seq(Cell) : Len(head) <= Len(x)}

\* The buffers f and the writers' results w from one part to the next, where
\* W[<<n, x>>] is what the n-th writer returns for the buffer x.
RunsBy(f, w, W, h, layout, params) ==
    /\ f = [n \in 0..Len(layout.tail) |-> f[n]]
    /\ \A n \in 0..Len(layout.tail) : f[n] \in Behind(h.buf)
    /\ f[0] = h.buf
    /\ \A n \in 1..Len(layout.tail) :
         /\ w[n] = W[<<n, f[n - 1]>>]
         /\ f[n] = Parted(layout, params, h.at, n, StartOf(f, layout, n), w[n])
    /\ TailRun(f, w, h.at, layout, params)

\* Whatever writes the parts, as long as it writes behind what is there.
LEMMA TableRuns ==
    ASSUME NEW layout, NEW places, NEW params, Laid(layout, places), NEW b \in Seq(Cell),
           NEW h, HeadWritten(h.buf, b, h.at, layout, places, params), NEW N, N = Len(layout.tail),
           NEW W,
           \A n \in 1..N : \A x \in Behind(h.buf) :
               IsThere(layout, params, n) => Wrote(W[<<n, x>>], PartStart(x, layout.tail[n][2]))
    PROVE  \E f, w : RunsBy(f, w, W, h, layout, params)
<1>1. N \in Nat /\ \A n \in 1..N : layout.tail[n][1] \in DOMAIN layout.at
  <2>1. layout.tail \in Seq((DOMAIN layout.at) \X Types)
    BY DEF Laid
  <2> QED BY <2>1, ElementOfSeq, LenProperties
<1>2. PICK S : S = Behind(h.buf)
  OBVIOUS
<1>3. h.buf \in S /\ Len(h.buf) \in Nat /\ h.at \in Nat
  BY <1>2, LenProperties DEF HeadWritten, Continues, Behind
<1>4. \A n \in 1..N : h.at + PlaceOf(layout, layout.tail[n][1]) = SlotOf(layout, h.at, n)
  BY <1>1, PlaceIs DEF SlotOf
<1>5. \A n \in 1..N : SlotOf(layout, h.at, n) \in Nat /\ SlotOf(layout, h.at, n) < Len(h.buf)
  <2> SUFFICES ASSUME NEW n \in 1..N
               PROVE  SlotOf(layout, h.at, n) \in Nat /\ SlotOf(layout, h.at, n) < Len(h.buf)
    OBVIOUS
  <2>1. PICK a \in Nat, e \in Nat : a = layout.at[layout.tail[n][1]] /\ e = places[Len(layout.body) + 1] /\ a < e
    BY <1>1, FieldPlace, SMTT(30), ZenonT(30)
  <2>2. SlotOf(layout, h.at, n) = h.at + a /\ Len(h.buf) = h.at + e
    BY <2>1 DEF SlotOf, HeadWritten
  <2>3. \A i, x, y \in Nat : x < y => i + x \in Nat /\ i + x < i + y
    OBVIOUS
  <2>4. h.at + a \in Nat /\ h.at + a < h.at + e
    BY <1>3, <2>1, <2>3, Zenon
  <2> QED BY <2>2, <2>4, Zenon
<1>6. ASSUME NEW n \in 1..N, NEW x \in S
      PROVE  Parted(layout, params, h.at, n, PartStart(x, layout.tail[n][2]), W[<<n, x>>]) \in S
  <2>1. PICK y \in Seq(Cell) : y = PartStart(x, layout.tail[n][2]) /\ Len(h.buf) <= Len(y)
    <3>1. x \in Seq(Cell) /\ Len(h.buf) <= Len(x)
      BY <1>2 DEF Behind
    <3>2. PartStart(x, layout.tail[n][2]) \in Seq(Cell) /\ Continues(PartStart(x, layout.tail[n][2]), x)
      BY <3>1, Starts
    <3> QED BY <1>3, <3>1, <3>2, LenProperties DEF Continues
  <2>2. CASE params[layout.tail[n][1]] = Absent
    BY <1>2, <2>1, <2>2 DEF Parted, Behind
  <2>3. CASE params[layout.tail[n][1]] # Absent
    <3>1. PICK w : w = W[<<n, x>>] /\ Wrote(w, y)
      BY <1>2, <2>1, <2>3 DEF IsThere
    <3>2. w.buf \in Seq(Cell) /\ Len(y) <= Len(w.buf) /\ w.at \in Nat /\ w.at >= Len(y)
      BY <3>1 DEF Wrote, Continues
    <3>3. PICK s \in Nat : s = SlotOf(layout, h.at, n) /\ s < Len(h.buf)
      BY <1>5
    <3>4. s + 1 \in 1..Len(w.buf) /\ w.at >= s /\ Len(h.buf) <= Len(w.buf)
      <4>1. Len(y) \in Nat /\ Len(w.buf) \in Nat
        BY <3>2, LenProperties
      <4> QED BY <1>3, <2>1, <3>2, <3>3, <4>1
    <3>5. Patch(w.buf, s, w.at) \in Seq(Cell) /\ Len(Patch(w.buf, s, w.at)) = Len(w.buf)
      BY <3>2, <3>4, Patched
    <3>6. Parted(layout, params, h.at, n, PartStart(x, layout.tail[n][2]), W[<<n, x>>]) = Patch(w.buf, s, w.at)
      BY <1>4, <2>3, <3>1, <3>3 DEF Parted
    <3> QED BY <1>2, <3>4, <3>5, <3>6 DEF Behind
  <2> QED BY <2>2, <2>3
<1>7. PICK step \in [(1..N) \X S -> S] :
        \A n \in 1..N : \A x \in S :
            step[<<n, x>>] = Parted(layout, params, h.at, n, PartStart(x, layout.tail[n][2]), W[<<n, x>>])
  <2> DEFINE step == [y \in (1..N) \X S |->
                        Parted(layout, params, h.at, y[1], PartStart(y[2], layout.tail[y[1]][2]), W[<<y[1], y[2]>>])]
  <2>1. ASSUME NEW y \in (1..N) \X S
        PROVE  Parted(layout, params, h.at, y[1], PartStart(y[2], layout.tail[y[1]][2]), W[<<y[1], y[2]>>]) \in S
    <3>1. y[1] \in 1..N /\ y[2] \in S
      OBVIOUS
    <3> QED BY <1>6, <3>1
  <2>2. step \in [(1..N) \X S -> S]
    BY <2>1
  <2>3. ASSUME NEW n \in 1..N, NEW x \in S
        PROVE  step[<<n, x>>] = Parted(layout, params, h.at, n, PartStart(x, layout.tail[n][2]), W[<<n, x>>])
    <3>a. PICK y : y = <<n, x>>
      OBVIOUS
    <3>1. y \in (1..N) \X S /\ y[1] = n /\ y[2] = x
      BY <3>a
    <3>2. step[y] = Parted(layout, params, h.at, y[1], PartStart(y[2], layout.tail[y[1]][2]), W[<<y[1], y[2]>>])
      BY <3>1
    <3> HIDE DEF step
    <3> QED BY <3>a, <3>1, <3>2
  <2> HIDE DEF step
  <2> QED BY <2>2, <2>3
<1>8. PICK f \in [0..N -> S] : RecursiveTo(f, h.buf, N, step)
  BY <1>1, <1>3, RecursionTo
<1>9. f[0] = h.buf /\ \A n \in 1..N : f[n] = step[<<n, f[n - 1]>>]
  <2>1. \A n \in 0..N : f[n] = IF n = 0 THEN h.buf ELSE step[<<n, f[n - 1]>>]
    BY <1>8, Zenon DEF RecursiveTo
  <2>2. 0 \in 0..N /\ \A n \in 1..N : n \in 0..N /\ n # 0
    BY <1>1
  <2> QED BY <2>1, <2>2
<1>10. PICK w : w = [n \in 1..N |-> W[<<n, f[n - 1]>>]]
  OBVIOUS
<1>11. ASSUME NEW n \in 1..N
       PROVE  /\ w[n] = W[<<n, f[n - 1]>>] /\ f[n - 1] \in S /\ f[n] \in S
              /\ f[n] = Parted(layout, params, h.at, n, StartOf(f, layout, n), w[n])
  <2>1. n - 1 \in 0..N /\ n \in 0..N
    BY <1>1
  <2>2. f[n - 1] \in S /\ f[n] \in S
    BY <2>1
  <2> QED BY <1>7, <1>9, <1>10, <2>2 DEF StartOf
<1>12. TailRun(f, w, h.at, layout, params)
  <2>1. \A n \in 0..Len(layout.tail) : f[n] \in Seq(Cell)
    BY <1>2 DEF Behind
  <2>2. ASSUME NEW n \in 1..N
        PROVE  IF IsThere(layout, params, n)
               THEN /\ Wrote(w[n], StartOf(f, layout, n))
                    /\ f[n] = Patch(w[n].buf, SlotOf(layout, h.at, n), w[n].at)
               ELSE f[n] = StartOf(f, layout, n)
    <3>1. CASE IsThere(layout, params, n)
      <4>1. Wrote(w[n], StartOf(f, layout, n))
        BY <1>2, <1>11, <3>1 DEF StartOf
      <4> QED BY <1>4, <1>11, <3>1, <4>1 DEF Parted, IsThere
    <3>2. CASE ~IsThere(layout, params, n)
      BY <1>11, <3>2 DEF Parted, IsThere
    <3> QED BY <3>1, <3>2
  <2> QED BY <2>1, <2>2 DEF TailRun
<1> QED BY <1>2, <1>9, <1>11, <1>12 DEF RunsBy

\* A reader that follows an offset to `at` finds the bytes of v.
HasText(d, at, v) == SubSeq(d, at + 5, at + 4 + NumberAt(d, at)) = v

LEMMA BytesAt ==
    ASSUME NEW d \in Seq(Cell), NEW at \in Nat, NEW v \in Seq(Cell), NumberAt(d, at) = Len(v),
           at + 4 + Len(v) <= Len(d), \A i \in 1..Len(v) : d[at + 4 + i] = v[i]
    PROVE  HasText(d, at, v)
<1>1. PICK l \in Nat, m \in Nat : l = Len(v) /\ m = Len(d)
  BY LenProperties
<1>2. PICK a \in Int, e \in Int : a = at + 5 /\ e = at + 4 + l /\ e - a + 1 = l
  OBVIOUS
<1>3. \A i \in a..e : d[i] \in Cell
  <2>1. \A i \in a..e : i \in 1..m
    BY <1>1, <1>2
  <2> QED BY <1>1, <2>1, ElementOfSeq
<1>4. PICK s \in Seq(Cell) :
        /\ s = SubSeq(d, a, e) /\ Len(s) = (IF a <= e THEN e - a + 1 ELSE 0)
        /\ \A i \in 1..(e - a + 1) : s[i] = d[a + i - 1]
  <2>1. /\ SubSeq(d, a, e) \in Seq(Cell) /\ Len(SubSeq(d, a, e)) = (IF a <= e THEN e - a + 1 ELSE 0)
        /\ \A i \in 1..(e - a + 1) : SubSeq(d, a, e)[i] = d[a + i - 1]
    BY <1>3, SubSeqProperties
  <2> QED BY <2>1, Zenon
<1>5. Len(s) = l /\ \A i \in 1..l : s[i] = d[a + i - 1]
  <2>1. a <= e <=> l > 0
    BY <1>2
  <2> QED BY <1>2, <1>4, <2>1
<1>6. ASSUME NEW i \in 1..l PROVE s[i] = v[i]
  <2>1. a + i - 1 = at + 4 + i
    BY <1>2
  <2> QED BY <1>1, <1>5, <2>1
<1>7. s = v
  BY <1>1, <1>5, <1>6, SeqEqual
<1> QED BY <1>1, <1>2, <1>4, <1>7 DEF HasText

LEMMA ByteVectorIs ==
    ASSUME NEW v \in Seq(Cell)
    PROVE  /\ ByteVector(v) \in Seq(Cell) /\ Len(ByteVector(v)) = 4 + Len(v)
           /\ ByteVector(v)[1] = Len(v) /\ \A i \in 1..Len(v) : ByteVector(v)[4 + i] = v[i]
<1>1. Len(v) \in Nat /\ Len(v) \in Cell
  BY LenProperties, Cells
<1>2. PICK n \in Seq(Cell) : n = Number(4, Len(v)) /\ Len(n) = 4 /\ n[1] = Len(v)
  BY <1>1, Four
<1>3. PICK c \in Seq(Cell) :
        /\ c = n \o v /\ Continues(c, n) /\ Len(c) = Len(n) + Len(v)
        /\ \A i \in 1..Len(v) : c[Len(n) + i] = v[i]
  BY Put
<1>4. c[1] = n[1]
  BY <1>2, <1>3 DEF Continues
<1> QED BY <1>2, <1>3, <1>4 DEF ByteVector

\* A string ends with a zero.
Terminator(type) == IF type = "string" THEN 1 ELSE 0

LEMMA TextWritten ==
    ASSUME NEW b \in Seq(Cell), Len(b) % 4 = 0, NEW v \in Seq(Cell), NEW type,
           NEW w, w = AppendText(b, type, v)
    PROVE  /\ Wrote(w, b) /\ w.at = Len(b)
           /\ Len(w.buf) = Len(b) + 4 + Len(v) + Terminator(type)
           /\ \A d : Keeps(d, w.buf, Len(b)) => HasText(d, w.at, v)
<1>1. PICK B \in Nat, l \in Nat : B = Len(b) /\ l = Len(v)
  BY LenProperties
<1>2. PICK x \in Seq(Cell) :
        /\ x = (IF type = "string" THEN String(v) ELSE ByteVector(v))
        /\ Len(x) = 4 + l + (IF type = "string" THEN 1 ELSE 0)
        /\ x[1] = l /\ \A i \in 1..l : x[4 + i] = v[i]
  <2>1. PICK y \in Seq(Cell) : /\ y = ByteVector(v) /\ Len(y) = 4 + l
                              /\ y[1] = l /\ \A i \in 1..l : y[4 + i] = v[i]
    BY <1>1, ByteVectorIs
  <2>2. CASE type = "string"
    <3>1. PICK z \in Seq(Cell) : z = <<0>> /\ Len(z) = 1
      <4>1. 0 \in Cell
        BY Cells
      <4>2. <<0>> \in Seq(Cell) /\ Len(<<0>>) = 1
        BY <4>1
      <4> QED BY <4>2, Zenon
    <3>2. PICK c \in Seq(Cell) : c = y \o z /\ Continues(c, y) /\ Len(c) = Len(y) + Len(z)
      BY Put
    <3>3. c[1] = y[1] /\ \A i \in 1..l : c[4 + i] = y[4 + i]
      <4>1. 1 \in 1..Len(y) /\ \A i \in 1..l : 4 + i \in 1..Len(y)
        BY <2>1
      <4> QED BY <3>2, <4>1 DEF Continues
    <3>4. c = String(v)
      BY <2>1, <3>1, <3>2 DEF String
    <3>5. Len(c) = 4 + l + 1
      BY <2>1, <3>1, <3>2
    <3> QED BY <2>1, <2>2, <3>3, <3>4, <3>5
  <2>3. CASE type # "string"
    <3>1. Len(y) = 4 + l + 0
      BY <2>1
    <3> QED BY <2>1, <2>3, <3>1
  <2> QED BY <2>2, <2>3
<1>3. PICK c \in Seq(Cell) :
        /\ c = b \o x /\ Continues(c, b) /\ Len(c) = Len(b) + Len(x)
        /\ \A i \in 1..Len(x) : c[Len(b) + i] = x[i]
  BY Put
<1>4. w = [buf |-> c, at |-> B]
  BY <1>1, <1>2, <1>3 DEF AppendText
<1>5. w.buf = c /\ w.at = B /\ Wrote(w, b)
  BY <1>1, <1>3, <1>4 DEF Wrote
<1>6. Len(c) = B + 4 + l + (IF type = "string" THEN 1 ELSE 0)
  <2>1. type = "string" => Len(c) = B + (4 + l + 1)
    BY <1>1, <1>2, <1>3
  <2>2. type # "string" => Len(c) = B + (4 + l + 0)
    BY <1>1, <1>2, <1>3
  <2> QED BY <2>1, <2>2
<1>7. ASSUME NEW d, Keeps(d, c, B) PROVE HasText(d, B, v)
  <2>1. B + 4 + l <= Len(c) /\ Len(c) \in Nat
    BY <1>6
  <2>2. d \in Seq(Cell) /\ Len(c) <= Len(d) /\ Len(d) \in Nat /\ \A i \in (B + 1)..Len(c) : d[i] = c[i]
    BY <1>7, LenProperties DEF Keeps
  <2>3. \A i \in 1..(4 + l) : c[B + i] = x[i] /\ d[B + i] = c[B + i]
    <3>1. \A i \in 1..(4 + l) : i \in 1..Len(x)
      BY <1>2
    <3>2. \A i \in 1..(4 + l) : B + i \in (B + 1)..Len(c)
      BY <2>1
    <3> QED BY <1>1, <1>3, <2>2, <3>1, <3>2
  <2>4. NumberAt(d, B) = Len(v)
    <3>1. 1 \in 1..(4 + l)
      OBVIOUS
    <3> QED BY <1>1, <1>2, <2>3, <3>1 DEF NumberAt
  <2>5. ASSUME NEW i \in 1..l PROVE d[B + 4 + i] = v[i]
    <3>1. 4 + i \in 1..(4 + l) /\ B + (4 + i) = B + 4 + i
      OBVIOUS
    <3>2. d[B + (4 + i)] = x[4 + i]
      BY <2>3, <3>1
    <3> QED BY <1>2, <3>1, <3>2
  <2>6. B + 4 + Len(v) <= Len(d)
    BY <1>1, <2>1, <2>2
  <2> QED BY <1>1, <2>2, <2>4, <2>5, <2>6, BytesAt
<1> QED BY <1>1, <1>3, <1>5, <1>6, <1>7 DEF Terminator

\* A table all of whose offsets lead to texts, as a reader finds it.
IsTextTable(d, at, layout, params) ==
    /\ HasFields(d, at, layout, params)
    /\ \A n \in 1..Len(layout.tail) : IsThere(layout, params, n) =>
         LET p == Follow(d, SlotOf(layout, at, n))
         IN  p % 4 = 0 /\ HasText(d, p, The(params[layout.tail[n][1]]))

OnlyTexts(layout, params) ==
    \A n \in 1..Len(layout.tail) :
        /\ layout.tail[n][2] # "histogram"
        /\ IsThere(layout, params, n) => The(params[layout.tail[n][1]]) \in Seq(Cell)

\* How long the buffer is behind each text.
TextLengths(f, layout, params) ==
    \A n \in 1..Len(layout.tail) :
        /\ f[n - 1] \in Seq(Cell)
        /\ IsThere(layout, params, n) =>
             Len(f[n]) = Len(StartOf(f, layout, n)) + 4 + Len(The(params[layout.tail[n][1]]))
                           + Terminator(layout.tail[n][2])

LEMMA SameLength ==
    ASSUME NEW c \in Seq(Cell), NEW e \in Seq(Cell), NEW at, NEW target, e = Patch(c, at, target)
    PROVE  Len(e) = Len(c)
<1>1. PICK m \in Nat, n \in Nat : m = Len(c) /\ n = Len(e) /\ DOMAIN c = 1..m /\ DOMAIN e = 1..n
  BY LenProperties
<1>2. DOMAIN e = DOMAIN c
  BY DEF Patch
<1>3. \A i \in Nat : i \in 1..m <=> i \in 1..n
  BY <1>1, <1>2
<1>4. m <= n /\ n <= m
  <2>1. m \in 1..m => m \in 1..n
    BY <1>3
  <2>2. n \in 1..n => n \in 1..m
    BY <1>3
  <2> QED BY <2>1, <2>2
<1> QED BY <1>1, <1>4

\* t is what a table's head h and the parts f behind it come to, w being what
\* was written of each.
TableRun(f, w, t, h, layout, params) ==
    /\ t = [buf |-> f[Len(layout.tail)], at |-> h.at] /\ f[0] = h.buf
    /\ \A n \in 0..Len(layout.tail) : f[n] \in Behind(h.buf)
    /\ \A n \in 1..Len(layout.tail) :
         /\ f[n] = Parted(layout, params, h.at, n, StartOf(f, layout, n), w[n])
         /\ IsThere(layout, params, n) => Wrote(w[n], StartOf(f, layout, n))

TextsRun(f, w, layout, params) ==
    \A n \in 1..Len(layout.tail) :
        w[n] = AppendText(StartOf(f, layout, n), layout.tail[n][2], The(params[layout.tail[n][1]]))

LEMMA TextTable ==
    ASSUME NEW layout, NEW places, NEW params, Laid(layout, places), Fits(params, layout),
           OnlyTexts(layout, params), NEW b \in Seq(Cell), CanStart(layout, b),
           NEW t, t = TableInto(b, layout, params, AppendText)
    PROVE  /\ Wrote(t, b) /\ t.at = TableHead(b, layout, params).at
           /\ \A d : Keeps(d, t.buf, Len(b)) => IsTextTable(d, t.at, layout, params)
           /\ \E f : /\ f[0] = TableHead(b, layout, params).buf /\ f[Len(layout.tail)] = t.buf
                     /\ TextLengths(f, layout, params)
           /\ \E f, w : /\ TableRun(f, w, t, TableHead(b, layout, params), layout, params)
                        /\ TextsRun(f, w, layout, params)
<1>1. PICK N \in Nat : N = Len(layout.tail)
  BY LenProperties DEF Laid
<1>2. PICK h : h = TableHead(b, layout, params)
  OBVIOUS
<1>3. HeadWritten(h.buf, b, h.at, layout, places, params) /\ h = [buf |-> h.buf, at |-> h.at]
  BY <1>2, TableHeadWritten
<1>4. PICK S : S = Behind(h.buf)
  OBVIOUS
<1>5. PICK W : \A n \in 1..N : \A x \in S :
        W[<<n, x>>] = AppendText(PartStart(x, layout.tail[n][2]), layout.tail[n][2], The(params[layout.tail[n][1]]))
  <2> DEFINE W == [y \in (1..N) \X S |->
        AppendText(PartStart(y[2], layout.tail[y[1]][2]), layout.tail[y[1]][2], The(params[layout.tail[y[1]][1]]))]
  <2>1. ASSUME NEW n \in 1..N, NEW x \in S
        PROVE  W[<<n, x>>] = AppendText(PartStart(x, layout.tail[n][2]), layout.tail[n][2], The(params[layout.tail[n][1]]))
    <3>1. PICK y : y = <<n, x>>
      OBVIOUS
    <3>2. y \in (1..N) \X S /\ y[1] = n /\ y[2] = x
      BY <3>1
    <3>3. W[y] = AppendText(PartStart(y[2], layout.tail[y[1]][2]), layout.tail[y[1]][2], The(params[layout.tail[y[1]][1]]))
      BY <3>2
    <3> HIDE DEF W
    <3> QED BY <3>1, <3>2, <3>3
  <2> HIDE DEF W
  <2> QED BY <2>1
<1>6. ASSUME NEW n \in 1..N, NEW x \in S, IsThere(layout, params, n)
      PROVE  /\ Wrote(W[<<n, x>>], PartStart(x, layout.tail[n][2]))
             /\ Len(W[<<n, x>>].buf) = Len(PartStart(x, layout.tail[n][2])) + 4
                    + Len(The(params[layout.tail[n][1]])) + Terminator(layout.tail[n][2])
             /\ \A d : Keeps(d, W[<<n, x>>].buf, Len(PartStart(x, layout.tail[n][2])))
                         => HasText(d, W[<<n, x>>].at, The(params[layout.tail[n][1]]))
  <2>1. x \in Seq(Cell) /\ layout.tail[n][2] # "histogram" /\ The(params[layout.tail[n][1]]) \in Seq(Cell)
    BY <1>1, <1>4, <1>6 DEF Behind, OnlyTexts
  <2>2. PICK y \in Seq(Cell) : y = PartStart(x, layout.tail[n][2]) /\ Len(y) % 4 = 0
    BY <2>1, AlignedBehind DEF PartStart
  <2>3. PICK v, type, r :
          v \in Seq(Cell) /\ v = The(params[layout.tail[n][1]]) /\ type = layout.tail[n][2] /\ r = AppendText(y, type, v)
    BY <2>1
  <2>4. /\ Wrote(r, y) /\ \A d : Keeps(d, r.buf, Len(y)) => HasText(d, r.at, v)
        /\ Len(r.buf) = Len(y) + 4 + Len(v) + Terminator(type)
    <3>1. y \in Seq(Cell) /\ Len(y) % 4 = 0 /\ v \in Seq(Cell) /\ r = AppendText(y, type, v)
      BY <2>2, <2>3
    <3>2. Wrote(r, y) /\ \A d : Keeps(d, r.buf, Len(y)) => HasText(d, r.at, v)
      BY <2>2, <2>3, TextWritten
    <3>3. Len(r.buf) = Len(y) + 4 + Len(v) + Terminator(type)
      BY <3>1, TextWritten
    <3> QED BY <3>2, <3>3
  <2>5. W[<<n, x>>] = r
    BY <1>5, <2>2, <2>3
  <2> QED BY <2>2, <2>3, <2>4, <2>5
<1>7. PICK f, w :
        /\ \A n \in 0..N : f[n] \in S
        /\ f = [n \in 0..N |-> f[n]]
        /\ f[0] = h.buf
        /\ \A n \in 1..N : /\ w[n] = W[<<n, f[n - 1]>>]
                           /\ f[n] = Parted(layout, params, h.at, n, StartOf(f, layout, n), w[n])
        /\ TailRun(f, w, h.at, layout, params)
  <2>1. \A n \in 1..N : \A x \in Behind(h.buf) :
          IsThere(layout, params, n) => Wrote(W[<<n, x>>], PartStart(x, layout.tail[n][2]))
    BY <1>4, <1>6
  <2>2. PICK f, w : RunsBy(f, w, W, h, layout, params)
    BY <1>1, <1>3, <2>1, TableRuns
  <2> QED BY <1>1, <1>4, <2>2 DEF RunsBy
<1> DEFINE upTo[n \in 0..N] ==
        IF n = 0 THEN h.buf ELSE
            Parted(layout, params, h.at, n, PartStart(upTo[n - 1], layout.tail[n][2]),
                   AppendText(PartStart(upTo[n - 1], layout.tail[n][2]), layout.tail[n][2], The(params[layout.tail[n][1]])))
<1>8. t = [h EXCEPT !.buf = upTo[N]]
  BY <1>1, <1>2, Zenon DEF TableInto, upTo, Parted
<1>9. ASSUME NEW n \in 1..N
      PROVE  f[n] = Parted(layout, params, h.at, n, PartStart(f[n - 1], layout.tail[n][2]),
                        AppendText(PartStart(f[n - 1], layout.tail[n][2]), layout.tail[n][2], The(params[layout.tail[n][1]])))
  <2>1. f[n - 1] \in S
    <3>1. n - 1 \in 0..N
      OBVIOUS
    <3> QED BY <1>7, <3>1
  <2> QED BY <1>5, <1>7, <2>1 DEF StartOf
<1>10. \E g : g = [n \in 0..N |->
          IF n = 0 THEN h.buf ELSE
            Parted(layout, params, h.at, n, PartStart(g[n - 1], layout.tail[n][2]),
                   AppendText(PartStart(g[n - 1], layout.tail[n][2]), layout.tail[n][2], The(params[layout.tail[n][1]])))]
  <2>1. \A n \in 0..N : f[n] =
          IF n = 0 THEN h.buf ELSE
            Parted(layout, params, h.at, n, PartStart(f[n - 1], layout.tail[n][2]),
                   AppendText(PartStart(f[n - 1], layout.tail[n][2]), layout.tail[n][2], The(params[layout.tail[n][1]])))
    <3>1. \A n \in 0..N : n = 0 \/ (n # 0 /\ n \in 1..N)
      OBVIOUS
    <3> QED BY <1>7, <1>9, <3>1, Zenon
  <2>2. f = [n \in 0..N |-> f[n]]
    BY <1>7
  <2> QED BY <2>1, <2>2
<1>11. upTo = [n \in 0..N |->
          IF n = 0 THEN h.buf ELSE
            Parted(layout, params, h.at, n, PartStart(upTo[n - 1], layout.tail[n][2]),
                   AppendText(PartStart(upTo[n - 1], layout.tail[n][2]), layout.tail[n][2], The(params[layout.tail[n][1]])))]
  BY <1>10, Zenon DEF upTo
<1> HIDE DEF upTo
<1>12. upTo[N] = f[N]
  <2>1. \A n \in 0..N : upTo[n] =
          IF n = 0 THEN h.buf ELSE
            Parted(layout, params, h.at, n, PartStart(upTo[n - 1], layout.tail[n][2]),
                   AppendText(PartStart(upTo[n - 1], layout.tail[n][2]), layout.tail[n][2], The(params[layout.tail[n][1]])))
    BY <1>11, Zenon
  <2>2. 0 \in 0..N /\ N \in 0..N /\ \A n \in 1..N : n \in 0..N /\ n # 0
    OBVIOUS
  <2>3. upTo[0] = f[0]
    BY <1>7, <2>1, <2>2
  <2>4. \A n \in 1..N : upTo[n - 1] = f[n - 1] => upTo[n] = f[n]
    BY <1>9, <2>1, <2>2, Zenon
  <2>5. \A n \in 0..N : upTo[n] = f[n]
    BY <2>3, <2>4, SameTo, SMTT(30), ZenonT(30)
  <2> QED BY <2>2, <2>5
<1>13. t.buf = f[N] /\ t.at = h.at
  BY <1>3, <1>8, <1>12
<1>14. TailIsKept(f, w, b, h.at, layout, params, N)
  BY <1>1, <1>3, <1>7, TailKept
<1>15. Wrote(t, b)
  <2>1. h.at \in Nat /\ h.at % 4 = 0 /\ h.at >= Len(b)
    <3>1. h.at \in Nat /\ h.at % 4 = 0 /\ h.at >= Len(b) + 4 + 2 * Len(layout.fields)
      BY <1>3 DEF HeadWritten
    <3>2. Len(b) \in Nat /\ Len(layout.fields) \in Nat
      BY LenProperties DEF Laid
    <3>3. \A x, y, z \in Nat : x >= y + 4 + 2 * z => x >= y
      OBVIOUS
    <3> QED BY <3>1, <3>2, <3>3, Zenon
  <2> QED BY <1>13, <1>14, <2>1 DEF Wrote, TailIsKept
<1>16. ASSUME NEW d, Keeps(d, f[N], Len(b)) PROVE IsTextTable(d, h.at, layout, params)
  <2>1. /\ HasFields(d, h.at, layout, params)
        /\ \A n \in 1..N : IsThere(layout, params, n) =>
             /\ Follow(d, SlotOf(layout, h.at, n)) = w[n].at
             /\ Keeps(d, w[n].buf, Len(StartOf(f, layout, n)))
    BY <1>1, <1>3, <1>7, <1>16, TableKept
  <2>2. ASSUME NEW n \in 1..N, IsThere(layout, params, n)
        PROVE  w[n].at % 4 = 0 /\ HasText(d, w[n].at, The(params[layout.tail[n][1]]))
    <3>1. n - 1 \in 0..N /\ f[n - 1] \in S
      BY <1>7
    <3>2. w[n] = W[<<n, f[n - 1]>>] /\ Keeps(d, w[n].buf, Len(PartStart(f[n - 1], layout.tail[n][2])))
      BY <1>7, <2>1, <2>2 DEF StartOf
    <3> QED BY <1>6, <2>2, <3>1, <3>2 DEF Wrote
  <2> QED BY <1>1, <2>1, <2>2 DEF IsTextTable
<1>17. TextLengths(f, layout, params)
  <2>1. ASSUME NEW n \in 1..N, IsThere(layout, params, n)
        PROVE  Len(f[n]) = Len(StartOf(f, layout, n)) + 4 + Len(The(params[layout.tail[n][1]]))
                             + Terminator(layout.tail[n][2])
    <3>1. n - 1 \in 0..N /\ n \in 0..N
      OBVIOUS
    <3>2. PICK x \in S : x = f[n - 1] /\ w[n] = W[<<n, x>>] /\ f[n] \in Seq(Cell)
      BY <1>4, <1>7, <3>1 DEF Behind
    <3>3. PICK c \in Seq(Cell) :
            /\ c = w[n].buf
            /\ Len(c) = Len(StartOf(f, layout, n)) + 4 + Len(The(params[layout.tail[n][1]]))
                          + Terminator(layout.tail[n][2])
      BY <1>6, <2>1, <3>2 DEF StartOf, Wrote, Continues
    <3>4. f[n] = Patch(c, h.at + PlaceOf(layout, layout.tail[n][1]), w[n].at)
      BY <1>7, <2>1, <3>3 DEF Parted, IsThere
    <3>5. Len(f[n]) = Len(c)
      BY <3>2, <3>4, SameLength
    <3> QED BY <3>3, <3>5
  <2>2. \A n \in 1..N : f[n - 1] \in Seq(Cell)
    <3>1. \A n \in 1..N : n - 1 \in 0..N
      OBVIOUS
    <3> QED BY <1>4, <1>7, <3>1 DEF Behind
  <2> QED BY <1>1, <2>1, <2>2 DEF TextLengths
<1>18. f[0] = TableHead(b, layout, params).buf /\ f[Len(layout.tail)] = t.buf
  BY <1>1, <1>2, <1>7, <1>13
<1>19. TableRun(f, w, t, h, layout, params)
  <2>1. t = [buf |-> f[N], at |-> h.at]
    BY <1>3, <1>8, <1>12
  <2>2. \A n \in 1..N : IsThere(layout, params, n) => Wrote(w[n], StartOf(f, layout, n))
    BY <1>1, <1>7 DEF TailRun
  <2> QED BY <1>1, <1>4, <1>7, <2>1, <2>2 DEF TableRun
<1>20. TextsRun(f, w, layout, params)
  <2>1. ASSUME NEW n \in 1..N
        PROVE  w[n] = AppendText(StartOf(f, layout, n), layout.tail[n][2], The(params[layout.tail[n][1]]))
    <3>1. n - 1 \in 0..N
      OBVIOUS
    <3>2. PICK x \in S : x = f[n - 1] /\ w[n] = W[<<n, x>>]
      BY <1>7, <3>1
    <3> QED BY <1>5, <3>2 DEF StartOf
  <2> QED BY <1>1, <2>1 DEF TextsRun
<1>21. \E g : /\ g[0] = TableHead(b, layout, params).buf /\ g[Len(layout.tail)] = t.buf
              /\ TextLengths(g, layout, params)
  BY <1>17, <1>18
<1>22. \E g, v : TableRun(g, v, t, TableHead(b, layout, params), layout, params) /\ TextsRun(g, v, layout, params)
  BY <1>2, <1>19, <1>20
<1> QED BY <1>2, <1>13, <1>15, <1>16, <1>21, <1>22
-----------------------------------------------------------------------------
(* Writing a vector of tables *)

\* The slots are patched one after the other.
SlotRun(p, c, slots, tables, N, e) ==
    /\ p[0] = c /\ p[N] = e /\ \A n \in 0..N : p[n] \in Seq(Cell)
    /\ \A n \in 1..N : p[n] = Patch(p[n - 1], slots + 4 * (n - 1), tables[n])

LEMMA SlotsPatched ==
    ASSUME NEW c \in Seq(Cell), NEW slots \in Nat, NEW tables \in Seq(Nat), NEW N, N = Len(tables),
           \A n \in 1..N : slots + 4 * n <= Len(c) /\ tables[n] >= slots + 4 * n
    PROVE  /\ PatchSlots(c, slots, tables) \in Seq(Cell) /\ Len(PatchSlots(c, slots, tables)) = Len(c)
           /\ \A n \in 1..N :
                PatchSlots(c, slots, tables)[slots + 4 * (n - 1) + 1] = tables[n] - (slots + 4 * (n - 1))
           /\ \A j \in 1..Len(c) :
                j <= slots \/ j > slots + 4 * N => PatchSlots(c, slots, tables)[j] = c[j]
           /\ \E p : SlotRun(p, c, slots, tables, N, PatchSlots(c, slots, tables))
<1>1. N \in Nat /\ (\A n \in 1..N : tables[n] \in Nat) /\ Len(c) \in Nat
  BY ElementOfSeq, LenProperties
<1>2. PICK S : S = {x \in Seq(Cell) : Len(x) = Len(c)}
  OBVIOUS
<1>3. \A n \in 1..N : /\ slots + 4 * (n - 1) \in Nat /\ slots + 4 * (n - 1) + 1 \in 1..Len(c)
                      /\ tables[n] >= slots + 4 * (n - 1)
  <2>1. \A x \in Nat, y \in 1..N : x + 4 * (y - 1) \in Nat /\ x + 4 * (y - 1) + 1 \in 1..(x + 4 * y)
                                   /\ x + 4 * (y - 1) <= x + 4 * y /\ x + 4 * y \in Nat
    BY <1>1
  <2> SUFFICES ASSUME NEW n \in 1..N
               PROVE  /\ slots + 4 * (n - 1) \in Nat /\ slots + 4 * (n - 1) + 1 \in 1..Len(c)
                      /\ tables[n] >= slots + 4 * (n - 1)
    OBVIOUS
  <2>2. PICK s \in Nat, e \in Nat : s = slots + 4 * (n - 1) /\ e = slots + 4 * n /\ s + 1 \in 1..e /\ s <= e
    BY <2>1
  <2>3. e <= Len(c) /\ tables[n] >= e /\ tables[n] \in Nat
    BY <1>1, <2>2
  <2>4. s + 1 \in 1..Len(c) /\ tables[n] >= s
    BY <1>1, <2>2, <2>3
  <2> QED BY <2>2, <2>4
<1>4. ASSUME NEW n \in 1..N, NEW x \in S
      PROVE  /\ Patch(x, slots + 4 * (n - 1), tables[n]) \in S
             /\ \A j \in 1..Len(c) : Patch(x, slots + 4 * (n - 1), tables[n])[j] =
                  IF j = slots + 4 * (n - 1) + 1 THEN tables[n] - (slots + 4 * (n - 1)) ELSE x[j]
  <2>1. PICK s \in Nat, t \in Nat : s = slots + 4 * (n - 1) /\ t = tables[n] /\ s + 1 \in 1..Len(c) /\ t >= s
    BY <1>1, <1>3
  <2>2. x \in Seq(Cell) /\ Len(x) = Len(c)
    BY <1>2
  <2>3. /\ Patch(x, s, t) \in Seq(Cell) /\ Len(Patch(x, s, t)) = Len(x)
        /\ \A j \in 1..Len(x) : Patch(x, s, t)[j] = IF j = s + 1 THEN t - s ELSE x[j]
    BY <2>1, <2>2, Patched
  <2> QED BY <1>2, <2>1, <2>2, <2>3
<1>5. PICK step :
        /\ step \in [(1..N) \X S -> S]
        /\ \A n \in 1..N : \A x \in S : step[<<n, x>>] = Patch(x, slots + 4 * (n - 1), tables[n])
  <2> DEFINE step == [y \in (1..N) \X S |-> Patch(y[2], slots + 4 * (y[1] - 1), tables[y[1]])]
  <2>1. ASSUME NEW y \in (1..N) \X S PROVE Patch(y[2], slots + 4 * (y[1] - 1), tables[y[1]]) \in S
    <3>1. y[1] \in 1..N /\ y[2] \in S
      OBVIOUS
    <3> QED BY <1>4, <3>1
  <2>2. step \in [(1..N) \X S -> S]
    BY <2>1
  <2>3. ASSUME NEW n \in 1..N, NEW x \in S PROVE step[<<n, x>>] = Patch(x, slots + 4 * (n - 1), tables[n])
    <3>a. PICK y : y = <<n, x>>
      OBVIOUS
    <3>1. y \in (1..N) \X S /\ y[1] = n /\ y[2] = x
      BY <3>a
    <3>2. step[y] = Patch(y[2], slots + 4 * (y[1] - 1), tables[y[1]])
      BY <3>1
    <3> HIDE DEF step
    <3> QED BY <3>a, <3>1, <3>2
  <2> HIDE DEF step
  <2> QED BY <2>2, <2>3
<1>6. PICK f : f \in [0..N -> S] /\ RecursiveTo(f, c, N, step)
  <2>1. c \in S
    BY <1>2
  <2>2. PICK q \in [(1..N) \X S -> S] : q = step
    BY <1>5
  <2> QED BY <1>1, <2>1, <2>2, RecursionTo
<1>7. f[0] = c /\ \A n \in 1..N : f[n] = step[<<n, f[n - 1]>>]
  <2>1. \A n \in 0..N : f[n] = IF n = 0 THEN c ELSE step[<<n, f[n - 1]>>]
    BY <1>6, Zenon DEF RecursiveTo
  <2>2. 0 \in 0..N /\ \A n \in 1..N : n \in 0..N /\ n # 0
    BY <1>1
  <2> QED BY <2>1, <2>2
<1>8. ASSUME NEW n \in 1..N
      PROVE  /\ f[n - 1] \in S /\ f[n] \in S
             /\ f[n] = Patch(f[n - 1], slots + 4 * (n - 1), tables[n])
             /\ \A j \in 1..Len(c) :
                  f[n][j] = IF j = slots + 4 * (n - 1) + 1 THEN tables[n] - (slots + 4 * (n - 1)) ELSE f[n - 1][j]
  <2>1. n - 1 \in 0..N /\ n \in 0..N
    BY <1>1
  <2>2. f[n - 1] \in S /\ f[n] \in S
    BY <1>6, <2>1
  <2>3. f[n] = Patch(f[n - 1], slots + 4 * (n - 1), tables[n])
    BY <1>5, <1>7, <2>2
  <2>4. PICK x \in S : x = f[n - 1]
    BY <2>2
  <2>5. \A j \in 1..Len(c) : Patch(x, slots + 4 * (n - 1), tables[n])[j] =
          IF j = slots + 4 * (n - 1) + 1 THEN tables[n] - (slots + 4 * (n - 1)) ELSE x[j]
    BY <1>4
  <2> QED BY <2>2, <2>3, <2>4, <2>5, Zenon
<1> DEFINE patched[n \in 0..N] == IF n = 0 THEN c ELSE Patch(patched[n - 1], slots + 4 * (n - 1), tables[n])
<1>9. PatchSlots(c, slots, tables) = patched[N]
  BY Zenon DEF PatchSlots, patched
<1>10. \E g : g = [n \in 0..N |-> IF n = 0 THEN c ELSE Patch(g[n - 1], slots + 4 * (n - 1), tables[n])]
  <2>1. \A n \in 0..N : f[n] = IF n = 0 THEN c ELSE Patch(f[n - 1], slots + 4 * (n - 1), tables[n])
    <3>1. \A n \in 0..N : n = 0 \/ (n # 0 /\ n \in 1..N)
      OBVIOUS
    <3> QED BY <1>7, <1>8, <3>1, Zenon
  <2>2. f = [n \in 0..N |-> f[n]]
    BY <1>6
  <2> QED BY <2>1, <2>2
<1>11. patched = [n \in 0..N |-> IF n = 0 THEN c ELSE Patch(patched[n - 1], slots + 4 * (n - 1), tables[n])]
  BY <1>10, Zenon DEF patched
<1> HIDE DEF patched
<1>12. patched[N] = f[N]
  <2>1. \A n \in 0..N : patched[n] = IF n = 0 THEN c ELSE Patch(patched[n - 1], slots + 4 * (n - 1), tables[n])
    BY <1>11, Zenon
  <2>2. 0 \in 0..N /\ N \in 0..N /\ \A n \in 1..N : n \in 0..N /\ n # 0
    BY <1>1
  <2>3. patched[0] = f[0]
    BY <1>7, <2>1, <2>2
  <2>4. ASSUME NEW n \in 1..N, patched[n - 1] = f[n - 1] PROVE patched[n] = f[n]
    <3>1. patched[n] = Patch(patched[n - 1], slots + 4 * (n - 1), tables[n])
      BY <2>1, <2>2, Zenon
    <3>2. f[n] = Patch(f[n - 1], slots + 4 * (n - 1), tables[n])
      BY <1>8
    <3> QED BY <2>4, <3>1, <3>2, Zenon
  <2>5. \A n \in 0..N : patched[n] = f[n]
    <3>1. Alike(N, patched, f)
      BY <1>1, <2>3, <2>4, Zenon DEF Alike
    <3> QED BY <3>1, AlikeTo, Zenon
  <2> QED BY <2>2, <2>5
<1>13. PICK P, slot, val :
        /\ P = 1..N
        /\ slot = [n \in 1..N |-> slots + 4 * (n - 1) + 1]
        /\ val = [n \in 1..N |-> tables[n] - (slots + 4 * (n - 1))]
  OBVIOUS
<1>14. Grows(f, N, P, slot, val)
  <2>1. \A n \in 0..N : f[n] \in Seq(Cell) /\ Len(f[n]) = Len(c)
    BY <1>2, <1>6
  <2>2. \A n \in P : slot[n] \in 1..Len(f[0])
    BY <1>3, <1>7, <1>13
  <2>3. \A n, k \in P : slot[n] = slot[k] => n = k
    <3>1. \A n, k \in 1..N : slots + 4 * (n - 1) + 1 = slots + 4 * (k - 1) + 1 => n = k
      BY <1>1
    <3> QED BY <1>13, <3>1
  <2>4. ASSUME NEW n \in 1..N
        PROVE  /\ Len(f[n - 1]) <= Len(f[n])
               /\ \A j \in 1..Len(f[n - 1]) :
                    f[n][j] = IF n \in P /\ j = slot[n] THEN val[n] ELSE f[n - 1][j]
    <3>1. n - 1 \in 0..N /\ n \in 0..N
      BY <1>1
    <3>2. Len(f[n - 1]) = Len(c) /\ Len(f[n]) = Len(c)
      BY <2>1, <3>1
    <3>3. n \in P /\ slot[n] = slots + 4 * (n - 1) + 1 /\ val[n] = tables[n] - (slots + 4 * (n - 1))
      BY <1>13
    <3>4. \A j \in 1..Len(c) : f[n][j] = IF j = slot[n] THEN val[n] ELSE f[n - 1][j]
      BY <1>8, <3>3
    <3> QED BY <1>1, <3>2, <3>3, <3>4
  <2> QED BY <2>1, <2>2, <2>3, <2>4 DEF Grows
<1>15. Grown(f, N, P, slot, val)
  BY <1>1, <1>13, <1>14, Chain
<1>16. f[N] \in Seq(Cell) /\ Len(f[N]) = Len(c)
  <2>1. N \in 0..N
    BY <1>1
  <2> QED BY <1>2, <1>6, <2>1
<1>17. \A n \in 1..N : f[N][slots + 4 * (n - 1) + 1] = tables[n] - (slots + 4 * (n - 1))
  BY <1>13, <1>15 DEF Grown
<1>18. ASSUME NEW j \in 1..Len(c), j <= slots \/ j > slots + 4 * N PROVE f[N][j] = c[j]
  <2>1. \A n \in P : j # slot[n]
    <3> SUFFICES ASSUME NEW n \in 1..N PROVE j # slots + 4 * (n - 1) + 1
      BY <1>13
    <3>1. j \in Nat
      OBVIOUS
    <3> QED BY <1>1, <1>18, <3>1
  <2>2. 0 \in 0..N
    BY <1>1
  <2> QED BY <1>7, <1>15, <2>1, <2>2 DEF Grown
<1>19. SlotRun(f, c, slots, tables, N, f[N])
  <2>1. \A n \in 0..N : f[n] \in Seq(Cell)
    BY <1>2, <1>6
  <2> QED BY <1>7, <1>8, <2>1 DEF SlotRun
<1> QED BY <1>9, <1>12, <1>16, <1>17, <1>18, <1>19

LEMMA Tuples == \A n \in Nat : \A S : \A s \in [1..n -> S] : s \in Seq(S) /\ Len(s) = n
<1> SUFFICES ASSUME NEW n \in Nat, NEW S, NEW s \in [1..n -> S] PROVE s \in Seq(S) /\ Len(s) = n
  OBVIOUS
<1>1. s \in Seq(S) /\ DOMAIN s = 1..n
  BY SeqDef
<1> QED BY <1>1, LenProperties

\* The same by the numbers of fields, parts of the body and parts of the tail.
Lays(layout, places, F, B, T) ==
    /\ layout.fields \in [1..F -> Names] /\ F > 0
    /\ \A i, j \in 1..F : layout.fields[i] = layout.fields[j] => i = j
    /\ layout.size \in Nat
    /\ \/ layout.pad = ToAlign
       \/ layout.pad \in Nat /\ (4 + 2 * F + layout.pad) % 4 = 0
    /\ layout.body \in [1..B -> Names \X (Nat \ {0})] /\ B > 0
    /\ \A m, n \in 1..B : layout.body[m][1] = layout.body[n][1] => m = n
    /\ places \in [1..(B + 1) -> Nat] /\ places[1] = 4
    /\ \A n \in 1..B : places[n + 1] = places[n] + layout.body[n][2]
    /\ \A name \in DOMAIN layout.at :
         \E n \in 1..B : layout.body[n][1] = name /\ layout.at[name] = places[n]
    /\ layout.tail \in [1..T -> (DOMAIN layout.at) \X Types]
    /\ \A m, n \in 1..T : layout.tail[m][1] = layout.tail[n][1] => m = n

LEMMA LaysIsLaid ==
    ASSUME NEW layout, NEW places, NEW F \in Nat, NEW B \in Nat, NEW T \in Nat, Lays(layout, places, F, B, T)
    PROVE  /\ Laid(layout, places)
           /\ Len(layout.fields) = F /\ Len(layout.body) = B /\ Len(layout.tail) = T
<1>1. layout.fields \in Seq(Names) /\ Len(layout.fields) = F /\ layout.fields # <<>>
  <2>1. layout.fields \in Seq(Names) /\ Len(layout.fields) = F /\ F > 0
    BY Tuples DEF Lays
  <2> QED BY <2>1, EmptySeq
<1>2. layout.body \in Seq(Names \X (Nat \ {0})) /\ Len(layout.body) = B /\ layout.body # <<>>
  <2>1. PICK X : X = Names \X (Nat \ {0})
    OBVIOUS
  <2>2. layout.body \in Seq(X) /\ Len(layout.body) = B /\ B > 0
    BY <2>1, Tuples DEF Lays
  <2> QED BY <2>1, <2>2, EmptySeq
<1>3. layout.tail \in Seq((DOMAIN layout.at) \X Types) /\ Len(layout.tail) = T
  <2>1. PICK X : X = (DOMAIN layout.at) \X Types
    OBVIOUS
  <2>2. layout.tail \in Seq(X) /\ Len(layout.tail) = T
    BY <2>1, Tuples DEF Lays
  <2> QED BY <2>1, <2>2
<1> QED BY <1>1, <1>2, <1>3, Zenon DEF Lays, Laid

EventPlaces == <<4, 8, 12, 16, 20, 28, 29, 32, 36>>

LEMMA EventLaid ==
    /\ Laid(EventTable, EventPlaces)
    /\ Len(EventTable.fields) = 7 /\ Len(EventTable.body) = 8 /\ Len(EventTable.tail) = 5
<1>1. PICK F, B, T, A : F = EventTable.fields /\ B = EventTable.body /\ T = EventTable.tail /\ A = EventTable.at
  OBVIOUS
<1>2. F \in [1..7 -> Names]
  BY <1>1 DEF EventTable, Names
<1>3. \A i, j \in 1..7 : F[i] = F[j] => i = j
  BY <1>1 DEF EventTable
<1>4. B \in [1..8 -> Names \X (Nat \ {0})]
  <2>1. \A i \in 1..8 : B[i] \in Names \X (Nat \ {0})
    BY <1>1 DEF EventTable, Names
  <2>2. B = [i \in 1..8 |-> B[i]]
    BY <1>1 DEF EventTable
  <2> QED BY <2>1, <2>2
<1>5. \A i, j \in 1..8 : B[i][1] = B[j][1] => i = j
  BY <1>1 DEF EventTable
<1>6. EventPlaces \in [1..(8 + 1) -> Nat] /\ EventPlaces[1] = 4
  BY DEF EventPlaces
<1>7. \A n \in 1..8 : EventPlaces[n + 1] = EventPlaces[n] + B[n][2]
  BY <1>1 DEF EventTable, EventPlaces
<1>8. \A name \in DOMAIN A : \E n \in 1..8 : B[n][1] = name /\ A[name] = EventPlaces[n]
  BY <1>1 DEF EventTable, EventSlots, EventPlaces
<1>9. T \in [1..5 -> (DOMAIN A) \X Types]
  <2>1. \A i \in 1..5 : T[i] \in (DOMAIN A) \X Types
    BY <1>1 DEF EventTable, EventSlots, Types
  <2>2. T = [i \in 1..5 |-> T[i]]
    BY <1>1 DEF EventTable
  <2> QED BY <2>1, <2>2
<1>10. \A m, n \in 1..5 : T[m][1] = T[n][1] => m = n
  BY <1>1 DEF EventTable
<1>11. EventTable.size \in Nat /\ (EventTable.pad = ToAlign \/ (EventTable.pad \in Nat /\ (4 + 2 * 7 + EventTable.pad) % 4 = 0))
  BY DEF EventTable
<1>12. Lays(EventTable, EventPlaces, 7, 8, 5)
  <2>1. 7 > 0 /\ 8 > 0
    OBVIOUS
  <2> QED BY <1>1, <1>2, <1>3, <1>4, <1>5, <1>6, <1>7, <1>8, <1>9, <1>10, <1>11, <2>1, SMTT(30), ZenonT(30) DEF Lays
<1>13. 7 \in Nat /\ 8 \in Nat /\ 5 \in Nat
  OBVIOUS
<1> QED BY <1>12, <1>13, LaysIsLaid, Zenon

LogPlaces == <<4, 8, 12, 16, 20, 28, 29, 30, 32>>

LEMMA LogLaid ==
    /\ Laid(LogTable, LogPlaces)
    /\ Len(LogTable.fields) = 7 /\ Len(LogTable.body) = 8 /\ Len(LogTable.tail) = 4
<1>1. PICK F, B, T, A : F = LogTable.fields /\ B = LogTable.body /\ T = LogTable.tail /\ A = LogTable.at
  OBVIOUS
<1>2. F \in [1..7 -> Names]
  BY <1>1 DEF LogTable, Names
<1>3. \A i, j \in 1..7 : F[i] = F[j] => i = j
  BY <1>1 DEF LogTable
<1>4. B \in [1..8 -> Names \X (Nat \ {0})]
  <2>1. \A i \in 1..8 : B[i] \in Names \X (Nat \ {0})
    BY <1>1 DEF LogTable, Names
  <2>2. B = [i \in 1..8 |-> B[i]]
    BY <1>1 DEF LogTable
  <2> QED BY <2>1, <2>2
<1>5. \A i, j \in 1..8 : B[i][1] = B[j][1] => i = j
  BY <1>1 DEF LogTable
<1>6. LogPlaces \in [1..(8 + 1) -> Nat] /\ LogPlaces[1] = 4
  BY DEF LogPlaces
<1>7. \A n \in 1..8 : LogPlaces[n + 1] = LogPlaces[n] + B[n][2]
  BY <1>1 DEF LogTable, LogPlaces
<1>8. \A name \in DOMAIN A : \E n \in 1..8 : B[n][1] = name /\ A[name] = LogPlaces[n]
  BY <1>1 DEF LogTable, LogPlaces
<1>9. T \in [1..4 -> (DOMAIN A) \X Types]
  <2>1. \A i \in 1..4 : T[i] \in (DOMAIN A) \X Types
    BY <1>1 DEF LogTable, Types
  <2>2. T = [i \in 1..4 |-> T[i]]
    BY <1>1 DEF LogTable
  <2> QED BY <2>1, <2>2
<1>10. \A m, n \in 1..4 : T[m][1] = T[n][1] => m = n
  BY <1>1 DEF LogTable
<1>11. LogTable.size \in Nat /\ (LogTable.pad = ToAlign \/ (LogTable.pad \in Nat /\ (4 + 2 * 7 + LogTable.pad) % 4 = 0))
  BY DEF LogTable
<1>12. Lays(LogTable, LogPlaces, 7, 8, 4)
  <2>1. 7 > 0 /\ 8 > 0
    OBVIOUS
  <2> QED BY <1>1, <1>2, <1>3, <1>4, <1>5, <1>6, <1>7, <1>8, <1>9, <1>10, <1>11, <2>1, SMTT(30), ZenonT(30) DEF Lays
<1>13. 7 \in Nat /\ 8 \in Nat /\ 4 \in Nat
  OBVIOUS
<1> QED BY <1>12, <1>13, LaysIsLaid, Zenon

MetricPlaces == <<4, 8, 12, 16, 20, 24, 28, 32, 40, 48, 49, 50, 52>>

LEMMA MetricLaid ==
    /\ Laid(MetricTable, MetricPlaces)
    /\ Len(MetricTable.fields) = 11 /\ Len(MetricTable.body) = 12 /\ Len(MetricTable.tail) = 6
<1>1. PICK F, B, T, A : F = MetricTable.fields /\ B = MetricTable.body /\ T = MetricTable.tail /\ A = MetricTable.at
  OBVIOUS
<1>2. F \in [1..11 -> Names]
  BY <1>1 DEF MetricTable, Names
<1>3. \A i, j \in 1..11 : F[i] = F[j] => i = j
  BY <1>1 DEF MetricTable
<1>4. B \in [1..12 -> Names \X (Nat \ {0})]
  <2>1. \A i \in 1..12 : B[i] \in Names \X (Nat \ {0})
    BY <1>1 DEF MetricTable, Names
  <2>2. B = [i \in 1..12 |-> B[i]]
    BY <1>1 DEF MetricTable
  <2> QED BY <2>1, <2>2
<1>5. \A i, j \in 1..12 : B[i][1] = B[j][1] => i = j
  BY <1>1 DEF MetricTable
<1>6. MetricPlaces \in [1..(12 + 1) -> Nat] /\ MetricPlaces[1] = 4
  BY DEF MetricPlaces
<1>7. \A n \in 1..12 : MetricPlaces[n + 1] = MetricPlaces[n] + B[n][2]
  BY <1>1 DEF MetricTable, MetricPlaces
<1>8. \A name \in DOMAIN A : \E n \in 1..12 : B[n][1] = name /\ A[name] = MetricPlaces[n]
  BY <1>1 DEF MetricTable, MetricPlaces
<1>9. T \in [1..6 -> (DOMAIN A) \X Types]
  <2>1. \A i \in 1..6 : T[i] \in (DOMAIN A) \X Types
    BY <1>1 DEF MetricTable, Types
  <2>2. T = [i \in 1..6 |-> T[i]]
    BY <1>1 DEF MetricTable
  <2> QED BY <2>1, <2>2
<1>10. \A m, n \in 1..6 : T[m][1] = T[n][1] => m = n
  BY <1>1 DEF MetricTable
<1>11. MetricTable.size \in Nat /\ (MetricTable.pad = ToAlign \/ (MetricTable.pad \in Nat /\ (4 + 2 * 11 + MetricTable.pad) % 4 = 0))
  BY DEF MetricTable
<1>12. Lays(MetricTable, MetricPlaces, 11, 12, 6)
  <2>1. 11 > 0 /\ 12 > 0
    OBVIOUS
  <2>2. MetricTable.fields \in [1..11 -> Names] /\ \A i, j \in 1..11 : MetricTable.fields[i] = MetricTable.fields[j] => i = j
    BY <1>1, <1>2, <1>3, Zenon
  <2>3. /\ MetricTable.body \in [1..12 -> Names \X (Nat \ {0})]
        /\ \A i, j \in 1..12 : MetricTable.body[i][1] = MetricTable.body[j][1] => i = j
        /\ \A n \in 1..12 : MetricPlaces[n + 1] = MetricPlaces[n] + MetricTable.body[n][2]
    BY <1>1, <1>4, <1>5, <1>7, Zenon
  <2>4. \A name \in DOMAIN MetricTable.at :
          \E n \in 1..12 : MetricTable.body[n][1] = name /\ MetricTable.at[name] = MetricPlaces[n]
    BY <1>1, <1>8, Zenon
  <2>5. /\ MetricTable.tail \in [1..6 -> (DOMAIN MetricTable.at) \X Types]
        /\ \A m, n \in 1..6 : MetricTable.tail[m][1] = MetricTable.tail[n][1] => m = n
    BY <1>1, <1>9, <1>10, Zenon
  <2> QED BY <1>6, <1>11, <2>1, <2>2, <2>3, <2>4, <2>5, Zenon DEF Lays
<1>13. 11 \in Nat /\ 12 \in Nat /\ 6 \in Nat
  OBVIOUS
<1> QED BY <1>12, <1>13, LaysIsLaid, Zenon

LabelPlaces == <<4, 8, 12>>

LEMMA LabelLaid ==
    /\ Laid(LabelTable, LabelPlaces)
    /\ Len(LabelTable.fields) = 2 /\ Len(LabelTable.body) = 2 /\ Len(LabelTable.tail) = 2
<1>1. PICK F, B, T, A : F = LabelTable.fields /\ B = LabelTable.body /\ T = LabelTable.tail /\ A = LabelTable.at
  OBVIOUS
<1>2. F \in [1..2 -> Names]
  BY <1>1 DEF LabelTable, Names
<1>3. \A i, j \in 1..2 : F[i] = F[j] => i = j
  BY <1>1 DEF LabelTable
<1>4. B \in [1..2 -> Names \X (Nat \ {0})]
  <2>1. \A i \in 1..2 : B[i] \in Names \X (Nat \ {0})
    BY <1>1 DEF LabelTable, Names
  <2>2. B = [i \in 1..2 |-> B[i]]
    BY <1>1 DEF LabelTable
  <2> QED BY <2>1, <2>2
<1>5. \A i, j \in 1..2 : B[i][1] = B[j][1] => i = j
  BY <1>1 DEF LabelTable
<1>6. LabelPlaces \in [1..(2 + 1) -> Nat] /\ LabelPlaces[1] = 4
  BY DEF LabelPlaces
<1>7. \A n \in 1..2 : LabelPlaces[n + 1] = LabelPlaces[n] + B[n][2]
  BY <1>1 DEF LabelTable, LabelPlaces
<1>8. \A name \in DOMAIN A : \E n \in 1..2 : B[n][1] = name /\ A[name] = LabelPlaces[n]
  BY <1>1 DEF LabelTable, LabelPlaces
<1>9. T \in [1..2 -> (DOMAIN A) \X Types]
  <2>1. \A i \in 1..2 : T[i] \in (DOMAIN A) \X Types
    BY <1>1 DEF LabelTable, Types
  <2>2. T = [i \in 1..2 |-> T[i]]
    BY <1>1 DEF LabelTable
  <2> QED BY <2>1, <2>2
<1>10. \A m, n \in 1..2 : T[m][1] = T[n][1] => m = n
  BY <1>1 DEF LabelTable
<1>11. LabelTable.size \in Nat /\ (LabelTable.pad = ToAlign \/ (LabelTable.pad \in Nat /\ (4 + 2 * 2 + LabelTable.pad) % 4 = 0))
  BY DEF LabelTable
<1>12. Lays(LabelTable, LabelPlaces, 2, 2, 2)
  <2>1. 2 > 0 /\ 2 > 0
    OBVIOUS
  <2> QED BY <1>1, <1>2, <1>3, <1>4, <1>5, <1>6, <1>7, <1>8, <1>9, <1>10, <1>11, <2>1, SMTT(30), ZenonT(30) DEF Lays
<1>13. 2 \in Nat /\ 2 \in Nat /\ 2 \in Nat
  OBVIOUS
<1> QED BY <1>12, <1>13, LaysIsLaid, Zenon

HistogramPlaces == <<4, 12, 20, 24, 32, 40>>

LEMMA HistogramLaid ==
    /\ Laid(HistogramTable, HistogramPlaces)
    /\ Len(HistogramTable.fields) = 5 /\ Len(HistogramTable.body) = 5 /\ Len(HistogramTable.tail) = 1
<1>1. PICK F, B, T, A : F = HistogramTable.fields /\ B = HistogramTable.body /\ T = HistogramTable.tail /\ A = HistogramTable.at
  OBVIOUS
<1>2. F \in [1..5 -> Names]
  BY <1>1 DEF HistogramTable, Names
<1>3. \A i, j \in 1..5 : F[i] = F[j] => i = j
  BY <1>1 DEF HistogramTable
<1>4. B \in [1..5 -> Names \X (Nat \ {0})]
  <2>1. \A i \in 1..5 : B[i] \in Names \X (Nat \ {0})
    BY <1>1 DEF HistogramTable, Names
  <2>2. B = [i \in 1..5 |-> B[i]]
    BY <1>1 DEF HistogramTable
  <2> QED BY <2>1, <2>2
<1>5. \A i, j \in 1..5 : B[i][1] = B[j][1] => i = j
  BY <1>1 DEF HistogramTable
<1>6. HistogramPlaces \in [1..(5 + 1) -> Nat] /\ HistogramPlaces[1] = 4
  BY DEF HistogramPlaces
<1>7. \A n \in 1..5 : HistogramPlaces[n + 1] = HistogramPlaces[n] + B[n][2]
  BY <1>1 DEF HistogramTable, HistogramPlaces
<1>8. \A name \in DOMAIN A : \E n \in 1..5 : B[n][1] = name /\ A[name] = HistogramPlaces[n]
  BY <1>1 DEF HistogramTable, HistogramPlaces
<1>9. T \in [1..1 -> (DOMAIN A) \X Types]
  <2>1. \A i \in 1..1 : T[i] \in (DOMAIN A) \X Types
    BY <1>1 DEF HistogramTable, Types
  <2>2. T = [i \in 1..1 |-> T[i]]
    BY <1>1 DEF HistogramTable
  <2> QED BY <2>1, <2>2
<1>10. \A m, n \in 1..1 : T[m][1] = T[n][1] => m = n
  BY <1>1 DEF HistogramTable
<1>11. HistogramTable.size \in Nat /\ HistogramTable.pad = ToAlign
  BY DEF HistogramTable
<1>12. Lays(HistogramTable, HistogramPlaces, 5, 5, 1)
  <2>1. 5 > 0 /\ 5 > 0
    OBVIOUS
  <2> QED BY <1>1, <1>2, <1>3, <1>4, <1>5, <1>6, <1>7, <1>8, <1>9, <1>10, <1>11, <2>1, SMTT(30), ZenonT(30) DEF Lays
<1>13. 5 \in Nat /\ 5 \in Nat /\ 1 \in Nat
  OBVIOUS
<1> QED BY <1>12, <1>13, LaysIsLaid, Zenon

BucketPlaces == <<4, 12, 20>>

LEMMA BucketLaid ==
    /\ Laid(BucketTable, BucketPlaces)
    /\ Len(BucketTable.fields) = 2 /\ Len(BucketTable.body) = 2 /\ Len(BucketTable.tail) = 0
<1>1. PICK F, B, T, A : F = BucketTable.fields /\ B = BucketTable.body /\ T = BucketTable.tail /\ A = BucketTable.at
  OBVIOUS
<1>2. F \in [1..2 -> Names]
  BY <1>1 DEF BucketTable, Names
<1>3. \A i, j \in 1..2 : F[i] = F[j] => i = j
  BY <1>1 DEF BucketTable
<1>4. B \in [1..2 -> Names \X (Nat \ {0})]
  <2>1. \A i \in 1..2 : B[i] \in Names \X (Nat \ {0})
    BY <1>1 DEF BucketTable, Names
  <2>2. B = [i \in 1..2 |-> B[i]]
    BY <1>1 DEF BucketTable
  <2> QED BY <2>1, <2>2
<1>5. \A i, j \in 1..2 : B[i][1] = B[j][1] => i = j
  BY <1>1 DEF BucketTable
<1>6. BucketPlaces \in [1..(2 + 1) -> Nat] /\ BucketPlaces[1] = 4
  BY DEF BucketPlaces
<1>7. \A n \in 1..2 : BucketPlaces[n + 1] = BucketPlaces[n] + B[n][2]
  BY <1>1 DEF BucketTable, BucketPlaces
<1>8. \A name \in DOMAIN A : \E n \in 1..2 : B[n][1] = name /\ A[name] = BucketPlaces[n]
  BY <1>1 DEF BucketTable, BucketPlaces
<1>9. T \in [1..0 -> (DOMAIN A) \X Types]
  <2>1. \A i \in 1..0 : T[i] \in (DOMAIN A) \X Types
    BY <1>1 DEF BucketTable, Types
  <2>2. T = [i \in 1..0 |-> T[i]]
    BY <1>1 DEF BucketTable
  <2> QED BY <2>1, <2>2
<1>10. \A m, n \in 1..0 : T[m][1] = T[n][1] => m = n
  BY <1>1 DEF BucketTable
<1>11. BucketTable.size \in Nat /\ BucketTable.pad = ToAlign
  BY DEF BucketTable
<1>12. Lays(BucketTable, BucketPlaces, 2, 2, 0)
  <2>1. 2 > 0 /\ 2 > 0
    OBVIOUS
  <2> QED BY <1>1, <1>2, <1>3, <1>4, <1>5, <1>6, <1>7, <1>8, <1>9, <1>10, <1>11, <2>1, SMTT(30), ZenonT(30) DEF Lays
<1>13. 2 \in Nat /\ 2 \in Nat /\ 0 \in Nat
  OBVIOUS
<1> QED BY <1>12, <1>13, LaysIsLaid, Zenon

BatchPlaces == <<4, 8, 12, 16, 24, 25, 26, 28>>

LEMMA BatchLaid ==
    /\ Laid(BatchTable, BatchPlaces)
    /\ Len(BatchTable.fields) = 6 /\ Len(BatchTable.body) = 7 /\ Len(BatchTable.tail) = 2
<1>1. PICK F, B, T, A : F = BatchTable.fields /\ B = BatchTable.body /\ T = BatchTable.tail /\ A = BatchTable.at
  OBVIOUS
<1>2. F \in [1..6 -> Names]
  BY <1>1 DEF BatchTable, Names
<1>3. \A i, j \in 1..6 : F[i] = F[j] => i = j
  BY <1>1 DEF BatchTable
<1>4. B \in [1..7 -> Names \X (Nat \ {0})]
  <2>1. \A i \in 1..7 : B[i] \in Names \X (Nat \ {0})
    BY <1>1 DEF BatchTable, Names
  <2>2. B = [i \in 1..7 |-> B[i]]
    BY <1>1 DEF BatchTable
  <2> QED BY <2>1, <2>2
<1>5. \A i, j \in 1..7 : B[i][1] = B[j][1] => i = j
  BY <1>1 DEF BatchTable
<1>6. BatchPlaces \in [1..(7 + 1) -> Nat] /\ BatchPlaces[1] = 4
  BY DEF BatchPlaces
<1>7. \A n \in 1..7 : BatchPlaces[n + 1] = BatchPlaces[n] + B[n][2]
  BY <1>1 DEF BatchTable, BatchPlaces
<1>8. \A name \in DOMAIN A : \E n \in 1..7 : B[n][1] = name /\ A[name] = BatchPlaces[n]
  BY <1>1 DEF BatchTable, BatchPlaces
<1>9. T \in [1..2 -> (DOMAIN A) \X Types]
  <2>1. \A i \in 1..2 : T[i] \in (DOMAIN A) \X Types
    BY <1>1 DEF BatchTable, Types
  <2>2. T = [i \in 1..2 |-> T[i]]
    BY <1>1 DEF BatchTable
  <2> QED BY <2>1, <2>2
<1>10. \A m, n \in 1..2 : T[m][1] = T[n][1] => m = n
  BY <1>1 DEF BatchTable
<1>11. BatchTable.size \in Nat /\ (BatchTable.pad = ToAlign \/ (BatchTable.pad \in Nat /\ (4 + 2 * 6 + BatchTable.pad) % 4 = 0))
  BY DEF BatchTable
<1>12. Lays(BatchTable, BatchPlaces, 6, 7, 2)
  <2>1. 6 > 0 /\ 7 > 0
    OBVIOUS
  <2> QED BY <1>1, <1>2, <1>3, <1>4, <1>5, <1>6, <1>7, <1>8, <1>9, <1>10, <1>11, <2>1, SMTT(30), ZenonT(30) DEF Lays
<1>13. 6 \in Nat /\ 7 \in Nat /\ 2 \in Nat
  OBVIOUS
<1> QED BY <1>12, <1>13, LaysIsLaid, Zenon

\* What comes of a table's head and the parts that run behind it.
Made(f, w, h, b, layout, params) ==
    /\ Continues(f[Len(layout.tail)], b) /\ h.at \in Nat /\ h.at % 4 = 0 /\ h.at >= Len(b)
    /\ \A d : Keeps(d, f[Len(layout.tail)], Len(b)) =>
         /\ HasFields(d, h.at, layout, params)
         /\ \A n \in 1..Len(layout.tail) : IsThere(layout, params, n) =>
              /\ Follow(d, SlotOf(layout, h.at, n)) = w[n].at
              /\ Keeps(d, w[n].buf, Len(StartOf(f, layout, n)))

\* The writers W go by their layout: each puts its part where the part begins.
Writers(W, h, layout, params) ==
    \A n \in 1..Len(layout.tail) : \A x \in Behind(h.buf) :
        IsThere(layout, params, n) => Wrote(W[<<n, x>>], PartStart(x, layout.tail[n][2]))

LEMMA TableMade ==
    ASSUME NEW layout, NEW places, NEW params, Laid(layout, places), Fits(params, layout),
           NEW b \in Seq(Cell), CanStart(layout, b), NEW h, h = TableHead(b, layout, params),
           NEW W, Writers(W, h, layout, params)
    PROVE  \E f, w : RunsBy(f, w, W, h, layout, params) /\ Made(f, w, h, b, layout, params)
<1>1. PICK N \in Nat : N = Len(layout.tail)
  BY LenProperties DEF Laid
<1>3. HeadWritten(h.buf, b, h.at, layout, places, params) /\ h = [buf |-> h.buf, at |-> h.at]
  BY TableHeadWritten
<1>7. PICK f, w : RunsBy(f, w, W, h, layout, params)
  <2>1. \A n \in 1..N : \A x \in Behind(h.buf) :
          IsThere(layout, params, n) => Wrote(W[<<n, x>>], PartStart(x, layout.tail[n][2]))
    BY <1>1 DEF Writers
  <2> QED BY <1>1, <1>3, <2>1, TableRuns
<1>8. f[0] = h.buf /\ TailRun(f, w, h.at, layout, params)
  BY <1>7 DEF RunsBy
<1>14. TailIsKept(f, w, b, h.at, layout, params, N)
  BY <1>1, <1>3, <1>8, TailKept
<1>15. h.at \in Nat /\ h.at % 4 = 0 /\ h.at >= Len(b)
  <2>1. h.at \in Nat /\ h.at % 4 = 0 /\ h.at >= Len(b) + 4 + 2 * Len(layout.fields)
    BY <1>3 DEF HeadWritten
  <2>2. Len(b) \in Nat /\ Len(layout.fields) \in Nat
    BY LenProperties DEF Laid
  <2>3. \A x, y, z \in Nat : x >= y + 4 + 2 * z => x >= y
    OBVIOUS
  <2> QED BY <2>1, <2>2, <2>3, Zenon
<1>16. ASSUME NEW d, Keeps(d, f[N], Len(b))
       PROVE  /\ HasFields(d, h.at, layout, params)
              /\ \A n \in 1..N : IsThere(layout, params, n) =>
                   /\ Follow(d, SlotOf(layout, h.at, n)) = w[n].at
                   /\ Keeps(d, w[n].buf, Len(StartOf(f, layout, n)))
  BY <1>1, <1>3, <1>8, <1>16, TableKept
<1>17. Continues(f[N], b)
  BY <1>14 DEF TailIsKept
<1> QED BY <1>1, <1>7, <1>15, <1>16, <1>17 DEF Made

\* The writers W are those of AppendAny.
WritesAny(W, h, layout, params) ==
    \A n \in 1..Len(layout.tail) : \A x \in Behind(h.buf) :
        W[<<n, x>>] = AppendAny(PartStart(x, layout.tail[n][2]), layout.tail[n][2], The(params[layout.tail[n][1]]))

\* A table is what its writers make of it.
LEMMA AnyTableIs ==
    ASSUME NEW layout, NEW params, Len(layout.tail) \in Nat, NEW b,
           NEW h, h = TableHead(b, layout, params), h = [buf |-> h.buf, at |-> h.at],
           NEW W, NEW f, NEW w, RunsBy(f, w, W, h, layout, params),
           WritesAny(W, h, layout, params)
    PROVE  TableInto(b, layout, params, AppendAny) = [buf |-> f[Len(layout.tail)], at |-> h.at]
<1>1. PICK N \in Nat : N = Len(layout.tail)
  OBVIOUS
<1>2. /\ \A n \in 0..N : f[n] \in Behind(h.buf)
      /\ f = [n \in 0..N |-> f[n]]
      /\ f[0] = h.buf
      /\ \A n \in 1..N : /\ w[n] = W[<<n, f[n - 1]>>]
                         /\ f[n] = Parted(layout, params, h.at, n, StartOf(f, layout, n), w[n])
  BY <1>1 DEF RunsBy
<1> DEFINE upTo[n \in 0..N] ==
        IF n = 0 THEN h.buf ELSE
            Parted(layout, params, h.at, n, PartStart(upTo[n - 1], layout.tail[n][2]),
                   AppendAny(PartStart(upTo[n - 1], layout.tail[n][2]), layout.tail[n][2], The(params[layout.tail[n][1]])))
<1>8. TableInto(b, layout, params, AppendAny) = [h EXCEPT !.buf = upTo[N]]
  BY <1>1, Zenon DEF TableInto, upTo, Parted
<1>9. ASSUME NEW n \in 1..N
      PROVE  f[n] = Parted(layout, params, h.at, n, PartStart(f[n - 1], layout.tail[n][2]),
                        AppendAny(PartStart(f[n - 1], layout.tail[n][2]), layout.tail[n][2], The(params[layout.tail[n][1]])))
  <2>1. f[n - 1] \in Behind(h.buf)
    <3>1. n - 1 \in 0..N
      OBVIOUS
    <3> QED BY <1>2, <3>1
  <2> QED BY <1>1, <1>2, <2>1 DEF StartOf, WritesAny
<1>10. \E g : g = [n \in 0..N |->
          IF n = 0 THEN h.buf ELSE
            Parted(layout, params, h.at, n, PartStart(g[n - 1], layout.tail[n][2]),
                   AppendAny(PartStart(g[n - 1], layout.tail[n][2]), layout.tail[n][2], The(params[layout.tail[n][1]])))]
  <2>1. \A n \in 0..N : f[n] =
          IF n = 0 THEN h.buf ELSE
            Parted(layout, params, h.at, n, PartStart(f[n - 1], layout.tail[n][2]),
                   AppendAny(PartStart(f[n - 1], layout.tail[n][2]), layout.tail[n][2], The(params[layout.tail[n][1]])))
    <3>1. \A n \in 0..N : n = 0 \/ (n # 0 /\ n \in 1..N)
      OBVIOUS
    <3> QED BY <1>2, <1>9, <3>1, Zenon
  <2>2. f = [n \in 0..N |-> f[n]]
    BY <1>2
  <2> QED BY <2>1, <2>2
<1>11. upTo = [n \in 0..N |->
          IF n = 0 THEN h.buf ELSE
            Parted(layout, params, h.at, n, PartStart(upTo[n - 1], layout.tail[n][2]),
                   AppendAny(PartStart(upTo[n - 1], layout.tail[n][2]), layout.tail[n][2], The(params[layout.tail[n][1]])))]
  BY <1>10, Zenon DEF upTo
<1> HIDE DEF upTo
<1>12. upTo[N] = f[N]
  <2>1. \A n \in 0..N : upTo[n] =
          IF n = 0 THEN h.buf ELSE
            Parted(layout, params, h.at, n, PartStart(upTo[n - 1], layout.tail[n][2]),
                   AppendAny(PartStart(upTo[n - 1], layout.tail[n][2]), layout.tail[n][2], The(params[layout.tail[n][1]])))
    BY <1>11, Zenon
  <2>2. 0 \in 0..N /\ N \in 0..N /\ \A n \in 1..N : n \in 0..N /\ n # 0
    OBVIOUS
  <2>3. upTo[0] = f[0]
    BY <1>2, <2>1, <2>2
  <2>4. \A n \in 1..N : upTo[n - 1] = f[n - 1] => upTo[n] = f[n]
    BY <1>9, <2>1, <2>2, Zenon
  <2>5. \A n \in 0..N : upTo[n] = f[n]
    BY <2>3, <2>4, SameTo
  <2> QED BY <2>2, <2>5
<1> QED BY <1>1, <1>8, <1>12

\* What the writers of a vector's tables leave: g the buffers and tables so far.
VectorRunsBy(g, w, W, b, N) ==
    /\ N \in Nat /\ g = [n \in 0..N |-> g[n]]
    /\ g[0] = [buf |-> VectorHead(b, N), tables |-> <<>>]
    /\ \A n \in 0..N : g[n] \in [buf : Behind(VectorHead(b, N)), tables : Seq(Nat)]
    /\ \A n \in 1..N :
         /\ w[n] = W[<<n, g[n - 1].buf>>]
         /\ g[n] = [buf |-> w[n].buf, tables |-> Append(g[n - 1].tables, w[n].at)]
         /\ Wrote(w[n], Align4(g[n - 1].buf))

VectorWriters(W, b, N) ==
    \A n \in 1..N : \A x \in Behind(VectorHead(b, N)) : Wrote(W[<<n, x>>], Align4(x))

LEMMA VectorHeadIs ==
    ASSUME NEW b \in Seq(Cell), NEW N \in Nat
    PROVE  /\ VectorHead(b, N) \in Seq(Cell) /\ Continues(VectorHead(b, N), b)
           /\ Len(VectorHead(b, N)) = Len(b) + 4 + 4 * N
           /\ VectorHead(b, N)[Len(b) + 1] = N
<1>1. N \in Cell
  BY Cells
<1>2. PICK x \in Seq(Cell) : x = Number(4, N) /\ Len(x) = 4 /\ x[1] = N
  BY <1>1, Four
<1>3. PICK c \in Seq(Cell) :
        /\ c = b \o x /\ Continues(c, b) /\ Len(c) = Len(b) + Len(x)
        /\ \A i \in 1..Len(x) : c[Len(b) + i] = x[i]
  BY Put
<1>4. PICK m \in Nat : m = 4 * N
  OBVIOUS
<1>5. PICK z \in Seq(Cell) : z = Zeros(m) /\ Len(z) = m
  BY <1>4, ZerosAre
<1>6. PICK e \in Seq(Cell) :
        /\ e = c \o z /\ Continues(e, c) /\ Len(e) = Len(c) + Len(z)
        /\ \A i \in 1..Len(z) : e[Len(c) + i] = z[i]
  BY Put
<1>7. VectorHead(b, N) = e
  BY <1>2, <1>3, <1>4, <1>5, <1>6 DEF VectorHead
<1>8. Len(b) \in Nat
  BY LenProperties
<1>9. Continues(e, b)
  BY <1>3, <1>6, Continued
<1>10. Len(e) = Len(b) + 4 + 4 * N
  BY <1>2, <1>3, <1>4, <1>5, <1>6
<1>11. e[Len(b) + 1] = N
  <2>1. 1 \in 1..4 /\ Len(b) + 1 \in 1..(Len(b) + 4)
    BY <1>8
  <2>2. c[Len(b) + 1] = N
    BY <1>2, <1>3, <2>1
  <2>3. Len(c) = Len(b) + 4
    BY <1>2, <1>3
  <2> QED BY <1>6, <2>1, <2>2, <2>3 DEF Continues
<1> QED BY <1>7, <1>9, <1>10, <1>11

LEMMA VectorRuns ==
    ASSUME NEW b \in Seq(Cell), NEW N \in Nat, NEW W, VectorWriters(W, b, N)
    PROVE  \E g, w : VectorRunsBy(g, w, W, b, N)
<1>1. PICK H : H = VectorHead(b, N)
  OBVIOUS
<1>2. H \in Behind(H)
  BY <1>1, VectorHeadIs, LenProperties DEF Behind
<1>3. PICK S : S = [buf : Behind(H), tables : Seq(Nat)]
  OBVIOUS
<1>4. ASSUME NEW n \in 1..N, NEW s \in S
      PROVE  /\ Wrote(W[<<n, s.buf>>], Align4(s.buf))
             /\ [buf |-> W[<<n, s.buf>>].buf, tables |-> Append(s.tables, W[<<n, s.buf>>].at)] \in S
  <2>1. s.buf \in Behind(H) /\ s.tables \in Seq(Nat)
    BY <1>3
  <2>2. PICK r : r = W[<<n, s.buf>>] /\ Wrote(r, Align4(s.buf))
    BY <1>1, <2>1 DEF VectorWriters
  <2>3. s.buf \in Seq(Cell) /\ Len(H) <= Len(s.buf)
    BY <2>1 DEF Behind
  <2>4. Align4(s.buf) \in Seq(Cell) /\ Len(s.buf) <= Len(Align4(s.buf))
    BY <2>3, AlignedBehind DEF Continues
  <2>5. r.buf \in Seq(Cell) /\ Len(Align4(s.buf)) <= Len(r.buf) /\ r.at \in Nat
    BY <2>2 DEF Wrote, Continues
  <2>6. Len(H) \in Nat /\ Len(s.buf) \in Nat /\ Len(Align4(s.buf)) \in Nat /\ Len(r.buf) \in Nat
    BY <1>1, <2>3, <2>4, <2>5, VectorHeadIs, LenProperties
  <2>7. r.buf \in Behind(H)
    BY <2>3, <2>4, <2>5, <2>6 DEF Behind
  <2>8. Append(s.tables, r.at) \in Seq(Nat)
    BY <2>1, <2>5, AppendProperties
  <2> QED BY <1>3, <2>2, <2>7, <2>8
<1>5. PICK step :
        /\ step \in [(1..N) \X S -> S]
        /\ \A n \in 1..N : \A s \in S :
             step[<<n, s>>] = [buf |-> W[<<n, s.buf>>].buf, tables |-> Append(s.tables, W[<<n, s.buf>>].at)]
  <2> DEFINE step == [y \in (1..N) \X S |->
        [buf |-> W[<<y[1], y[2].buf>>].buf, tables |-> Append(y[2].tables, W[<<y[1], y[2].buf>>].at)]]
  <2>1. ASSUME NEW y \in (1..N) \X S
        PROVE  [buf |-> W[<<y[1], y[2].buf>>].buf, tables |-> Append(y[2].tables, W[<<y[1], y[2].buf>>].at)] \in S
    <3>1. y[1] \in 1..N /\ y[2] \in S
      OBVIOUS
    <3> QED BY <1>4, <3>1
  <2>2. step \in [(1..N) \X S -> S]
    BY <2>1
  <2>3. ASSUME NEW n \in 1..N, NEW s \in S
        PROVE  step[<<n, s>>] = [buf |-> W[<<n, s.buf>>].buf, tables |-> Append(s.tables, W[<<n, s.buf>>].at)]
    <3>a. PICK y : y = <<n, s>>
      OBVIOUS
    <3>1. y \in (1..N) \X S /\ y[1] = n /\ y[2] = s
      BY <3>a
    <3>2. step[y] = [buf |-> W[<<y[1], y[2].buf>>].buf, tables |-> Append(y[2].tables, W[<<y[1], y[2].buf>>].at)]
      BY <3>1
    <3> HIDE DEF step
    <3> QED BY <3>a, <3>1, <3>2
  <2> HIDE DEF step
  <2> QED BY <2>2, <2>3
<1>6. PICK z : z = [buf |-> H, tables |-> <<>>]
  OBVIOUS
<1>7. PICK g : g \in [0..N -> S] /\ RecursiveTo(g, z, N, step)
  <2>1. <<>> \in Seq(Nat)
    BY EmptySeq
  <2>2. z \in S
    BY <1>2, <1>3, <1>6, <2>1
  <2>3. PICK q \in [(1..N) \X S -> S] : q = step
    BY <1>5
  <2> QED BY <2>2, <2>3, RecursionTo
<1>8. g[0] = z /\ \A n \in 1..N : g[n] = step[<<n, g[n - 1]>>]
  <2>1. \A n \in 0..N : g[n] = IF n = 0 THEN z ELSE step[<<n, g[n - 1]>>]
    BY <1>7, Zenon DEF RecursiveTo
  <2>2. 0 \in 0..N /\ \A n \in 1..N : n \in 0..N /\ n # 0
    OBVIOUS
  <2> QED BY <2>1, <2>2
<1>9. PICK w : \A n \in 1..N : w[n] = W[<<n, g[n - 1].buf>>]
  <2> DEFINE w == [n \in 1..N |-> W[<<n, g[n - 1].buf>>]]
  <2>1. \A n \in 1..N : w[n] = W[<<n, g[n - 1].buf>>]
    OBVIOUS
  <2> HIDE DEF w
  <2> QED BY <2>1
<1>10. ASSUME NEW n \in 1..N
       PROVE  /\ g[n] = [buf |-> w[n].buf, tables |-> Append(g[n - 1].tables, w[n].at)]
              /\ Wrote(w[n], Align4(g[n - 1].buf))
  <2>1. PICK s \in S : s = g[n - 1]
    <3>1. n - 1 \in 0..N
      OBVIOUS
    <3> QED BY <1>7, <3>1
  <2>2. w[n] = W[<<n, s.buf>>] /\ g[n] = step[<<n, s>>]
    BY <1>8, <1>9, <2>1
  <2>3. g[n] = [buf |-> W[<<n, s.buf>>].buf, tables |-> Append(s.tables, W[<<n, s.buf>>].at)]
    BY <1>5, <2>2
  <2> QED BY <1>4, <2>1, <2>2, <2>3
<1>11. g = [n \in 0..N |-> g[n]] /\ \A n \in 0..N : g[n] \in S
  BY <1>7
<1>12. VectorRunsBy(g, w, W, b, N)
  BY <1>1, <1>3, <1>6, <1>8, <1>9, <1>10, <1>11 DEF VectorRunsBy
<1> QED BY <1>12

VectorMade(c, g, w, b, N) ==
    /\ Continues(c, b) /\ Len(b) + 4 <= Len(c)
    /\ \A d : Keeps(d, c, Len(b)) =>
         /\ NumberAt(d, Len(b)) = N
         /\ \A n \in 1..N :
              /\ Follow(d, Len(b) + 4 * n) = w[n].at
              /\ Keeps(d, w[n].buf, Len(Align4(g[n - 1].buf)))

\* c is what a vector's head and the tables behind it come to: g the buffers
\* and tables so far, w what was written of each, p the patched slots.
VectorRun(g, w, p, c, b, N) ==
    /\ N \in Nat /\ g[0] = [buf |-> VectorHead(b, N), tables |-> <<>>]
    /\ \A n \in 0..N : g[n] \in [buf : Behind(VectorHead(b, N)), tables : Seq(Nat)]
    /\ \A n \in 1..N :
         /\ g[n] = [buf |-> w[n].buf, tables |-> Append(g[n - 1].tables, w[n].at)]
         /\ Wrote(w[n], Align4(g[n - 1].buf))
    /\ Len(g[N].tables) = N /\ SlotRun(p, g[N].buf, Len(b) + 4, g[N].tables, N, c)

\* The slots of a vector, L being where it starts and e where its slots end.
LEMMA SlotNumbers ==
    \A L, N \in Nat : \A n \in 1..N :
        /\ L + 4 + 4 * (n - 1) = L + 4 * n /\ L + 4 * n \in Nat
        /\ L + 4 + 4 * n <= L + 4 + 4 * N /\ L + 4 + 4 * n \in Nat /\ L + 4 + 4 * N \in Nat
        /\ L + 4 * n + 1 > L /\ L + 4 * n + 1 <= L + 4 + 4 * N
OBVIOUS

SlotsOf(x, c, slots, tables, N) ==
    /\ x \in Seq(Cell) /\ Len(x) = Len(c)
    /\ \A n \in 1..N : x[slots + 4 * (n - 1) + 1] = tables[n] - (slots + 4 * (n - 1))
    /\ \A j \in 1..Len(c) : j <= slots \/ j > slots + 4 * N => x[j] = c[j]

LEMMA SlotsArePatched ==
    ASSUME NEW c \in Seq(Cell), NEW slots \in Nat, NEW tables \in Seq(Nat), NEW N, N = Len(tables),
           \A n \in 1..N : slots + 4 * n <= Len(c) /\ tables[n] >= slots + 4 * n
    PROVE  SlotsOf(PatchSlots(c, slots, tables), c, slots, tables, N)
BY SlotsPatched, ZenonT(60) DEF SlotsOf

LEMMA VectorKept ==
    ASSUME NEW b \in Seq(Cell), NEW N, NEW W, NEW g, NEW w, VectorRunsBy(g, w, W, b, N),
           NEW c, c = PatchSlots(g[N].buf, Len(b) + 4, g[N].tables)
    PROVE  VectorMade(c, g, w, b, N) /\ \E p : VectorRun(g, w, p, c, b, N)
<1>1. PICK M \in Nat, L \in Nat, H \in Seq(Cell), e \in Nat :
        /\ M = N /\ L = Len(b) /\ H = VectorHead(b, N) /\ Len(H) = e /\ e = L + 4 + 4 * M
        /\ H[L + 1] = M /\ \A j \in 1..L : H[j] = b[j]
  <2>1. N \in Nat /\ Len(b) \in Nat
    BY LenProperties DEF VectorRunsBy
  <2>2. /\ VectorHead(b, N) \in Seq(Cell) /\ Continues(VectorHead(b, N), b)
        /\ Len(VectorHead(b, N)) = Len(b) + 4 + 4 * N /\ VectorHead(b, N)[Len(b) + 1] = N
    BY <2>1, VectorHeadIs
  <2> QED BY <2>1, <2>2, LenProperties DEF Continues
<1>2. PICK f : f = [n \in 0..M |-> g[n].buf]
  OBVIOUS
<1>3. \A n \in 0..M : /\ f[n] = g[n].buf /\ f[n] \in Seq(Cell) /\ Len(f[n]) \in Nat /\ e <= Len(f[n])
                      /\ g[n].tables \in Seq(Nat)
  <2>1. \A n \in 0..M : g[n].buf \in Behind(H) /\ g[n].tables \in Seq(Nat)
    BY <1>1 DEF VectorRunsBy
  <2> QED BY <1>1, <1>2, <2>1, LenProperties DEF Behind
<1>4. f[0] = H /\ g[0].tables = <<>>
  <2>1. g[0] = [buf |-> H, tables |-> <<>>]
    BY <1>1 DEF VectorRunsBy
  <2>2. 0 \in 0..M
    OBVIOUS
  <2> QED BY <1>3, <2>1, <2>2
<1>5. ASSUME NEW n \in 1..M
      PROVE  /\ w[n].buf = f[n] /\ g[n].tables = Append(g[n - 1].tables, w[n].at)
             /\ Continues(f[n], Align4(f[n - 1])) /\ Continues(Align4(f[n - 1]), f[n - 1])
             /\ w[n].at \in Nat /\ w[n].at >= Len(Align4(f[n - 1])) /\ Len(Align4(f[n - 1])) \in Nat
             /\ Len(Align4(f[n - 1])) >= e
  <2>1. n - 1 \in 0..M /\ n \in 0..M
    OBVIOUS
  <2>2. f[n - 1] = g[n - 1].buf /\ f[n] = g[n].buf /\ f[n - 1] \in Seq(Cell) /\ e <= Len(f[n - 1])
    BY <1>3, <2>1
  <2>3. g[n] = [buf |-> w[n].buf, tables |-> Append(g[n - 1].tables, w[n].at)]
    BY <1>1 DEF VectorRunsBy
  <2>4. Wrote(w[n], Align4(f[n - 1]))
    BY <1>1, <2>2 DEF VectorRunsBy
  <2>5. /\ Align4(f[n - 1]) \in Seq(Cell) /\ Continues(Align4(f[n - 1]), f[n - 1])
        /\ Len(Align4(f[n - 1])) \in Nat /\ Len(f[n - 1]) <= Len(Align4(f[n - 1]))
    BY <2>2, AlignedBehind, LenProperties DEF Continues
  <2>6. e <= Len(Align4(f[n - 1]))
    BY <1>1, <1>3, <2>1, <2>5
  <2> QED BY <2>2, <2>3, <2>4, <2>5, <2>6, SMTT(30), ZenonT(30) DEF Wrote
<1>6. PICK P, slot, val : P = {} /\ slot = <<>> /\ val = <<>>
  OBVIOUS
<1>7. Grows(f, M, P, slot, val)
  <2>1. ASSUME NEW n \in 1..M
        PROVE  /\ Len(f[n - 1]) <= Len(f[n])
               /\ \A j \in 1..Len(f[n - 1]) :
                    f[n][j] = IF n \in P /\ j = slot[n] THEN val[n] ELSE f[n - 1][j]
    <3>1. n - 1 \in 0..M /\ n \in 0..M
      OBVIOUS
    <3>2. PICK x, y, z : x = f[n - 1] /\ y = Align4(f[n - 1]) /\ z = f[n]
      OBVIOUS
    <3>3. /\ x \in Seq(Cell) /\ z \in Seq(Cell) /\ Len(x) \in Nat /\ Len(y) \in Nat /\ Len(z) \in Nat
          /\ Continues(z, y) /\ Continues(y, x)
      BY <1>3, <1>5, <3>1, <3>2
    <3>4. Len(x) <= Len(z) /\ \A j \in 1..Len(x) : z[j] = x[j]
      BY <3>3, SMTT(30), ZenonT(30) DEF Continues
    <3> QED BY <1>6, <3>2, <3>4
  <2> QED BY <1>3, <1>6, <2>1 DEF Grows
<1>8. /\ \A k \in 0..M : Len(f[k]) \in Nat /\ Len(f[k]) <= Len(f[M])
      /\ \A k \in 0..M : \A j \in 1..Len(f[k]) : f[M][j] = f[k][j]
  <2>1. P \subseteq 1..M
    BY <1>6
  <2>2. Grown(f, M, P, slot, val)
    BY <1>7, <2>1, Chain
  <2> QED BY <1>6, <2>2 DEF Grown
<1>9. \A n \in 0..M : Len(g[n].tables) = n /\ \A k \in 1..n : g[n].tables[k] = w[k].at
  <2> DEFINE E == {n \in 0..M : Len(g[n].tables) = n /\ \A k \in 1..n : g[n].tables[k] = w[k].at}
  <2>1. 0 \in E
    BY <1>4, EmptySeq
  <2>2. ASSUME NEW n \in 0..(M - 1), n \in E PROVE n + 1 \in E
    <3>1. PICK j \in 1..M : j = n + 1 /\ j - 1 = n /\ j \in 0..M
      OBVIOUS
    <3>2. PICK t \in Seq(Nat) : t = g[n].tables /\ Len(t) = n /\ \A k \in 1..n : t[k] = w[k].at
      BY <1>3, <2>2
    <3>3. g[j].tables = Append(t, w[j].at) /\ w[j].at \in Nat
      BY <1>5, <3>1, <3>2
    <3>4. /\ Len(Append(t, w[j].at)) = n + 1 /\ Append(t, w[j].at)[n + 1] = w[j].at
          /\ \A k \in 1..n : Append(t, w[j].at)[k] = t[k]
      BY <3>2, <3>3, AppendProperties
    <3>5. \A k \in 1..j : k = j \/ k \in 1..n
      BY <3>1
    <3>6. Len(g[j].tables) = j /\ \A k \in 1..j : g[j].tables[k] = w[k].at
      BY <3>1, <3>2, <3>3, <3>4, <3>5
    <3> QED BY <3>1, <3>6
  <2>3. 0..M \subseteq E
    <3> HIDE DEF E
    <3> QED BY <2>1, <2>2, InductionTo
  <2> QED BY <2>3
<1>10. PICK c0 \in Seq(Cell), t \in Seq(Nat), slots \in Nat :
         /\ c0 = f[M] /\ c0 = g[M].buf /\ t = g[M].tables /\ Len(t) = M /\ slots = L + 4
         /\ (\A k \in 1..M : t[k] = w[k].at) /\ e <= Len(c0) /\ Len(c0) \in Nat
  <2>1. M \in 0..M
    OBVIOUS
  <2> QED BY <1>3, <1>9, <2>1
<1>11. c = PatchSlots(c0, slots, t)
  BY <1>1, <1>10
<1>12. \A n \in 1..M : slots + 4 * n <= Len(c0) /\ t[n] >= slots + 4 * n
  <2> SUFFICES ASSUME NEW n \in 1..M PROVE slots + 4 * n <= Len(c0) /\ t[n] >= slots + 4 * n
    OBVIOUS
  <2>1. slots + 4 * n \in Nat /\ slots + 4 * n <= e
    BY <1>1, <1>10
  <2>2. PICK a \in Nat : a = Len(Align4(f[n - 1])) /\ a >= e /\ w[n].at >= a /\ w[n].at \in Nat
    BY <1>5
  <2>3. t[n] = w[n].at
    BY <1>10
  <2> QED BY <1>10, <2>1, <2>2, <2>3
<1>13. /\ c \in Seq(Cell) /\ Len(c) = Len(c0)
       /\ \A n \in 1..M : c[slots + 4 * (n - 1) + 1] = t[n] - (slots + 4 * (n - 1))
       /\ \A j \in 1..Len(c0) : j <= slots \/ j > slots + 4 * M => c[j] = c0[j]
  <2>1. SlotsOf(PatchSlots(c0, slots, t), c0, slots, t, M)
    BY <1>10, <1>12, SlotsArePatched
  <2> QED BY <1>11, <2>1 DEF SlotsOf
<1>14. \A j \in 1..e : c0[j] = H[j]
  <2>1. 0 \in 0..M
    OBVIOUS
  <2> QED BY <1>1, <1>4, <1>8, <1>10, <2>1
<1>15. \A j \in 1..Len(c0) : j <= L + 4 \/ j > e => c[j] = c0[j]
  BY <1>1, <1>10, <1>13
<1>16. Continues(c, b) /\ L + 4 <= Len(c)
  <2>1. L <= Len(c) /\ L + 4 <= Len(c)
    BY <1>1, <1>10, <1>13
  <2>2. ASSUME NEW j \in 1..L PROVE c[j] = b[j]
    <3>1. j \in 1..Len(c0) /\ j <= L + 4 /\ j \in 1..e
      BY <1>1, <1>10
    <3> QED BY <1>1, <1>14, <1>15, <3>1
  <2> QED BY <1>1, <1>13, <2>1, <2>2 DEF Continues
<1>17. ASSUME NEW d, Keeps(d, c, L)
       PROVE  /\ NumberAt(d, L) = M
              /\ \A n \in 1..M :
                   /\ Follow(d, L + 4 * n) = w[n].at
                   /\ Keeps(d, w[n].buf, Len(Align4(g[n - 1].buf)))
  <2>1. d \in Seq(Cell) /\ Len(c) <= Len(d) /\ Len(d) \in Nat /\ \A j \in (L + 1)..Len(c0) : d[j] = c[j]
    BY <1>13, <1>17, LenProperties DEF Keeps
  <2>2. NumberAt(d, L) = M
    <3>1. L + 1 \in (L + 1)..Len(c0) /\ L + 1 \in 1..Len(c0) /\ L + 1 <= L + 4 /\ L + 1 \in 1..e
      BY <1>1, <1>10
    <3>2. d[L + 1] = c[L + 1] /\ c[L + 1] = c0[L + 1] /\ c0[L + 1] = H[L + 1]
      BY <1>14, <1>15, <2>1, <3>1
    <3> QED BY <1>1, <3>2 DEF NumberAt
  <2>3. ASSUME NEW n \in 1..M PROVE Follow(d, L + 4 * n) = w[n].at
    <3>1. PICK s \in Nat : s = L + 4 * n /\ s = slots + 4 * (n - 1) /\ s + 1 \in (L + 1)..Len(c0)
      <4>a. /\ L + 4 + 4 * (n - 1) = L + 4 * n /\ L + 4 * n \in Nat
            /\ L + 4 * n + 1 > L /\ L + 4 * n + 1 <= L + 4 + 4 * M
        BY SlotNumbers, Zenon
      <4>1. PICK s \in Nat : s = L + 4 * n /\ s = L + 4 + 4 * (n - 1) /\ s + 1 > L /\ s + 1 <= L + 4 + 4 * M
        BY <4>a, Zenon
      <4>b. PICK m \in Nat : m = Len(c0) /\ e <= m
        BY <1>10
      <4>c. e = L + 4 + 4 * M
        BY <1>1
      <4>d. s + 1 <= e
        BY <4>1, <4>c, Zenon
      <4>2. s + 1 \in (L + 1)..m
        BY <4>1, <4>b, <4>d
      <4> QED BY <1>10, <4>1, <4>2, <4>b, Zenon
    <3>2. d[s + 1] = c[s + 1] /\ c[s + 1] = t[n] - s /\ t[n] = w[n].at /\ w[n].at \in Nat
      BY <1>5, <1>10, <1>13, <2>1, <3>1
    <3>3. s + (w[n].at - s) = w[n].at
      BY <3>1, <3>2
    <3> QED BY <3>1, <3>2, <3>3 DEF Follow, NumberAt
  <2>4. ASSUME NEW n \in 1..M PROVE Keeps(d, w[n].buf, Len(Align4(g[n - 1].buf)))
    <3>1. n \in 0..M /\ n - 1 \in 0..M
      OBVIOUS
    <3>2. PICK a \in Nat, x \in Seq(Cell) :
            a = Len(Align4(g[n - 1].buf)) /\ a >= e /\ x = w[n].buf /\ x = f[n] /\ Len(x) \in Nat /\ Len(x) <= Len(c0)
      BY <1>3, <1>5, <1>8, <1>10, <3>1
    <3>3. ASSUME NEW j \in (a + 1)..Len(x) PROVE d[j] = x[j]
      <4>1. j \in 1..Len(x) /\ j \in 1..Len(c0) /\ j \in (L + 1)..Len(c0) /\ j > e
        <5>1. e \in Nat /\ L <= e
          BY <1>1
        <5>2. j \in Nat /\ j > e /\ j <= Len(x)
          BY <3>2, <5>1
        <5> QED BY <1>10, <3>2, <5>1, <5>2
      <4>2. c0[j] = x[j]
        BY <1>8, <1>10, <3>1, <3>2, <4>1
      <4>3. d[j] = c[j] /\ c[j] = c0[j]
        BY <1>15, <2>1, <4>1
      <4> QED BY <4>2, <4>3
    <3>4. Len(x) <= Len(d)
      BY <1>10, <1>13, <2>1, <3>2, SMTT(30), ZenonT(30)
    <3> QED BY <2>1, <3>2, <3>3, <3>4 DEF Keeps
  <2> QED BY <2>2, <2>3, <2>4
<1>18. VectorMade(c, g, w, b, N)
  BY <1>1, <1>16, <1>17 DEF VectorMade
<1>19. PICK p : SlotRun(p, c0, slots, t, M, PatchSlots(c0, slots, t))
  BY <1>10, <1>12, SlotsPatched
<1>20. SlotRun(p, g[N].buf, Len(b) + 4, g[N].tables, N, c) /\ Len(g[N].tables) = N
  BY <1>1, <1>10, <1>11, <1>19
<1>21. VectorRun(g, w, p, c, b, N)
  BY <1>20 DEF VectorRun, VectorRunsBy
<1> QED BY <1>18, <1>21

\* The buffer and the tables after one more table.
OneMore(so_far, w) == [buf |-> w.buf, tables |-> Append(so_far.tables, w.at)]

\* encode_labels writes table after table.
LEMMA LabelsAre ==
    ASSUME NEW b, NEW labels, Len(labels) \in Nat, NEW g, NEW w, NEW W,
           VectorRunsBy(g, w, W, b, Len(labels)),
           \A n \in 1..Len(labels) : \A x \in Behind(VectorHead(b, Len(labels))) :
             W[<<n, x>>] = TableInto(Align4(x), LabelTable, Present(labels[n]), AppendText)
    PROVE  Labels(b, labels) = PatchSlots(g[Len(labels)].buf, Len(b) + 4, g[Len(labels)].tables)
<1>1. PICK N \in Nat : N = Len(labels)
  OBVIOUS
<1>2. /\ g = [n \in 0..N |-> g[n]] /\ g[0] = [buf |-> VectorHead(b, N), tables |-> <<>>]
      /\ \A n \in 0..N : g[n] \in [buf : Behind(VectorHead(b, N)), tables : Seq(Nat)]
      /\ \A n \in 1..N : w[n] = W[<<n, g[n - 1].buf>>] /\ g[n] = OneMore(g[n - 1], w[n])
  BY <1>1 DEF VectorRunsBy, OneMore
<1> DEFINE upTo[n \in 0..N] ==
        IF n = 0 THEN [buf |-> VectorHead(b, N), tables |-> <<>>]
        ELSE OneMore(upTo[n - 1], TableInto(Align4(upTo[n - 1].buf), LabelTable, Present(labels[n]), AppendText))
<1>3. Labels(b, labels) = PatchSlots(upTo[N].buf, Len(b) + 4, upTo[N].tables)
  BY <1>1, Zenon DEF Labels, TableVector, upTo, OneMore
<1>4. ASSUME NEW n \in 1..N PROVE g[n] = OneMore(g[n - 1], TableInto(Align4(g[n - 1].buf), LabelTable, Present(labels[n]), AppendText))
  <2>1. n - 1 \in 0..N
    OBVIOUS
  <2>2. g[n - 1].buf \in Behind(VectorHead(b, N))
    BY <1>2, <2>1
  <2>3. w[n] = TableInto(Align4(g[n - 1].buf), LabelTable, Present(labels[n]), AppendText)
    BY <1>1, <1>2, <2>2
  <2> QED BY <1>2, <2>3
<1>5. \E f : f = [n \in 0..N |->
          IF n = 0 THEN [buf |-> VectorHead(b, N), tables |-> <<>>]
          ELSE OneMore(f[n - 1], TableInto(Align4(f[n - 1].buf), LabelTable, Present(labels[n]), AppendText))]
  <2>1. \A n \in 0..N : g[n] =
          IF n = 0 THEN [buf |-> VectorHead(b, N), tables |-> <<>>]
          ELSE OneMore(g[n - 1], TableInto(Align4(g[n - 1].buf), LabelTable, Present(labels[n]), AppendText))
    <3>1. \A n \in 0..N : n = 0 \/ (n # 0 /\ n \in 1..N)
      OBVIOUS
    <3> QED BY <1>2, <1>4, <3>1, Zenon
  <2> QED BY <1>2, <2>1
<1>6. upTo = [n \in 0..N |->
          IF n = 0 THEN [buf |-> VectorHead(b, N), tables |-> <<>>]
          ELSE OneMore(upTo[n - 1], TableInto(Align4(upTo[n - 1].buf), LabelTable, Present(labels[n]), AppendText))]
  BY <1>5, Zenon DEF upTo
<1> HIDE DEF upTo
<1>7. upTo[N] = g[N]
  <2>1. \A n \in 0..N : upTo[n] =
          IF n = 0 THEN [buf |-> VectorHead(b, N), tables |-> <<>>]
          ELSE OneMore(upTo[n - 1], TableInto(Align4(upTo[n - 1].buf), LabelTable, Present(labels[n]), AppendText))
    BY <1>6, Zenon
  <2>2. 0 \in 0..N /\ N \in 0..N /\ \A n \in 1..N : n \in 0..N /\ n # 0
    OBVIOUS
  <2>3. upTo[0] = g[0]
    BY <1>2, <2>1, <2>2, Zenon
  <2>4. \A n \in 1..N : upTo[n - 1] = g[n - 1] => upTo[n] = g[n]
    BY <1>4, <2>1, <2>2, Zenon
  <2>5. \A n \in 0..N : upTo[n] = g[n]
    BY <2>3, <2>4, SameTo, SMTT(30), ZenonT(30)
  <2> QED BY <2>2, <2>5, Zenon
<1> QED BY <1>1, <1>3, <1>7, Zenon

\* encode_buckets does.
LEMMA BucketsAre ==
    ASSUME NEW b, NEW buckets, Len(buckets) \in Nat, NEW g, NEW w, NEW W,
           VectorRunsBy(g, w, W, b, Len(buckets)),
           \A n \in 1..Len(buckets) : \A x \in Behind(VectorHead(b, Len(buckets))) :
             W[<<n, x>>] = TableInto(Align4(x), BucketTable, Present(buckets[n]), AppendText)
    PROVE  Buckets(b, buckets) = PatchSlots(g[Len(buckets)].buf, Len(b) + 4, g[Len(buckets)].tables)
<1>1. PICK N \in Nat : N = Len(buckets)
  OBVIOUS
<1>2. /\ g = [n \in 0..N |-> g[n]] /\ g[0] = [buf |-> VectorHead(b, N), tables |-> <<>>]
      /\ \A n \in 0..N : g[n] \in [buf : Behind(VectorHead(b, N)), tables : Seq(Nat)]
      /\ \A n \in 1..N : w[n] = W[<<n, g[n - 1].buf>>] /\ g[n] = OneMore(g[n - 1], w[n])
  BY <1>1 DEF VectorRunsBy, OneMore
<1> DEFINE upTo[n \in 0..N] ==
        IF n = 0 THEN [buf |-> VectorHead(b, N), tables |-> <<>>]
        ELSE OneMore(upTo[n - 1], TableInto(Align4(upTo[n - 1].buf), BucketTable, Present(buckets[n]), AppendText))
<1>3. Buckets(b, buckets) = PatchSlots(upTo[N].buf, Len(b) + 4, upTo[N].tables)
  BY <1>1, Zenon DEF Buckets, TableVector, upTo, OneMore
<1>4. ASSUME NEW n \in 1..N PROVE g[n] = OneMore(g[n - 1], TableInto(Align4(g[n - 1].buf), BucketTable, Present(buckets[n]), AppendText))
  <2>1. n - 1 \in 0..N
    OBVIOUS
  <2>2. g[n - 1].buf \in Behind(VectorHead(b, N))
    BY <1>2, <2>1
  <2>3. w[n] = TableInto(Align4(g[n - 1].buf), BucketTable, Present(buckets[n]), AppendText)
    BY <1>1, <1>2, <2>2
  <2> QED BY <1>2, <2>3
<1>5. \E f : f = [n \in 0..N |->
          IF n = 0 THEN [buf |-> VectorHead(b, N), tables |-> <<>>]
          ELSE OneMore(f[n - 1], TableInto(Align4(f[n - 1].buf), BucketTable, Present(buckets[n]), AppendText))]
  <2>1. \A n \in 0..N : g[n] =
          IF n = 0 THEN [buf |-> VectorHead(b, N), tables |-> <<>>]
          ELSE OneMore(g[n - 1], TableInto(Align4(g[n - 1].buf), BucketTable, Present(buckets[n]), AppendText))
    <3>1. \A n \in 0..N : n = 0 \/ (n # 0 /\ n \in 1..N)
      OBVIOUS
    <3> QED BY <1>2, <1>4, <3>1, Zenon
  <2> QED BY <1>2, <2>1
<1>6. upTo = [n \in 0..N |->
          IF n = 0 THEN [buf |-> VectorHead(b, N), tables |-> <<>>]
          ELSE OneMore(upTo[n - 1], TableInto(Align4(upTo[n - 1].buf), BucketTable, Present(buckets[n]), AppendText))]
  BY <1>5, Zenon DEF upTo
<1> HIDE DEF upTo
<1>7. upTo[N] = g[N]
  <2>1. \A n \in 0..N : upTo[n] =
          IF n = 0 THEN [buf |-> VectorHead(b, N), tables |-> <<>>]
          ELSE OneMore(upTo[n - 1], TableInto(Align4(upTo[n - 1].buf), BucketTable, Present(buckets[n]), AppendText))
    BY <1>6, Zenon
  <2>2. 0 \in 0..N /\ N \in 0..N /\ \A n \in 1..N : n \in 0..N /\ n # 0
    OBVIOUS
  <2>3. upTo[0] = g[0]
    BY <1>2, <2>1, <2>2, Zenon
  <2>4. \A n \in 1..N : upTo[n - 1] = g[n - 1] => upTo[n] = g[n]
    BY <1>4, <2>1, <2>2, Zenon
  <2>5. \A n \in 0..N : upTo[n] = g[n]
    BY <2>3, <2>4, SameTo, SMTT(30), ZenonT(30)
  <2> QED BY <2>2, <2>5, Zenon
<1> QED BY <1>1, <1>3, <1>7, Zenon

LEMMA TextsAreCells == \A v \in Bytes : v \in Seq(Cell)
BY Cells, SeqMonotonic DEF Bytes

LEMMA OnlyOne == \A v : The({v}) = v /\ {v} # Absent
BY DEF The, Absent

LEMMA LabelTail == /\ LabelTable.tail[1][1] = "key" /\ LabelTable.tail[1][2] = "string"
                   /\ LabelTable.tail[2][1] = "value" /\ LabelTable.tail[2][2] = "string"
                   /\ TailFields(LabelTable) = {"key", "value"}
<1>1. LabelTable.tail = << <<"key", "string">>, <<"value", "string">> >>
  BY DEF LabelTable
<1>2. PICK T : T = LabelTable.tail /\ DOMAIN T = 1..2 /\ T[1] = <<"key", "string">> /\ T[2] = <<"value", "string">>
  BY <1>1
<1>3. TailFields(LabelTable) = {part[1] : part \in {T[i] : i \in 1..2}}
  BY <1>2 DEF TailFields, ToSet
<1>4. {T[i] : i \in 1..2} = {<<"key", "string">>, <<"value", "string">>}
  BY <1>2
<1> QED BY <1>2, <1>3, <1>4

LEMMA LabelFits ==
    ASSUME NEW label \in LabelParam
    PROVE  Fits(Present(label), LabelTable) /\ OnlyTexts(LabelTable, Present(label))
<1>1. /\ DOMAIN Present(label) = {"key", "value"}
      /\ Present(label)["key"] = {label.key} /\ Present(label)["value"] = {label.value}
      /\ label.key \in Bytes /\ label.value \in Bytes
  BY DEF Present, LabelParam
<1>2. Len(LabelTable.fields) = 2 /\ Len(LabelTable.tail) = 2
  BY LabelLaid
<1>3. LabelTable.fields[1] = "key" /\ LabelTable.fields[2] = "value" /\ DOMAIN LabelTable.at = {"key", "value"}
  BY DEF LabelTable
<1>4. Fits(Present(label), LabelTable)
  BY <1>1, <1>2, <1>3, LabelTail DEF Fits
<1>5. ASSUME NEW n \in 1..2
      PROVE  /\ LabelTable.tail[n][2] # "histogram"
             /\ The(Present(label)[LabelTable.tail[n][1]]) \in Seq(Cell)
  <2>1. CASE n = 1
    <3>1. LabelTable.tail[n][2] # "histogram"
      BY <2>1, LabelTail
    <3>2. The(Present(label)[LabelTable.tail[n][1]]) = label.key
      BY <1>1, <2>1, LabelTail, OnlyOne
    <3> QED BY <1>1, <3>1, <3>2, TextsAreCells
  <2>2. CASE n = 2
    <3>1. LabelTable.tail[n][2] # "histogram"
      BY <2>2, LabelTail
    <3>2. The(Present(label)[LabelTable.tail[n][1]]) = label.value
      BY <1>1, <2>2, LabelTail, OnlyOne
    <3> QED BY <1>1, <3>1, <3>2, TextsAreCells
  <2> QED BY <2>1, <2>2
<1> QED BY <1>2, <1>4, <1>5 DEF OnlyTexts

\* A reader finds this label in the table at `at`, and all of it on multiples of four.
LabelFound(d, at, label) == ReadLabel(d, at) = label /\ at % 4 = 0 /\ LabelOnFours(d, at)

LEMMA LabelRead ==
    ASSUME NEW label \in LabelParam, NEW d, NEW at \in Nat, at % 4 = 0,
           IsTextTable(d, at, LabelTable, Present(label))
    PROVE  LabelFound(d, at, label)
<1>1. /\ Present(label)["key"] = {label.key} /\ Present(label)["value"] = {label.value}
      /\ label = [key |-> label.key, value |-> label.value]
  BY DEF Present, LabelParam
<1>2. Len(LabelTable.fields) = 2 /\ Len(LabelTable.tail) = 2
  BY LabelLaid
<1>3. /\ LabelTable.fields[1] = "key" /\ LabelTable.fields[2] = "value"
      /\ LabelTable.at["key"] = 4 /\ LabelTable.at["value"] = 8
  BY DEF LabelTable
<1>4. FieldAt(d, at, 0) = {at + 4} /\ FieldAt(d, at, 1) = {at + 8}
  <2>1. 1 \in 1..2 /\ 1 - 1 = 0 /\ 2 \in 1..2 /\ 2 - 1 = 1
    OBVIOUS
  <2>2. \A i \in 1..2 : FieldAt(d, at, i - 1) =
          IF Present(label)[LabelTable.fields[i]] = Absent THEN {} ELSE {at + LabelTable.at[LabelTable.fields[i]]}
    BY <1>2 DEF IsTextTable, HasFields
  <2>3. FieldAt(d, at, 1 - 1) = {at + 4}
    BY <1>1, <1>3, <2>1, <2>2, OnlyOne, ZenonT(30)
  <2>4. FieldAt(d, at, 2 - 1) = {at + 8}
    BY <1>1, <1>3, <2>1, <2>2, OnlyOne, ZenonT(30)
  <2> QED BY <2>1, <2>3, <2>4
<1>5. /\ HasText(d, Follow(d, at + 4), label.key) /\ HasText(d, Follow(d, at + 8), label.value)
      /\ Follow(d, at + 4) % 4 = 0 /\ Follow(d, at + 8) % 4 = 0
  <2>1. 1 \in 1..2 /\ 2 \in 1..2
    OBVIOUS
  <2>2. IsThere(LabelTable, Present(label), 1) /\ IsThere(LabelTable, Present(label), 2)
    BY <1>1, LabelTail, OnlyOne DEF IsThere
  <2>3. SlotOf(LabelTable, at, 1) = at + 4 /\ SlotOf(LabelTable, at, 2) = at + 8
    BY <1>3, LabelTail DEF SlotOf
  <2>4. The(Present(label)[LabelTable.tail[1][1]]) = label.key /\ The(Present(label)[LabelTable.tail[2][1]]) = label.value
    BY <1>1, LabelTail, OnlyOne
  <2>5. \A n \in 1..2 : IsThere(LabelTable, Present(label), n) =>
          /\ Follow(d, SlotOf(LabelTable, at, n)) % 4 = 0
          /\ HasText(d, Follow(d, SlotOf(LabelTable, at, n)), The(Present(label)[LabelTable.tail[n][1]]))
    BY <1>2 DEF IsTextTable
  <2> QED BY <2>1, <2>2, <2>3, <2>4, <2>5
<1>6. VectorAt(d, at + 4) = label.key /\ VectorAt(d, at + 8) = label.value
  BY <1>5 DEF HasText, VectorAt
<1>7. ReadLabel(d, at) = label
  BY <1>1, <1>4, <1>6, OnlyOne DEF ReadLabel
<1>8. LabelOnFours(d, at)
  BY <1>4, <1>5 DEF LabelOnFours
<1> QED BY <1>7, <1>8 DEF LabelFound

\* A reader that follows an offset to `at` finds these labels.
HasLabels(d, at, labels) ==
    /\ NumberAt(d, at) = Len(labels)
    /\ \A n \in 1..Len(labels) : LabelFound(d, Follow(d, at + 4 * n), labels[n])

LEMMA LabelWritten ==
    ASSUME NEW label \in LabelParam, NEW b \in Seq(Cell), Len(b) % 4 = 0,
           NEW t, t = TableInto(b, LabelTable, Present(label), AppendText)
    PROVE  /\ Wrote(t, b)
           /\ \A d : Keeps(d, t.buf, Len(b)) => LabelFound(d, t.at, label)
<1>1. PICK layout, places, params :
        layout = LabelTable /\ places = LabelPlaces /\ params = Present(label)
  OBVIOUS
<1>2. Laid(layout, places) /\ Fits(params, layout) /\ OnlyTexts(layout, params) /\ CanStart(layout, b)
  BY <1>1, LabelLaid, LabelFits DEF CanStart
<1>3. t = TableInto(b, layout, params, AppendText)
  BY <1>1
<1>4. Wrote(t, b) /\ \A d : Keeps(d, t.buf, Len(b)) => IsTextTable(d, t.at, layout, params)
  BY <1>2, <1>3, TextTable
<1> QED BY <1>1, <1>4, LabelRead DEF Wrote

LEMMA LabelsWritten ==
    ASSUME NEW b \in Seq(Cell), NEW labels \in Seq(LabelParam), Len(b) % 4 = 0,
           NEW r, r = [buf |-> Labels(b, labels), at |-> Len(b)]
    PROVE  /\ Wrote(r, b)
           /\ \A d : Keeps(d, r.buf, Len(b)) => HasLabels(d, r.at, labels)
           /\ \E g, w, p : /\ VectorRun(g, w, p, r.buf, b, Len(labels))
                           /\ \A n \in 1..Len(labels) :
                                w[n] = TableInto(Align4(g[n - 1].buf), LabelTable, Present(labels[n]), AppendText)
<1>1. PICK N \in Nat : N = Len(labels) /\ \A n \in 1..N : labels[n] \in LabelParam
  BY ElementOfSeq, LenProperties
<1>2. PICK H, S : H = VectorHead(b, N) /\ S = Behind(H)
  OBVIOUS
<1>3. PICK W : \A n \in 1..N : \A x \in S :
        W[<<n, x>>] = TableInto(Align4(x), LabelTable, Present(labels[n]), AppendText)
  <2> DEFINE W == [y \in (1..N) \X S |-> TableInto(Align4(y[2]), LabelTable, Present(labels[y[1]]), AppendText)]
  <2>1. ASSUME NEW n \in 1..N, NEW x \in S
        PROVE  W[<<n, x>>] = TableInto(Align4(x), LabelTable, Present(labels[n]), AppendText)
    <3>1. PICK y : y = <<n, x>>
      OBVIOUS
    <3>2. y \in (1..N) \X S /\ y[1] = n /\ y[2] = x
      BY <3>1
    <3>3. W[y] = TableInto(Align4(y[2]), LabelTable, Present(labels[y[1]]), AppendText)
      BY <3>2
    <3> HIDE DEF W
    <3> QED BY <3>1, <3>2, <3>3
  <2> HIDE DEF W
  <2> QED BY <2>1
<1>4. ASSUME NEW n \in 1..N, NEW x \in S
      PROVE  /\ Wrote(W[<<n, x>>], Align4(x))
             /\ \A d : Keeps(d, W[<<n, x>>].buf, Len(Align4(x))) => LabelFound(d, W[<<n, x>>].at, labels[n])
  <2>1. PICK y \in Seq(Cell) : y = Align4(x) /\ Len(y) % 4 = 0
    BY <1>2, AlignedBehind DEF Behind
  <2>2. PICK label, t : label \in LabelParam /\ label = labels[n] /\ t = TableInto(y, LabelTable, Present(label), AppendText)
    BY <1>1
  <2>3. Wrote(t, y) /\ \A d : Keeps(d, t.buf, Len(y)) => LabelFound(d, t.at, label)
    BY <2>1, <2>2, LabelWritten, ZenonT(30)
  <2>4. W[<<n, x>>] = t
    BY <1>3, <2>1, <2>2
  <2> QED BY <2>1, <2>2, <2>3, <2>4
<1>5. PICK g, w : VectorRunsBy(g, w, W, b, N)
  <2>1. VectorWriters(W, b, N)
    BY <1>2, <1>4 DEF VectorWriters
  <2> QED BY <2>1, VectorRuns
<1>6. PICK c : c = PatchSlots(g[N].buf, Len(b) + 4, g[N].tables)
  OBVIOUS
<1>7. Labels(b, labels) = c
  BY <1>1, <1>2, <1>3, <1>5, <1>6, LabelsAre
<1>8. VectorMade(c, g, w, b, N) /\ \E p : VectorRun(g, w, p, c, b, N)
  BY <1>5, <1>6, VectorKept
<1>9. r.buf = c /\ r.at = Len(b)
  BY <1>7
<1>10. Wrote(r, b)
  BY <1>8, <1>9, LenProperties DEF Wrote, VectorMade
<1>11. ASSUME NEW d, Keeps(d, c, Len(b)) PROVE HasLabels(d, Len(b), labels)
  <2>1. /\ NumberAt(d, Len(b)) = N
        /\ \A n \in 1..N :
             /\ Follow(d, Len(b) + 4 * n) = w[n].at
             /\ Keeps(d, w[n].buf, Len(Align4(g[n - 1].buf)))
    BY <1>8, <1>11 DEF VectorMade
  <2>2. ASSUME NEW n \in 1..N PROVE LabelFound(d, Follow(d, Len(b) + 4 * n), labels[n])
    <3>1. n - 1 \in 0..N
      OBVIOUS
    <3>2. PICK x \in S : x = g[n - 1].buf
      BY <1>2, <1>5, <3>1 DEF VectorRunsBy
    <3>3. w[n] = W[<<n, x>>]
      BY <1>5, <3>2 DEF VectorRunsBy
    <3>4. Keeps(d, W[<<n, x>>].buf, Len(Align4(x)))
      BY <2>1, <3>2, <3>3
    <3>5. LabelFound(d, W[<<n, x>>].at, labels[n])
      BY <1>4, <3>4
    <3> QED BY <2>1, <3>3, <3>5
  <2> QED BY <1>1, <2>1, <2>2 DEF HasLabels
<1>12. \A n \in 1..N : w[n] = TableInto(Align4(g[n - 1].buf), LabelTable, Present(labels[n]), AppendText)
  <2> SUFFICES ASSUME NEW n \in 1..N
               PROVE  w[n] = TableInto(Align4(g[n - 1].buf), LabelTable, Present(labels[n]), AppendText)
    OBVIOUS
  <2>1. n - 1 \in 0..N
    OBVIOUS
  <2>2. PICK x \in S : x = g[n - 1].buf /\ w[n] = W[<<n, x>>]
    BY <1>2, <1>5, <2>1 DEF VectorRunsBy
  <2> QED BY <1>3, <2>2
<1> QED BY <1>1, <1>8, <1>9, <1>10, <1>11, <1>12

LEMMA BucketTail == TailFields(BucketTable) = {}
<1>1. PICK T : T = BucketTable.tail /\ DOMAIN T = {}
  BY DEF BucketTable
<1> QED BY <1>1 DEF TailFields, ToSet

LEMMA BucketFits ==
    ASSUME NEW bucket \in Bucket
    PROVE  Fits(Present(bucket), BucketTable) /\ OnlyTexts(BucketTable, Present(bucket))
<1>1. /\ DOMAIN Present(bucket) = {"upper_bound", "count"}
      /\ Present(bucket)["upper_bound"] = {bucket.upper_bound} /\ Present(bucket)["count"] = {bucket.count}
      /\ bucket.upper_bound \in Nat /\ bucket.count \in Nat
  BY DEF Present, Bucket
<1>2. Len(BucketTable.fields) = 2 /\ Len(BucketTable.tail) = 0
  BY BucketLaid
<1>3. /\ BucketTable.fields[1] = "upper_bound" /\ BucketTable.fields[2] = "count"
      /\ DOMAIN BucketTable.at = {"upper_bound", "count"}
  BY DEF BucketTable
<1>4. \A name \in DOMAIN Present(bucket) : The(Present(bucket)[name]) \in Cell
  BY <1>1, OnlyOne, Cells
<1>5. Fits(Present(bucket), BucketTable)
  BY <1>1, <1>2, <1>3, <1>4 DEF Fits
<1> QED BY <1>2, <1>5 DEF OnlyTexts

\* What a reader of a histogram finds of a bucket.
BucketAt(d, t) == [upper_bound |-> Scalar(d, t, 0), count |-> Scalar(d, t, 1)]

\* A reader finds this bucket in the table at `at`, on a multiple of four.
BucketFound(d, at, bucket) == BucketAt(d, at) = bucket /\ at % 4 = 0

LEMMA BucketRead ==
    ASSUME NEW bucket \in Bucket, NEW d, NEW at \in Nat, IsTextTable(d, at, BucketTable, Present(bucket))
    PROVE  BucketAt(d, at) = bucket
<1>1. /\ DOMAIN Present(bucket) = {"upper_bound", "count"}
      /\ Present(bucket)["upper_bound"] = {bucket.upper_bound} /\ Present(bucket)["count"] = {bucket.count}
      /\ bucket = [upper_bound |-> bucket.upper_bound, count |-> bucket.count]
  BY DEF Present, Bucket
<1>2. Len(BucketTable.fields) = 2 /\ Len(BucketTable.tail) = 0
  BY BucketLaid
<1>3. /\ BucketTable.fields[1] = "upper_bound" /\ BucketTable.fields[2] = "count"
      /\ BucketTable.at["upper_bound"] = 4 /\ BucketTable.at["count"] = 12
      /\ DOMAIN BucketTable.at = {"upper_bound", "count"}
  BY DEF BucketTable
<1>4. FieldAt(d, at, 0) = {at + 4} /\ FieldAt(d, at, 1) = {at + 12}
  <2>1. 1 \in 1..2 /\ 1 - 1 = 0 /\ 2 \in 1..2 /\ 2 - 1 = 1
    OBVIOUS
  <2>2. \A i \in 1..2 : FieldAt(d, at, i - 1) =
          IF Present(bucket)[BucketTable.fields[i]] = Absent THEN {} ELSE {at + BucketTable.at[BucketTable.fields[i]]}
    BY <1>2 DEF IsTextTable, HasFields
  <2>3. FieldAt(d, at, 1 - 1) = {at + 4}
    <3>1. Present(bucket)[BucketTable.fields[1]] # Absent /\ BucketTable.at[BucketTable.fields[1]] = 4
      BY <1>1, <1>3, OnlyOne
    <3> QED BY <2>1, <2>2, <3>1
  <2>4. FieldAt(d, at, 2 - 1) = {at + 12}
    BY <1>1, <1>3, <2>1, <2>2, OnlyOne, ZenonT(30)
  <2> QED BY <2>1, <2>3, <2>4
<1>5. NumberAt(d, at + 4) = bucket.upper_bound /\ NumberAt(d, at + 12) = bucket.count
  <2>1. \A name \in {"upper_bound", "count"} :
          NumberAt(d, at + BucketTable.at[name]) = The(Present(bucket)[name])
    <3>1. \A name \in {"upper_bound", "count"} : IsScalar(BucketTable, Present(bucket), name)
      BY <1>1, BucketTail, OnlyOne DEF IsScalar
    <3> QED BY <1>3, <3>1 DEF IsTextTable, HasFields
  <2>2. NumberAt(d, at + BucketTable.at["upper_bound"]) = The(Present(bucket)["upper_bound"])
    BY <2>1
  <2>3. NumberAt(d, at + BucketTable.at["count"]) = The(Present(bucket)["count"])
    BY <2>1
  <2> QED BY <1>1, <1>3, <2>2, <2>3, OnlyOne
<1> QED BY <1>1, <1>4, <1>5, OnlyOne DEF BucketAt, Scalar

\* A reader that follows an offset to `at` finds these buckets.
HasBuckets(d, at, buckets) ==
    /\ NumberAt(d, at) = Len(buckets)
    /\ \A n \in 1..Len(buckets) : BucketFound(d, Follow(d, at + 4 * n), buckets[n])

LEMMA BucketWritten ==
    ASSUME NEW bucket \in Bucket, NEW b \in Seq(Cell), Len(b) % 4 = 0,
           NEW t, t = TableInto(b, BucketTable, Present(bucket), AppendText)
    PROVE  /\ Wrote(t, b)
           /\ \A d : Keeps(d, t.buf, Len(b)) => BucketFound(d, t.at, bucket)
<1>1. PICK layout, places, params :
        layout = BucketTable /\ places = BucketPlaces /\ params = Present(bucket)
  OBVIOUS
<1>2. Laid(layout, places) /\ Fits(params, layout) /\ OnlyTexts(layout, params) /\ CanStart(layout, b)
  BY <1>1, BucketLaid, BucketFits DEF CanStart
<1>3. t = TableInto(b, layout, params, AppendText)
  BY <1>1
<1>4. Wrote(t, b) /\ \A d : Keeps(d, t.buf, Len(b)) => IsTextTable(d, t.at, layout, params)
  BY <1>2, <1>3, TextTable
<1> QED BY <1>1, <1>4, BucketRead DEF Wrote, BucketFound

LEMMA BucketsWritten ==
    ASSUME NEW b \in Seq(Cell), NEW buckets \in Seq(Bucket), Len(b) % 4 = 0,
           NEW r, r = [buf |-> Buckets(b, buckets), at |-> Len(b)]
    PROVE  /\ Wrote(r, b)
           /\ \A d : Keeps(d, r.buf, Len(b)) => HasBuckets(d, r.at, buckets)
           /\ \E g, w, p : /\ VectorRun(g, w, p, r.buf, b, Len(buckets))
                           /\ \A n \in 1..Len(buckets) :
                                w[n] = TableInto(Align4(g[n - 1].buf), BucketTable, Present(buckets[n]), AppendText)
<1>1. PICK N \in Nat : N = Len(buckets) /\ \A n \in 1..N : buckets[n] \in Bucket
  BY ElementOfSeq, LenProperties
<1>2. PICK H, S : H = VectorHead(b, N) /\ S = Behind(H)
  OBVIOUS
<1>3. PICK W : \A n \in 1..N : \A x \in S :
        W[<<n, x>>] = TableInto(Align4(x), BucketTable, Present(buckets[n]), AppendText)
  <2> DEFINE W == [y \in (1..N) \X S |-> TableInto(Align4(y[2]), BucketTable, Present(buckets[y[1]]), AppendText)]
  <2>1. ASSUME NEW n \in 1..N, NEW x \in S
        PROVE  W[<<n, x>>] = TableInto(Align4(x), BucketTable, Present(buckets[n]), AppendText)
    <3>1. PICK y : y = <<n, x>>
      OBVIOUS
    <3>2. y \in (1..N) \X S /\ y[1] = n /\ y[2] = x
      BY <3>1
    <3>3. W[y] = TableInto(Align4(y[2]), BucketTable, Present(buckets[y[1]]), AppendText)
      BY <3>2
    <3> HIDE DEF W
    <3> QED BY <3>1, <3>2, <3>3
  <2> HIDE DEF W
  <2> QED BY <2>1
<1>4. ASSUME NEW n \in 1..N, NEW x \in S
      PROVE  /\ Wrote(W[<<n, x>>], Align4(x))
             /\ \A d : Keeps(d, W[<<n, x>>].buf, Len(Align4(x))) => BucketFound(d, W[<<n, x>>].at, buckets[n])
  <2>1. PICK y \in Seq(Cell) : y = Align4(x) /\ Len(y) % 4 = 0
    BY <1>2, AlignedBehind DEF Behind
  <2>2. PICK bucket, t : bucket \in Bucket /\ bucket = buckets[n] /\ t = TableInto(y, BucketTable, Present(bucket), AppendText)
    BY <1>1
  <2>3. Wrote(t, y) /\ \A d : Keeps(d, t.buf, Len(y)) => BucketFound(d, t.at, bucket)
    BY <2>1, <2>2, BucketWritten, ZenonT(30)
  <2>4. W[<<n, x>>] = t
    BY <1>3, <2>1, <2>2
  <2> QED BY <2>1, <2>2, <2>3, <2>4
<1>5. PICK g, w : VectorRunsBy(g, w, W, b, N)
  <2>1. VectorWriters(W, b, N)
    BY <1>2, <1>4 DEF VectorWriters
  <2> QED BY <2>1, VectorRuns
<1>6. PICK c : c = PatchSlots(g[N].buf, Len(b) + 4, g[N].tables)
  OBVIOUS
<1>7. Buckets(b, buckets) = c
  BY <1>1, <1>2, <1>3, <1>5, <1>6, BucketsAre
<1>8. VectorMade(c, g, w, b, N) /\ \E p : VectorRun(g, w, p, c, b, N)
  BY <1>5, <1>6, VectorKept
<1>9. r.buf = c /\ r.at = Len(b)
  BY <1>7
<1>10. Wrote(r, b)
  BY <1>8, <1>9, LenProperties DEF Wrote, VectorMade
<1>11. ASSUME NEW d, Keeps(d, c, Len(b)) PROVE HasBuckets(d, Len(b), buckets)
  <2>1. /\ NumberAt(d, Len(b)) = N
        /\ \A n \in 1..N :
             /\ Follow(d, Len(b) + 4 * n) = w[n].at
             /\ Keeps(d, w[n].buf, Len(Align4(g[n - 1].buf)))
    BY <1>8, <1>11 DEF VectorMade
  <2>2. ASSUME NEW n \in 1..N PROVE BucketFound(d, Follow(d, Len(b) + 4 * n), buckets[n])
    <3>1. n - 1 \in 0..N
      OBVIOUS
    <3>2. PICK x \in S : x = g[n - 1].buf
      BY <1>2, <1>5, <3>1 DEF VectorRunsBy
    <3>3. w[n] = W[<<n, x>>]
      BY <1>5, <3>2 DEF VectorRunsBy
    <3>4. Keeps(d, W[<<n, x>>].buf, Len(Align4(x)))
      BY <2>1, <3>2, <3>3
    <3>5. BucketFound(d, W[<<n, x>>].at, buckets[n])
      BY <1>4, <3>4
    <3> QED BY <2>1, <3>3, <3>5
  <2> QED BY <1>1, <2>1, <2>2 DEF HasBuckets
<1>12. \A n \in 1..N : w[n] = TableInto(Align4(g[n - 1].buf), BucketTable, Present(buckets[n]), AppendText)
  <2> SUFFICES ASSUME NEW n \in 1..N
               PROVE  w[n] = TableInto(Align4(g[n - 1].buf), BucketTable, Present(buckets[n]), AppendText)
    OBVIOUS
  <2>1. n - 1 \in 0..N
    OBVIOUS
  <2>2. PICK x \in S : x = g[n - 1].buf /\ w[n] = W[<<n, x>>]
    BY <1>2, <1>5, <2>1 DEF VectorRunsBy
  <2> QED BY <1>3, <2>2
<1> QED BY <1>1, <1>8, <1>9, <1>10, <1>11, <1>12

\* How encode_histogram puts buckets behind its table.
BucketsBehind(b, buckets) == [buf |-> Buckets(b, buckets), at |-> Len(b)]

LEMMA HistogramIs ==
    ASSUME NEW hist, Len(HistogramTable.tail) \in Nat, NEW b,
           NEW h, h = TableHead(b, HistogramTable, HistogramParams(hist)), h = [buf |-> h.buf, at |-> h.at],
           NEW W, NEW f, NEW w, RunsBy(f, w, W, h, HistogramTable, HistogramParams(hist)),
           \A n \in 1..Len(HistogramTable.tail) : \A x \in Behind(h.buf) :
             W[<<n, x>>] = BucketsBehind(PartStart(x, HistogramTable.tail[n][2]), The(HistogramParams(hist)[HistogramTable.tail[n][1]]))
    PROVE  HistogramInto(b, hist) = [buf |-> f[Len(HistogramTable.tail)], at |-> h.at]
<1>1. PICK N \in Nat : N = Len(HistogramTable.tail)
  OBVIOUS
<1>2. /\ \A n \in 0..N : f[n] \in Behind(h.buf)
      /\ f = [n \in 0..N |-> f[n]]
      /\ f[0] = h.buf
      /\ \A n \in 1..N : /\ w[n] = W[<<n, f[n - 1]>>]
                         /\ f[n] = Parted(HistogramTable, HistogramParams(hist), h.at, n, StartOf(f, HistogramTable, n), w[n])
  BY <1>1 DEF RunsBy
<1> DEFINE upTo[n \in 0..N] ==
        IF n = 0 THEN h.buf ELSE
            Parted(HistogramTable, HistogramParams(hist), h.at, n, PartStart(upTo[n - 1], HistogramTable.tail[n][2]),
                   BucketsBehind(PartStart(upTo[n - 1], HistogramTable.tail[n][2]), The(HistogramParams(hist)[HistogramTable.tail[n][1]])))
<1>8. HistogramInto(b, hist) = [h EXCEPT !.buf = upTo[N]]
  BY <1>1, ZenonT(30) DEF HistogramInto, TableInto, BucketsBehind, upTo, Parted
<1>9. ASSUME NEW n \in 1..N
      PROVE  f[n] = Parted(HistogramTable, HistogramParams(hist), h.at, n, PartStart(f[n - 1], HistogramTable.tail[n][2]),
                        BucketsBehind(PartStart(f[n - 1], HistogramTable.tail[n][2]), The(HistogramParams(hist)[HistogramTable.tail[n][1]])))
  <2>1. f[n - 1] \in Behind(h.buf)
    <3>1. n - 1 \in 0..N
      OBVIOUS
    <3> QED BY <1>2, <3>1
  <2> QED BY <1>1, <1>2, <2>1 DEF StartOf
<1>10. \E g : g = [n \in 0..N |->
          IF n = 0 THEN h.buf ELSE
            Parted(HistogramTable, HistogramParams(hist), h.at, n, PartStart(g[n - 1], HistogramTable.tail[n][2]),
                   BucketsBehind(PartStart(g[n - 1], HistogramTable.tail[n][2]), The(HistogramParams(hist)[HistogramTable.tail[n][1]])))]
  <2>1. \A n \in 0..N : f[n] =
          IF n = 0 THEN h.buf ELSE
            Parted(HistogramTable, HistogramParams(hist), h.at, n, PartStart(f[n - 1], HistogramTable.tail[n][2]),
                   BucketsBehind(PartStart(f[n - 1], HistogramTable.tail[n][2]), The(HistogramParams(hist)[HistogramTable.tail[n][1]])))
    <3>1. \A n \in 0..N : n = 0 \/ (n # 0 /\ n \in 1..N)
      OBVIOUS
    <3> QED BY <1>2, <1>9, <3>1, Zenon
  <2>2. f = [n \in 0..N |-> f[n]]
    BY <1>2
  <2> QED BY <2>1, <2>2
<1>11. upTo = [n \in 0..N |->
          IF n = 0 THEN h.buf ELSE
            Parted(HistogramTable, HistogramParams(hist), h.at, n, PartStart(upTo[n - 1], HistogramTable.tail[n][2]),
                   BucketsBehind(PartStart(upTo[n - 1], HistogramTable.tail[n][2]), The(HistogramParams(hist)[HistogramTable.tail[n][1]])))]
  BY <1>10, Zenon DEF upTo
<1> HIDE DEF upTo
<1>12. upTo[N] = f[N]
  <2>1. \A n \in 0..N : upTo[n] =
          IF n = 0 THEN h.buf ELSE
            Parted(HistogramTable, HistogramParams(hist), h.at, n, PartStart(upTo[n - 1], HistogramTable.tail[n][2]),
                   BucketsBehind(PartStart(upTo[n - 1], HistogramTable.tail[n][2]), The(HistogramParams(hist)[HistogramTable.tail[n][1]])))
    BY <1>11, Zenon
  <2>2. 0 \in 0..N /\ N \in 0..N /\ \A n \in 1..N : n \in 0..N /\ n # 0
    OBVIOUS
  <2>3. upTo[0] = f[0]
    BY <1>2, <2>1, <2>2
  <2>4. \A n \in 1..N : upTo[n - 1] = f[n - 1] => upTo[n] = f[n]
    BY <1>9, <2>1, <2>2, ZenonT(40), SMTT(30)
  <2>5. \A n \in 0..N : upTo[n] = f[n]
    BY <2>3, <2>4, SameTo
  <2> QED BY <2>2, <2>5
<1> QED BY <1>1, <1>8, <1>12

LEMMA HistogramTail ==
    /\ HistogramTable.tail[1][1] = "buckets" /\ HistogramTable.tail[1][2] = "buckets"
    /\ TailFields(HistogramTable) = {"buckets"}
<1>1. HistogramTable.tail = << <<"buckets", "buckets">> >>
  BY DEF HistogramTable
<1>2. PICK T : /\ T = HistogramTable.tail /\ DOMAIN T = {1} /\ T[1] = <<"buckets", "buckets">>
               /\ T[1][1] = "buckets" /\ T[1][2] = "buckets"
  BY <1>1
<1>3. TailFields(HistogramTable) = {part[1] : part \in {T[i] : i \in {1}}}
  BY <1>2 DEF TailFields, ToSet
<1>4. {T[i] : i \in {1}} = {<<"buckets", "buckets">>}
  BY <1>2
<1> QED BY <1>2, <1>3, <1>4

LEMMA HistogramParamsAre ==
    ASSUME NEW hist \in HistogramPoint
    PROVE  /\ DOMAIN HistogramParams(hist) = {"count", "sum", "min", "max", "buckets"}
           /\ HistogramParams(hist)["count"] = {hist.count} /\ HistogramParams(hist)["sum"] = {hist.sum}
           /\ HistogramParams(hist)["min"] = {hist.min} /\ HistogramParams(hist)["max"] = {hist.max}
           /\ HistogramParams(hist)["buckets"] = IF hist.buckets = <<>> THEN {} ELSE {hist.buckets}
<1>1. /\ DOMAIN Present(hist) = {"count", "sum", "min", "max", "buckets"}
      /\ \A name \in {"count", "sum", "min", "max", "buckets"} : Present(hist)[name] = {hist[name]}
  BY DEF Present, HistogramPoint
<1>2. PICK P : P = Present(hist)
  OBVIOUS
<1>3. /\ DOMAIN P = {"count", "sum", "min", "max", "buckets"} /\ P = [name \in DOMAIN P |-> P[name]]
      /\ P["count"] = {hist.count} /\ P["sum"] = {hist.sum} /\ P["min"] = {hist.min}
      /\ P["max"] = {hist.max} /\ P["buckets"] = {hist.buckets}
  BY <1>1, <1>2 DEF Present
<1>4. HistogramParams(hist) = [P EXCEPT !["buckets"] = P["buckets"] \ {<<>>}]
  BY <1>2 DEF HistogramParams
<1>5. {hist.buckets} \ {<<>>} = IF hist.buckets = <<>> THEN {} ELSE {hist.buckets}
  OBVIOUS
<1> QED BY <1>3, <1>4, <1>5

LEMMA HistogramFits ==
    ASSUME NEW hist \in HistogramPoint
    PROVE  Fits(HistogramParams(hist), HistogramTable)
<1>1. PICK P : P = HistogramParams(hist)
  OBVIOUS
<1>2. /\ DOMAIN P = {"count", "sum", "min", "max", "buckets"}
      /\ P["count"] = {hist.count} /\ P["sum"] = {hist.sum} /\ P["min"] = {hist.min} /\ P["max"] = {hist.max}
      /\ hist.count \in Nat /\ hist.sum \in Nat /\ hist.min \in Nat /\ hist.max \in Nat
  BY <1>1, HistogramParamsAre DEF HistogramPoint
<1>3. \A name \in DOMAIN P \ {"buckets"} : The(P[name]) \in Cell
  <2>1. /\ The({hist.count}) = hist.count /\ The({hist.sum}) = hist.sum
        /\ The({hist.min}) = hist.min /\ The({hist.max}) = hist.max
    BY OnlyOne, Zenon
  <2> QED BY <1>2, <2>1, Cells
<1>4. \A i \in 1..5 : HistogramTable.fields[i] \in DOMAIN HistogramTable.at
  BY DEF HistogramTable
<1>5. Len(HistogramTable.fields) = 5
  BY HistogramLaid
<1> QED BY <1>1, <1>3, <1>4, <1>5, HistogramTail DEF Fits

\* A reader finds this histogram in the table at `at`, its buckets on multiples
\* of four.
HistogramFound(d, at, hist) ==
    ReadHistogram(d, at) = hist /\ \A pos \in FieldAt(d, at, 2) : TablesOnFours(d, pos)

LEMMA HistogramRead ==
    ASSUME NEW hist \in HistogramPoint, NEW d, NEW at \in Nat,
           HasFields(d, at, HistogramTable, HistogramParams(hist)),
           hist.buckets # <<>> =>
             Follow(d, at + 20) % 4 = 0 /\ HasBuckets(d, Follow(d, at + 20), hist.buckets)
    PROVE  HistogramFound(d, at, hist)
<1>1. PICK P : P = HistogramParams(hist)
  OBVIOUS
<1>2. /\ DOMAIN P = {"count", "sum", "min", "max", "buckets"}
      /\ P["count"] = {hist.count} /\ P["sum"] = {hist.sum} /\ P["min"] = {hist.min} /\ P["max"] = {hist.max}
      /\ P["buckets"] = IF hist.buckets = <<>> THEN {} ELSE {hist.buckets}
      /\ hist.buckets \in Seq(Bucket)
      /\ hist = [count |-> hist.count, sum |-> hist.sum, buckets |-> hist.buckets, min |-> hist.min, max |-> hist.max]
  BY <1>1, HistogramParamsAre DEF HistogramPoint
<1>3. Len(HistogramTable.fields) = 5
  BY HistogramLaid
<1>4. PICK F, A : F = HistogramTable.fields /\ A = HistogramTable.at
  OBVIOUS
<1>5. /\ F[1] = "count" /\ F[2] = "sum" /\ F[3] = "buckets" /\ F[4] = "min" /\ F[5] = "max"
      /\ A["count"] = 4 /\ A["sum"] = 12 /\ A["buckets"] = 20 /\ A["min"] = 24 /\ A["max"] = 32
      /\ DOMAIN A = {"count", "sum", "min", "max", "buckets"}
  BY <1>4 DEF HistogramTable
<1>6. \A i \in 1..5 : FieldAt(d, at, i - 1) = IF P[F[i]] = Absent THEN {} ELSE {at + A[F[i]]}
  BY <1>1, <1>3, <1>4 DEF HasFields
<1>7. /\ P["count"] # Absent /\ P["sum"] # Absent /\ P["min"] # Absent /\ P["max"] # Absent
      /\ P["buckets"] = Absent <=> hist.buckets = <<>>
  BY <1>2, OnlyOne DEF Absent
<1>8. /\ FieldAt(d, at, 0) = {at + 4} /\ FieldAt(d, at, 1) = {at + 12}
      /\ FieldAt(d, at, 3) = {at + 24} /\ FieldAt(d, at, 4) = {at + 32}
      /\ FieldAt(d, at, 2) = IF hist.buckets = <<>> THEN {} ELSE {at + 20}
  <2>1. /\ 1 \in 1..5 /\ 2 \in 1..5 /\ 3 \in 1..5 /\ 4 \in 1..5 /\ 5 \in 1..5
        /\ 1 - 1 = 0 /\ 2 - 1 = 1 /\ 3 - 1 = 2 /\ 4 - 1 = 3 /\ 5 - 1 = 4
    OBVIOUS
  <2>2. FieldAt(d, at, 1 - 1) = {at + 4}
    BY <1>5, <1>6, <1>7, <2>1
  <2>3. FieldAt(d, at, 2 - 1) = {at + 12}
    BY <1>5, <1>6, <1>7, <2>1
  <2>4. FieldAt(d, at, 3 - 1) = IF hist.buckets = <<>> THEN {} ELSE {at + 20}
    BY <1>5, <1>6, <1>7, <2>1
  <2>5. FieldAt(d, at, 4 - 1) = {at + 24}
    BY <1>5, <1>6, <1>7, <2>1
  <2>6. FieldAt(d, at, 5 - 1) = {at + 32}
    BY <1>5, <1>6, <1>7, <2>1
  <2> QED BY <2>1, <2>2, <2>3, <2>4, <2>5, <2>6
<1>9. /\ Scalar(d, at, 0) = hist.count /\ Scalar(d, at, 1) = hist.sum
      /\ Scalar(d, at, 3) = hist.min /\ Scalar(d, at, 4) = hist.max
  <2>1. \A name \in {"count", "sum", "min", "max"} : NumberAt(d, at + A[name]) = The(P[name])
    <3>1. \A name \in {"count", "sum", "min", "max"} : IsScalar(HistogramTable, P, name)
      BY <1>2, <1>7, HistogramTail DEF IsScalar
    <3> QED BY <1>1, <1>4, <1>5, <3>1 DEF HasFields
  <2>a. /\ The({hist.count}) = hist.count /\ The({hist.sum}) = hist.sum
        /\ The({hist.min}) = hist.min /\ The({hist.max}) = hist.max
    BY OnlyOne, Zenon
  <2>2. NumberAt(d, at + 4) = hist.count
    BY <1>2, <1>5, <2>1, <2>a
  <2>3. NumberAt(d, at + 12) = hist.sum
    BY <1>2, <1>5, <2>1, <2>a
  <2>4. NumberAt(d, at + 24) = hist.min
    BY <1>2, <1>5, <2>1, <2>a
  <2>5. NumberAt(d, at + 32) = hist.max
    BY <1>2, <1>5, <2>1, <2>a
  <2> QED BY <1>8, <2>2, <2>3, <2>4, <2>5, OnlyOne DEF Scalar
<1>10. PICK ts : ts = UNION {{TablesAt(d, pos)} : pos \in FieldAt(d, at, 2)}
  OBVIOUS
<1>11. PICK bs : bs = IF ts = {} THEN <<>> ELSE [i \in 1..Len(The(ts)) |-> BucketAt(d, The(ts)[i])]
  OBVIOUS
<1>12. ReadHistogram(d, at) = [count |-> Scalar(d, at, 0), sum |-> Scalar(d, at, 1), buckets |-> bs,
                               min |-> Scalar(d, at, 3), max |-> Scalar(d, at, 4)]
  BY <1>10, <1>11, Zenon DEF ReadHistogram, BucketAt
<1>13. bs = hist.buckets /\ \A pos \in FieldAt(d, at, 2) : TablesOnFours(d, pos)
  <2>1. CASE hist.buckets = <<>>
    BY <1>8, <1>10, <1>11, <2>1
  <2>2. CASE hist.buckets # <<>>
    <3>a. PICK all \in Seq(Bucket) : all = hist.buckets
      BY <1>2
    <3>b. PICK N \in Nat : N = Len(all) /\ all = [n \in 1..N |-> all[n]]
      BY SeqDef, LenProperties
    <3>1. PICK p : p = Follow(d, at + 20)
      OBVIOUS
    <3>2. /\ p % 4 = 0 /\ NumberAt(d, p) = N
          /\ \A n \in 1..N : /\ BucketAt(d, Follow(d, p + 4 * n)) = all[n]
                            /\ Follow(d, p + 4 * n) % 4 = 0
      BY <2>2, <3>a, <3>b, <3>1 DEF HasBuckets, BucketFound
    <3>3. PICK t : t = [n \in 1..N |-> Follow(d, p + 4 * n)]
      OBVIOUS
    <3>4. TablesAt(d, at + 20) = t
      BY <3>1, <3>2, <3>3 DEF TablesAt
    <3>5. ts = {t}
      BY <1>8, <1>10, <2>2, <3>4
    <3>6. The(ts) = t /\ ts # {} /\ Len(t) = N
      <4>1. Len(t) = N
        BY <3>3
      <4> QED BY <3>5, <4>1, OnlyOne
    <3>7. bs = [i \in 1..N |-> BucketAt(d, t[i])]
      BY <1>11, <3>6
    <3>8. \A i \in 1..N : BucketAt(d, t[i]) = all[i]
      BY <3>2, <3>3
    <3>9. TablesOnFours(d, at + 20)
      BY <3>1, <3>2, <3>3, <3>4 DEF TablesOnFours, ToSet
    <3>10. bs = all
      BY <3>b, <3>7, <3>8
    <3> QED BY <1>8, <2>2, <3>a, <3>9, <3>10
  <2> QED BY <2>1, <2>2
<1> QED BY <1>2, <1>9, <1>12, <1>13 DEF HistogramFound

LEMMA HistogramWritten ==
    ASSUME NEW b \in Seq(Cell), NEW hist \in HistogramPoint, NEW r, r = HistogramInto(b, hist)
    PROVE  /\ Wrote(r, b)
           /\ \A d : Keeps(d, r.buf, Len(b)) => HistogramFound(d, r.at, hist)
           /\ \E f, w :
                /\ TableRun(f, w, r, TableHead(b, HistogramTable, HistogramParams(hist)), HistogramTable, HistogramParams(hist))
                /\ hist.buckets # <<>> => w[1] = BucketsBehind(Align4(f[0]), hist.buckets)
<1>1. PICK layout, places, params, h :
        /\ layout = HistogramTable /\ places = HistogramPlaces /\ params = HistogramParams(hist)
        /\ h = TableHead(b, layout, params)
  OBVIOUS
<1>2. Laid(layout, places) /\ Fits(params, layout) /\ CanStart(layout, b) /\ Len(layout.tail) = 1
  <2>1. HistogramTable.pad = ToAlign
    BY DEF HistogramTable
  <2> QED BY <1>1, <2>1, HistogramLaid, HistogramFits DEF CanStart
<1>3. /\ layout.tail[1][1] = "buckets" /\ layout.tail[1][2] = "buckets"
      /\ layout.at["buckets"] = 20
      /\ params["buckets"] = IF hist.buckets = <<>> THEN {} ELSE {hist.buckets}
      /\ hist.buckets \in Seq(Bucket)
  <2>1. HistogramTable.at["buckets"] = 20
    BY DEF HistogramTable
  <2> QED BY <1>1, <2>1, HistogramTail, HistogramParamsAre DEF HistogramPoint
<1>4. IsThere(layout, params, 1) <=> hist.buckets # <<>>
  BY <1>3, OnlyOne DEF IsThere, Absent
<1>5. hist.buckets # <<>> => The(params[layout.tail[1][1]]) = hist.buckets
  BY <1>3, OnlyOne
<1>6. PICK S : S = Behind(h.buf)
  OBVIOUS
<1>7. PICK W : \A n \in 1..1 : \A x \in S :
        W[<<n, x>>] = BucketsBehind(PartStart(x, layout.tail[n][2]), The(params[layout.tail[n][1]]))
  <2> DEFINE W == [y \in (1..1) \X S |->
        BucketsBehind(PartStart(y[2], layout.tail[y[1]][2]), The(params[layout.tail[y[1]][1]]))]
  <2>1. ASSUME NEW n \in 1..1, NEW x \in S
        PROVE  W[<<n, x>>] = BucketsBehind(PartStart(x, layout.tail[n][2]), The(params[layout.tail[n][1]]))
    <3>1. PICK y : y = <<n, x>>
      OBVIOUS
    <3>2. y \in (1..1) \X S /\ y[1] = n /\ y[2] = x
      BY <3>1
    <3>3. W[y] = BucketsBehind(PartStart(y[2], layout.tail[y[1]][2]), The(params[layout.tail[y[1]][1]]))
      BY <3>2
    <3> HIDE DEF W
    <3> QED BY <3>1, <3>2, <3>3
  <2> HIDE DEF W
  <2> QED BY <2>1
<1>8. ASSUME NEW x \in S, hist.buckets # <<>>
      PROVE  /\ Wrote(W[<<1, x>>], PartStart(x, layout.tail[1][2]))
             /\ \A d : Keeps(d, W[<<1, x>>].buf, Len(PartStart(x, layout.tail[1][2])))
                         => HasBuckets(d, W[<<1, x>>].at, hist.buckets)
  <2>1. PICK y \in Seq(Cell) : y = PartStart(x, layout.tail[1][2]) /\ Len(y) % 4 = 0
    BY <1>3, <1>6, AlignedBehind DEF Behind, PartStart
  <2>2. PICK all, t : all \in Seq(Bucket) /\ all = hist.buckets /\ t = [buf |-> Buckets(y, all), at |-> Len(y)]
    BY <1>3
  <2>3. Wrote(t, y) /\ \A d : Keeps(d, t.buf, Len(y)) => HasBuckets(d, t.at, all)
    BY <2>1, <2>2, BucketsWritten
  <2>4. W[<<1, x>>] = t
    <3>1. W[<<1, x>>] = BucketsBehind(y, all)
      BY <1>5, <1>7, <1>8, <2>1, <2>2
    <3> QED BY <2>2, <3>1 DEF BucketsBehind
  <2> QED BY <2>1, <2>2, <2>3, <2>4
<1>9. Writers(W, h, layout, params)
  <2>1. ASSUME NEW n \in 1..1, NEW x \in S, IsThere(layout, params, n)
        PROVE  Wrote(W[<<n, x>>], PartStart(x, layout.tail[n][2]))
    <3>1. n = 1
      OBVIOUS
    <3> QED BY <1>4, <1>8, <2>1, <3>1
  <2> QED BY <1>2, <1>6, <2>1 DEF Writers
<1>10. PICK f, w : RunsBy(f, w, W, h, layout, params) /\ Made(f, w, h, b, layout, params)
  BY <1>1, <1>2, <1>9, TableMade
<1>11. h = [buf |-> h.buf, at |-> h.at]
  BY <1>1, <1>2, TableHeadWritten
<1>12. r = [buf |-> f[1], at |-> h.at]
  <2>1. Len(HistogramTable.tail) \in Nat /\ h = TableHead(b, HistogramTable, HistogramParams(hist))
    BY <1>1, <1>2
  <2>2. RunsBy(f, w, W, h, HistogramTable, HistogramParams(hist))
    BY <1>1, <1>10
  <2>3. \A n \in 1..Len(HistogramTable.tail) : \A x \in Behind(h.buf) :
          W[<<n, x>>] = BucketsBehind(PartStart(x, HistogramTable.tail[n][2]), The(HistogramParams(hist)[HistogramTable.tail[n][1]]))
    BY <1>1, <1>2, <1>6, <1>7
  <2>4. HistogramInto(b, hist) = [buf |-> f[Len(HistogramTable.tail)], at |-> h.at]
    BY <1>11, <2>1, <2>2, <2>3, HistogramIs
  <2> QED BY <1>1, <1>2, <2>4
<1>13. Wrote(r, b)
  BY <1>2, <1>10, <1>12 DEF Wrote, Made
<1>14. ASSUME NEW d, Keeps(d, f[1], Len(b)) PROVE HistogramFound(d, h.at, hist)
  <2>1. /\ HasFields(d, h.at, layout, params)
        /\ \A n \in 1..1 : IsThere(layout, params, n) =>
             /\ Follow(d, SlotOf(layout, h.at, n)) = w[n].at
             /\ Keeps(d, w[n].buf, Len(StartOf(f, layout, n)))
    BY <1>2, <1>10, <1>14 DEF Made
  <2>2. ASSUME hist.buckets # <<>>
        PROVE  Follow(d, h.at + 20) % 4 = 0 /\ HasBuckets(d, Follow(d, h.at + 20), hist.buckets)
    <3>1. /\ Follow(d, SlotOf(layout, h.at, 1)) = w[1].at
          /\ Keeps(d, w[1].buf, Len(StartOf(f, layout, 1)))
      BY <1>4, <2>1, <2>2
    <3>2. SlotOf(layout, h.at, 1) = h.at + 20
      BY <1>3 DEF SlotOf
    <3>3. PICK x \in S : x = f[0] /\ w[1] = W[<<1, x>>]
      BY <1>2, <1>6, <1>10 DEF RunsBy
    <3>4. Keeps(d, W[<<1, x>>].buf, Len(PartStart(x, layout.tail[1][2])))
      BY <3>1, <3>3 DEF StartOf
    <3> QED BY <1>8, <2>2, <3>1, <3>2, <3>3, <3>4 DEF Wrote
  <2>3. h.at \in Nat
    BY <1>10 DEF Made
  <2> QED BY <1>1, <2>1, <2>2, <2>3, HistogramRead
<1>15. TableRun(f, w, r, h, layout, params)
  <2>1. /\ f[0] = h.buf /\ TailRun(f, w, h.at, layout, params)
        /\ \A n \in 0..1 : f[n] \in Behind(h.buf)
        /\ \A n \in 1..1 : f[n] = Parted(layout, params, h.at, n, StartOf(f, layout, n), w[n])
    BY <1>2, <1>10 DEF RunsBy
  <2>2. \A n \in 1..1 : IsThere(layout, params, n) => Wrote(w[n], StartOf(f, layout, n))
    BY <1>2, <2>1 DEF TailRun
  <2> QED BY <1>2, <1>12, <2>1, <2>2 DEF TableRun
<1>16. ASSUME hist.buckets # <<>> PROVE w[1] = BucketsBehind(Align4(f[0]), hist.buckets)
  <2>1. PICK x \in S : x = f[0] /\ w[1] = W[<<1, x>>]
    BY <1>2, <1>6, <1>10 DEF RunsBy
  <2>2. PartStart(x, layout.tail[1][2]) = Align4(x)
    BY <1>3 DEF PartStart
  <2>3. 1 \in 1..1
    OBVIOUS
  <2>4. W[<<1, x>>] = BucketsBehind(PartStart(x, layout.tail[1][2]), The(params[layout.tail[1][1]]))
    BY <1>7, <2>3
  <2> QED BY <1>5, <1>16, <2>1, <2>2, <2>4
<1>17. \E g, v :
         /\ TableRun(g, v, r, TableHead(b, HistogramTable, HistogramParams(hist)), HistogramTable, HistogramParams(hist))
         /\ hist.buckets # <<>> => v[1] = BucketsBehind(Align4(g[0]), hist.buckets)
  BY <1>1, <1>15, <1>16
<1> QED BY <1>12, <1>13, <1>14, <1>17
-----------------------------------------------------------------------------
(* A table with parts of any kind *)

IsValue(type, v) ==
    CASE type = "labels" -> v \in Seq(LabelParam)
      [] type = "histogram" -> v \in HistogramPoint
      [] OTHER -> v \in Bytes

\* What a reader finds that follows an offset to `at`.
Reads(d, type, at, v) ==
    CASE type = "labels" -> HasLabels(d, at, v)
      [] type = "histogram" -> HistogramFound(d, at, v)
      [] OTHER -> HasText(d, at, v)

LEMMA AnyWritten ==
    ASSUME NEW b \in Seq(Cell), NEW type, type # "histogram" => Len(b) % 4 = 0, NEW v, IsValue(type, v),
           NEW r, r = AppendAny(b, type, v)
    PROVE  /\ Wrote(r, b)
           /\ \A d : Keeps(d, r.buf, Len(b)) => Reads(d, type, r.at, v)
<1>1. CASE type = "labels"
  <2>1. PICK all \in Seq(LabelParam) : all = v
    BY <1>1 DEF IsValue
  <2>2. r = [buf |-> Labels(b, all), at |-> Len(b)]
    BY <1>1, <2>1 DEF AppendAny
  <2>3. Len(b) % 4 = 0
    BY <1>1
  <2>4. Wrote(r, b) /\ \A d : Keeps(d, r.buf, Len(b)) => HasLabels(d, r.at, all)
    BY <2>2, <2>3, LabelsWritten
  <2> QED BY <1>1, <2>1, <2>4 DEF Reads
<1>2. CASE type = "histogram"
  <2>1. PICK hist \in HistogramPoint : hist = v
    BY <1>2 DEF IsValue
  <2>2. r = HistogramInto(b, hist)
    BY <1>2, <2>1 DEF AppendAny
  <2>3. Wrote(r, b) /\ \A d : Keeps(d, r.buf, Len(b)) => HistogramFound(d, r.at, hist)
    BY <2>2, HistogramWritten
  <2> QED BY <1>2, <2>1, <2>3 DEF Reads
<1>3. CASE type # "labels" /\ type # "histogram"
  <2>1. PICK x \in Seq(Cell) : x = v
    BY <1>3, TextsAreCells DEF IsValue
  <2>2. r = AppendText(b, type, x)
    BY <1>3, <2>1 DEF AppendAny
  <2>3. Wrote(r, b) /\ \A d : Keeps(d, r.buf, Len(b)) => HasText(d, r.at, x)
    BY <1>3, <2>2, TextWritten, ZenonT(30)
  <2> QED BY <1>3, <2>1, <2>3 DEF Reads
<1> QED BY <1>1, <1>2, <1>3

\* A table as a reader finds it.
IsTable(d, at, layout, params) ==
    /\ HasFields(d, at, layout, params)
    /\ \A n \in 1..Len(layout.tail) : IsThere(layout, params, n) =>
         /\ Follow(d, SlotOf(layout, at, n)) % 4 = 0
         /\ Reads(d, layout.tail[n][2], Follow(d, SlotOf(layout, at, n)), The(params[layout.tail[n][1]]))

HasValues(layout, params) ==
    \A n \in 1..Len(layout.tail) :
        IsThere(layout, params, n) => IsValue(layout.tail[n][2], The(params[layout.tail[n][1]]))

AnyRun(f, w, layout, params) ==
    \A n \in 1..Len(layout.tail) :
        w[n] = AppendAny(StartOf(f, layout, n), layout.tail[n][2], The(params[layout.tail[n][1]]))

LEMMA AnyTable ==
    ASSUME NEW layout, NEW places, NEW params, Laid(layout, places), Fits(params, layout),
           HasValues(layout, params), NEW b \in Seq(Cell), CanStart(layout, b),
           NEW t, t = TableInto(b, layout, params, AppendAny)
    PROVE  /\ Wrote(t, b)
           /\ \A d : Keeps(d, t.buf, Len(b)) => IsTable(d, t.at, layout, params)
           /\ \E f, w : /\ TableRun(f, w, t, TableHead(b, layout, params), layout, params)
                        /\ AnyRun(f, w, layout, params)
<1>1. PICK N \in Nat : N = Len(layout.tail)
  BY LenProperties DEF Laid
<1>2. PICK h, S : h = TableHead(b, layout, params) /\ S = Behind(h.buf)
  OBVIOUS
<1>3. h = [buf |-> h.buf, at |-> h.at]
  BY <1>2, TableHeadWritten
<1>5. PICK W : \A n \in 1..N : \A x \in S :
        W[<<n, x>>] = AppendAny(PartStart(x, layout.tail[n][2]), layout.tail[n][2], The(params[layout.tail[n][1]]))
  <2> DEFINE W == [y \in (1..N) \X S |->
        AppendAny(PartStart(y[2], layout.tail[y[1]][2]), layout.tail[y[1]][2], The(params[layout.tail[y[1]][1]]))]
  <2>1. ASSUME NEW n \in 1..N, NEW x \in S
        PROVE  W[<<n, x>>] = AppendAny(PartStart(x, layout.tail[n][2]), layout.tail[n][2], The(params[layout.tail[n][1]]))
    <3>1. PICK y : y = <<n, x>>
      OBVIOUS
    <3>2. y \in (1..N) \X S /\ y[1] = n /\ y[2] = x
      BY <3>1
    <3>3. W[y] = AppendAny(PartStart(y[2], layout.tail[y[1]][2]), layout.tail[y[1]][2], The(params[layout.tail[y[1]][1]]))
      BY <3>2
    <3> HIDE DEF W
    <3> QED BY <3>1, <3>2, <3>3
  <2> HIDE DEF W
  <2> QED BY <2>1
<1>6. ASSUME NEW n \in 1..N, NEW x \in S, IsThere(layout, params, n)
      PROVE  /\ Wrote(W[<<n, x>>], PartStart(x, layout.tail[n][2]))
             /\ \A d : Keeps(d, W[<<n, x>>].buf, Len(PartStart(x, layout.tail[n][2])))
                         => Reads(d, layout.tail[n][2], W[<<n, x>>].at, The(params[layout.tail[n][1]]))
  <2>1. x \in Seq(Cell) /\ IsValue(layout.tail[n][2], The(params[layout.tail[n][1]]))
    BY <1>1, <1>2, <1>6 DEF Behind, HasValues
  <2>2. PICK y \in Seq(Cell) : /\ y = PartStart(x, layout.tail[n][2])
                               /\ layout.tail[n][2] # "histogram" => Len(y) % 4 = 0
    BY <2>1, AlignedBehind DEF PartStart
  <2>3. PICK v, type, r :
          /\ v = The(params[layout.tail[n][1]]) /\ type = layout.tail[n][2] /\ r = AppendAny(y, type, v)
          /\ IsValue(type, v) /\ (type # "histogram" => Len(y) % 4 = 0)
    BY <2>1, <2>2
  <2>4. Wrote(r, y) /\ \A d : Keeps(d, r.buf, Len(y)) => Reads(d, type, r.at, v)
    BY <2>3, AnyWritten
  <2>5. W[<<n, x>>] = r
    BY <1>5, <2>2, <2>3
  <2> QED BY <2>2, <2>3, <2>4, <2>5
<1>7. PICK f, w : RunsBy(f, w, W, h, layout, params) /\ Made(f, w, h, b, layout, params)
  <2>1. Writers(W, h, layout, params)
    BY <1>1, <1>2, <1>6 DEF Writers
  <2> QED BY <1>2, <2>1, TableMade
<1>8. t = [buf |-> f[N], at |-> h.at]
  <2>1. WritesAny(W, h, layout, params)
    BY <1>1, <1>2, <1>5 DEF WritesAny
  <2>2. Len(layout.tail) \in Nat /\ RunsBy(f, w, W, h, layout, params)
    BY <1>1, <1>7
  <2>3. TableInto(b, layout, params, AppendAny) = [buf |-> f[Len(layout.tail)], at |-> h.at]
    BY <1>2, <1>3, <2>1, <2>2, AnyTableIs
  <2> QED BY <1>1, <2>3
<1>9. Wrote(t, b)
  BY <1>1, <1>7, <1>8 DEF Wrote, Made
<1>10. ASSUME NEW d, Keeps(d, f[N], Len(b)) PROVE IsTable(d, h.at, layout, params)
  <2>1. /\ HasFields(d, h.at, layout, params)
        /\ \A n \in 1..N : IsThere(layout, params, n) =>
             /\ Follow(d, SlotOf(layout, h.at, n)) = w[n].at
             /\ Keeps(d, w[n].buf, Len(StartOf(f, layout, n)))
    BY <1>1, <1>7, <1>10 DEF Made
  <2>2. ASSUME NEW n \in 1..N, IsThere(layout, params, n)
        PROVE  /\ w[n].at % 4 = 0
               /\ Reads(d, layout.tail[n][2], w[n].at, The(params[layout.tail[n][1]]))
    <3>1. PICK x \in S : x = f[n - 1] /\ w[n] = W[<<n, x>>]
      <4>1. n - 1 \in 0..N
        OBVIOUS
      <4> QED BY <1>1, <1>2, <1>7, <4>1 DEF RunsBy
    <3>2. Keeps(d, W[<<n, x>>].buf, Len(PartStart(x, layout.tail[n][2])))
      BY <2>1, <2>2, <3>1 DEF StartOf
    <3> QED BY <1>6, <2>2, <3>1, <3>2 DEF Wrote
  <2> QED BY <1>1, <2>1, <2>2 DEF IsTable
<1>11. TableRun(f, w, t, h, layout, params)
  <2>1. /\ f[0] = h.buf /\ TailRun(f, w, h.at, layout, params)
        /\ \A n \in 0..N : f[n] \in Behind(h.buf)
        /\ \A n \in 1..N : f[n] = Parted(layout, params, h.at, n, StartOf(f, layout, n), w[n])
    BY <1>1, <1>7 DEF RunsBy
  <2>2. \A n \in 1..N : IsThere(layout, params, n) => Wrote(w[n], StartOf(f, layout, n))
    BY <1>1, <2>1 DEF TailRun
  <2> QED BY <1>1, <1>8, <2>1, <2>2 DEF TableRun
<1>12. AnyRun(f, w, layout, params)
  <2>1. ASSUME NEW n \in 1..N
        PROVE  w[n] = AppendAny(StartOf(f, layout, n), layout.tail[n][2], The(params[layout.tail[n][1]]))
    <3>1. n - 1 \in 0..N
      OBVIOUS
    <3>2. PICK x \in S : x = f[n - 1] /\ w[n] = W[<<n, x>>]
      BY <1>1, <1>2, <1>7, <3>1 DEF RunsBy
    <3> QED BY <1>5, <3>2 DEF StartOf
  <2> QED BY <1>1, <2>1 DEF AnyRun
<1>13. \E g, v : TableRun(g, v, t, TableHead(b, layout, params), layout, params) /\ AnyRun(g, v, layout, params)
  BY <1>2, <1>11, <1>12
<1> QED BY <1>8, <1>9, <1>10, <1>13

LEMMA EntryWritten ==
    ASSUME NEW layout, NEW places, NEW params, Laid(layout, places), Fits(params, layout),
           HasValues(layout, params), NEW b \in Seq(Cell), Len(b) % 4 = 0,
           NEW e, e = EntryInto(b, layout, params),
           NEW r, r = [buf |-> e, at |-> TableOf(e, Len(b))]
    PROVE  /\ Wrote(r, b)
           /\ \A d : Keeps(d, e, Len(b)) => IsTable(d, r.at, layout, params)
<1>1. PICK L \in Nat : L = Len(b)
  BY LenProperties
<1>2. PICK z \in Seq(Cell) : z = Zeros(4) /\ Len(z) = 4
  <2>1. PICK n \in Nat : n = 4
    OBVIOUS
  <2> QED BY <2>1, ZerosAre
<1>3. PICK c \in Seq(Cell) :
        /\ c = b \o z /\ Continues(c, b) /\ Len(c) = Len(b) + Len(z)
        /\ \A i \in 1..Len(z) : c[Len(b) + i] = z[i]
  BY Put
<1>4. Len(c) = L + 4 /\ Len(c) % 4 = 0
  <2>1. Len(c) = L + 4
    BY <1>1, <1>2, <1>3
  <2>2. L % 4 = 0
    BY <1>1
  <2>3. (L + 4) % 4 = 0
    BY <2>2
  <2> QED BY <2>1, <2>3
<1>5. PICK t : t = TableInto(c, layout, params, AppendAny)
  OBVIOUS
<1>6. Wrote(t, c) /\ \A d : Keeps(d, t.buf, Len(c)) => IsTable(d, t.at, layout, params)
  BY <1>4, <1>5, AnyTable DEF CanStart
<1>7. PICK x \in Seq(Cell), a \in Nat :
        /\ x = t.buf /\ a = t.at /\ a % 4 = 0 /\ a >= L + 4 /\ Continues(x, c) /\ Len(x) \in Nat /\ L + 4 <= Len(x)
  BY <1>4, <1>6, LenProperties DEF Wrote, Continues
<1>8. e = Patch(x, L, a)
  BY <1>1, <1>2, <1>3, <1>5, <1>7 DEF EntryInto, RootOf, Patch
<1>9. /\ e \in Seq(Cell) /\ Len(e) = Len(x)
      /\ \A j \in 1..Len(x) : e[j] = IF j = L + 1 THEN a - L ELSE x[j]
  <2>1. L + 1 \in 1..Len(x) /\ a >= L
    BY <1>7
  <2> QED BY <1>8, <2>1, Patched
<1>10. TableOf(e, Len(b)) = a
  <2>1. L + 1 \in 1..Len(x)
    BY <1>7
  <2>2. e[L + 1] = a - L
    BY <1>9, <2>1
  <2> QED BY <1>1, <1>7, <2>2 DEF TableOf, NumberAt
<1>11. r.buf = e /\ r.at = a
  BY <1>10
<1>12. Continues(e, b)
  <2>1. \A j \in 1..L : j \in 1..Len(x) /\ j # L + 1 /\ j \in 1..Len(c)
    BY <1>4, <1>7
  <2>2. \A j \in 1..L : x[j] = c[j] /\ c[j] = b[j]
    BY <1>1, <1>3, <1>7, <2>1 DEF Continues
  <2>3. L <= Len(e)
    BY <1>7, <1>9
  <2> QED BY <1>1, <1>9, <2>1, <2>2, <2>3 DEF Continues
<1>13. Wrote(r, b)
  BY <1>1, <1>7, <1>11, <1>12 DEF Wrote
<1>14. ASSUME NEW d, Keeps(d, e, L) PROVE IsTable(d, a, layout, params)
  <2>1. d \in Seq(Cell) /\ Len(x) <= Len(d) /\ \A j \in (L + 1)..Len(x) : d[j] = e[j]
    BY <1>9, <1>14 DEF Keeps
  <2>2. \A j \in (L + 4 + 1)..Len(x) : j \in (L + 1)..Len(x) /\ j \in 1..Len(x) /\ j # L + 1
    BY <1>7
  <2>3. Keeps(d, x, L + 4)
    BY <1>9, <2>1, <2>2 DEF Keeps
  <2> QED BY <1>4, <1>6, <1>7, <2>3
<1> QED BY <1>1, <1>11, <1>13, <1>14
-----------------------------------------------------------------------------
(* Reading an entry *)

Suits(type, name) ==
    CASE type = "labels" -> name = "labels"
      [] type = "histogram" -> name = "histogram"
      [] OTHER -> name \in Texts

\* The fields of a layout say what kind they are of.
Readable(layout) ==
    /\ \A n \in 1..Len(layout.tail) : Suits(layout.tail[n][2], layout.tail[n][1])
    /\ \A i \in 1..Len(layout.fields) : layout.fields[i] \notin TailFields(layout)
         => layout.fields[i] \notin Texts \cup {"labels", "histogram"}

\* The parameters of an entry, one for every field.
Complete(layout, params) ==
    /\ params = [name \in ToSet(layout.fields) |-> params[name]]
    /\ \A name \in ToSet(layout.fields) : params[name] = {} \/ \E v : params[name] = {v}

LEMMA TailFieldsAre ==
    ASSUME NEW layout, NEW places, Laid(layout, places)
    PROVE  /\ Len(layout.tail) \in Nat
           /\ \A name \in TailFields(layout) : \E n \in 1..Len(layout.tail) : layout.tail[n][1] = name
           /\ \A n \in 1..Len(layout.tail) : layout.tail[n][1] \in TailFields(layout)
<1>1. PICK T, N : N \in Nat /\ T = layout.tail /\ N = Len(layout.tail) /\ DOMAIN T = 1..N
  <2>1. PICK X : X = (DOMAIN layout.at) \X Types
    OBVIOUS
  <2>2. layout.tail \in Seq(X)
    BY <2>1 DEF Laid
  <2>3. PICK T : T = layout.tail
    OBVIOUS
  <2>4. Len(T) \in Nat /\ DOMAIN T = 1..Len(T)
    <3>1. T \in Seq(X)
      BY <2>2, <2>3
    <3> QED BY <3>1, LenProperties
  <2> QED BY <2>3, <2>4
<1>2. TailFields(layout) = {part[1] : part \in {T[n] : n \in 1..N}}
  BY <1>1 DEF TailFields, ToSet
<1> QED BY <1>1, <1>2

LEMMA FieldsAre ==
    ASSUME NEW layout, NEW places, Laid(layout, places)
    PROVE  /\ Len(layout.fields) \in Nat
           /\ ToSet(layout.fields) = {layout.fields[i] : i \in 1..Len(layout.fields)}
<1>1. Len(layout.fields) \in Nat /\ DOMAIN layout.fields = 1..Len(layout.fields)
  BY LenProperties DEF Laid
<1> QED BY <1>1 DEF ToSet

LEMMA LabelsRead ==
    ASSUME NEW d, NEW pos, NEW labels \in Seq(LabelParam), HasLabels(d, Follow(d, pos), labels)
    PROVE  ReadValue(d, "labels", pos) = labels
<1>1. PICK N \in Nat : N = Len(labels) /\ labels = [i \in 1..N |-> labels[i]]
  BY SeqDef, LenProperties
<1>2. PICK p : p = Follow(d, pos)
  OBVIOUS
<1>3. NumberAt(d, p) = N /\ \A n \in 1..N : ReadLabel(d, Follow(d, p + 4 * n)) = labels[n]
  BY <1>1, <1>2 DEF HasLabels, LabelFound
<1>4. PICK t : t = [n \in 1..N |-> Follow(d, p + 4 * n)]
  OBVIOUS
<1>5. TablesAt(d, pos) = t /\ Len(t) = N
  <2>1. TablesAt(d, pos) = t
    BY <1>2, <1>3, <1>4 DEF TablesAt
  <2>2. Len(t) = N
    BY <1>4
  <2> QED BY <2>1, <2>2
<1>6. "labels" \notin Texts
  BY DEF Texts
<1>7. ReadValue(d, "labels", pos) = [i \in 1..N |-> ReadLabel(d, t[i])]
  BY <1>5, <1>6 DEF ReadValue
<1>8. \A i \in 1..N : ReadLabel(d, t[i]) = labels[i]
  BY <1>3, <1>4
<1> QED BY <1>1, <1>7, <1>8

LEMMA ValueRead ==
    ASSUME NEW d, NEW pos, NEW type, NEW name, NEW v, Suits(type, name), IsValue(type, v),
           Reads(d, type, Follow(d, pos), v)
    PROVE  ReadValue(d, name, pos) = v
<1>1. CASE type = "labels"
  <2>1. name = "labels" /\ v \in Seq(LabelParam) /\ HasLabels(d, Follow(d, pos), v)
    BY <1>1 DEF Suits, IsValue, Reads
  <2> QED BY <2>1, LabelsRead
<1>2. CASE type = "histogram"
  <2>1. name = "histogram" /\ ReadHistogram(d, Follow(d, pos)) = v
    BY <1>2 DEF Suits, Reads, HistogramFound
  <2>2. "histogram" \notin Texts /\ "histogram" # "labels"
    BY DEF Texts
  <2> QED BY <2>1, <2>2 DEF ReadValue
<1>3. CASE type # "labels" /\ type # "histogram"
  <2>1. name \in Texts /\ HasText(d, Follow(d, pos), v)
    BY <1>3 DEF Suits, Reads
  <2>2. VectorAt(d, pos) = v
    BY <2>1 DEF HasText, VectorAt
  <2>3. ReadValue(d, name, pos) = VectorAt(d, pos)
    <3>1. name # "labels" /\ name # "histogram"
      BY <2>1 DEF Texts
    <3> QED BY <2>1, <3>1, Zenon DEF ReadValue
  <2> QED BY <2>2, <2>3
<1> QED BY <1>1, <1>2, <1>3

LEMMA EntryRead ==
    ASSUME NEW layout, NEW places, NEW params, Laid(layout, places), Fits(params, layout),
           HasValues(layout, params), Readable(layout), Complete(layout, params),
           NEW d, NEW at, IsTable(d, at, layout, params)
    PROVE  ReadEntry(d, at, layout.fields) = params
<1>0. PICK F, S : F = layout.fields /\ S = ToSet(layout.fields)
  OBVIOUS
<1>1. PICK N \in Nat :
        /\ F = layout.fields /\ N = Len(F) /\ S = ToSet(F) /\ S = {F[i] : i \in 1..N}
        /\ \A i, j \in 1..N : F[i] = F[j] => i = j
  <2>1. /\ Len(layout.fields) \in Nat
        /\ ToSet(layout.fields) = {layout.fields[i] : i \in 1..Len(layout.fields)}
    BY FieldsAre
  <2>2. \A i, j \in 1..Len(layout.fields) : layout.fields[i] = layout.fields[j] => i = j
    BY DEF Laid
  <2> QED BY <1>0, <2>1, <2>2
<1>2. params = [name \in S |-> params[name]] /\ DOMAIN params = S
  BY <1>1 DEF Complete
<1>3. ASSUME NEW name \in S, NEW id, id = CHOOSE i \in 0..(N - 1) : F[i + 1] = name
      PROVE  {ReadValue(d, name, pos) : pos \in FieldAt(d, at, id)} = params[name]
  <2>1. id \in 0..(N - 1) /\ F[id + 1] = name
    <3>1. PICK i \in 1..N : F[i] = name
      BY <1>1
    <3>2. i - 1 \in 0..(N - 1) /\ (i - 1) + 1 = i
      OBVIOUS
    <3>3. \E j \in 0..(N - 1) : F[j + 1] = name
      BY <3>1, <3>2
    <3> QED BY <1>3, <3>3
  <2>2. PICK i \in 1..N : i = id + 1 /\ i - 1 = id /\ F[i] = name
    BY <2>1
  <2>3. FieldAt(d, at, id) = IF params[name] = Absent THEN {} ELSE {at + layout.at[name]}
    <3>1. FieldAt(d, at, i - 1) = IF params[F[i]] = Absent THEN {} ELSE {at + layout.at[F[i]]}
      BY <1>1 DEF IsTable, HasFields
    <3> QED BY <2>2, <3>1
  <2>4. CASE params[name] = Absent
    BY <2>3, <2>4 DEF Absent
  <2>5. CASE params[name] # Absent
    <3>1. PICK v : params[name] = {v} /\ The(params[name]) = v
      <4>1. PICK v : params[name] = {v}
        BY <1>1, <2>5 DEF Complete, Absent
      <4> QED BY <4>1, OnlyOne
    <3>2. PICK pos : pos = at + layout.at[name]
      OBVIOUS
    <3>3. name \in DOMAIN layout.at
      BY <1>1, <2>2, <2>5 DEF Fits
    <3>4. ReadValue(d, name, pos) = v
      <4>1. CASE name \in TailFields(layout)
        <5>1. PICK n \in 1..Len(layout.tail) : layout.tail[n][1] = name
          BY <4>1, TailFieldsAre
        <5>2. IsThere(layout, params, n) /\ SlotOf(layout, at, n) = pos
          BY <2>5, <3>2, <5>1 DEF IsThere, SlotOf
        <5>3. Reads(d, layout.tail[n][2], Follow(d, pos), v) /\ IsValue(layout.tail[n][2], v)
          BY <3>1, <5>1, <5>2 DEF IsTable, HasValues
        <5>4. Suits(layout.tail[n][2], name)
          BY <5>1 DEF Readable
        <5> QED BY <5>3, <5>4, ValueRead
      <4>2. CASE name \notin TailFields(layout)
        <5>1. name \notin Texts /\ name # "labels" /\ name # "histogram"
          BY <1>1, <2>2, <4>2 DEF Readable
        <5>2. IsScalar(layout, params, name)
          BY <1>2, <2>5, <4>2 DEF IsScalar
        <5>3. NumberAt(d, pos) = v
          BY <3>1, <3>2, <3>3, <5>2 DEF IsTable, HasFields
        <5> QED BY <5>1, <5>3 DEF ReadValue
      <4> QED BY <4>1, <4>2
    <3> QED BY <2>3, <2>5, <3>1, <3>2, <3>4
  <2> QED BY <2>4, <2>5
<1>4. ReadEntry(d, at, F) =
        [name \in S |->
            {ReadValue(d, name, pos) : pos \in FieldAt(d, at, CHOOSE i \in 0..(N - 1) : F[i + 1] = name)}]
  <2>1. ReadEntry(d, at, F) =
          [name \in ToSet(F) |->
              {ReadValue(d, name, pos) :
                  pos \in FieldAt(d, at, CHOOSE i \in 0..(Len(F) - 1) : F[i + 1] = name)}]
    BY Zenon DEF ReadEntry
  <2>2. ToSet(F) = S /\ Len(F) = N
    BY <1>1
  <2> QED BY <2>1, <2>2, Zenon
<1>5. \A name \in S :
        {ReadValue(d, name, pos) : pos \in FieldAt(d, at, CHOOSE i \in 0..(N - 1) : F[i + 1] = name)} = params[name]
  BY <1>3
<1>6. ReadEntry(d, at, F) = [name \in S |-> params[name]]
  BY <1>4, <1>5, Zenon
<1> QED BY <1>1, <1>2, <1>6

LEMMA LabelsAligned ==
    ASSUME NEW d, NEW pos, NEW labels \in Seq(LabelParam), Follow(d, pos) % 4 = 0,
           HasLabels(d, Follow(d, pos), labels)
    PROVE  TablesOnFours(d, pos) /\ \A label \in ToSet(TablesAt(d, pos)) : LabelOnFours(d, label)
<1>1. PICK N \in Nat : N = Len(labels)
  BY LenProperties
<1>2. PICK p : p = Follow(d, pos)
  OBVIOUS
<1>3. /\ NumberAt(d, p) = N
      /\ \A n \in 1..N : Follow(d, p + 4 * n) % 4 = 0 /\ LabelOnFours(d, Follow(d, p + 4 * n))
  BY <1>1, <1>2 DEF HasLabels, LabelFound
<1>4. PICK t : t = [n \in 1..N |-> Follow(d, p + 4 * n)]
  OBVIOUS
<1>5. TablesAt(d, pos) = t
  BY <1>2, <1>3, <1>4 DEF TablesAt
<1>6. \A table \in ToSet(t) : table % 4 = 0 /\ LabelOnFours(d, table)
  BY <1>3, <1>4 DEF ToSet
<1> QED BY <1>5, <1>6 DEF TablesOnFours

LEMMA ValueAligned ==
    ASSUME NEW d, NEW pos, NEW type, NEW name, NEW v, Suits(type, name), IsValue(type, v),
           Follow(d, pos) % 4 = 0, Reads(d, type, Follow(d, pos), v)
    PROVE  ValueOnFours(d, name, pos)
<1>1. CASE type = "labels"
  <2>1. name = "labels" /\ v \in Seq(LabelParam) /\ HasLabels(d, Follow(d, pos), v)
    BY <1>1 DEF Suits, IsValue, Reads
  <2>2. TablesOnFours(d, pos) /\ \A label \in ToSet(TablesAt(d, pos)) : LabelOnFours(d, label)
    BY <2>1, LabelsAligned
  <2> QED BY <2>1, <2>2 DEF ValueOnFours
<1>2. CASE type = "histogram"
  <2>1. name = "histogram" /\ \A at \in FieldAt(d, Follow(d, pos), 2) : TablesOnFours(d, at)
    BY <1>2 DEF Suits, Reads, HistogramFound
  <2> QED BY <2>1 DEF ValueOnFours
<1>3. CASE type # "labels" /\ type # "histogram"
  <2>1. name # "labels" /\ name # "histogram"
    BY <1>3 DEF Suits, Texts
  <2> QED BY <2>1 DEF ValueOnFours
<1> QED BY <1>1, <1>2, <1>3

\* Offsets lead to multiples of four.
LEMMA EntryAligned ==
    ASSUME NEW layout, NEW places, NEW params, Laid(layout, places), Readable(layout),
           HasValues(layout, params), NEW d, NEW at, IsTable(d, at, layout, params)
    PROVE  EntryOnFours(d, at, layout.fields)
<1>1. PICK F, N : N \in Nat /\ F = layout.fields /\ N = Len(F)
  <2>1. /\ Len(layout.fields) \in Nat
        /\ ToSet(layout.fields) = {layout.fields[i] : i \in 1..Len(layout.fields)}
    BY FieldsAre
  <2> QED BY <2>1
<1>2. ASSUME NEW i \in 1..N, NEW pos \in FieldAt(d, at, i - 1)
      PROVE  ValueOnFours(d, F[i], pos)
  <2>1. FieldAt(d, at, i - 1) = IF params[F[i]] = Absent THEN {} ELSE {at + layout.at[F[i]]}
    BY <1>1 DEF IsTable, HasFields
  <2>2. params[F[i]] # Absent /\ pos = at + layout.at[F[i]]
    BY <1>2, <2>1
  <2>3. CASE F[i] \in TailFields(layout)
    <3>1. PICK n \in 1..Len(layout.tail) : layout.tail[n][1] = F[i]
      BY <2>3, TailFieldsAre
    <3>2. IsThere(layout, params, n) /\ SlotOf(layout, at, n) = pos
      BY <2>2, <3>1 DEF IsThere, SlotOf
    <3>3. PICK type, v : type = layout.tail[n][2] /\ v = The(params[layout.tail[n][1]])
      OBVIOUS
    <3>4. Follow(d, pos) % 4 = 0 /\ Reads(d, type, Follow(d, pos), v) /\ IsValue(type, v)
      BY <3>2, <3>3 DEF IsTable, HasValues
    <3>5. Suits(type, F[i])
      BY <3>1, <3>3 DEF Readable
    <3> QED BY <3>4, <3>5, ValueAligned
  <2>4. CASE F[i] \notin TailFields(layout)
    <3>1. F[i] \notin Texts \cup {"labels", "histogram"}
      BY <1>1, <2>4 DEF Readable
    <3> QED BY <3>1 DEF ValueOnFours
  <2> QED BY <2>3, <2>4
<1> QED BY <1>1, <1>2 DEF EntryOnFours

\* An entry and where its table is, as its writer in a vector returns them.
EntryBehind(b, layout, params) ==
    [buf |-> EntryInto(b, layout, params), at |-> TableOf(EntryInto(b, layout, params), Len(b))]

EntryVector(b, layout, entries) ==
    TableVector(b, entries, LAMBDA x, params : EntryBehind(x, layout, params))

\* It writes entry after entry.
LEMMA EntriesAre ==
    ASSUME NEW b, NEW entries, Len(entries) \in Nat, NEW layout, NEW g, NEW w, NEW W,
           VectorRunsBy(g, w, W, b, Len(entries)),
           \A n \in 1..Len(entries) : \A x \in Behind(VectorHead(b, Len(entries))) :
             W[<<n, x>>] = EntryBehind(Align4(x), layout, entries[n])
    PROVE  EntryVector(b, layout, entries) = PatchSlots(g[Len(entries)].buf, Len(b) + 4, g[Len(entries)].tables)
<1>1. PICK N \in Nat : N = Len(entries)
  OBVIOUS
<1>2. /\ g = [n \in 0..N |-> g[n]] /\ g[0] = [buf |-> VectorHead(b, N), tables |-> <<>>]
      /\ \A n \in 0..N : g[n] \in [buf : Behind(VectorHead(b, N)), tables : Seq(Nat)]
      /\ \A n \in 1..N : w[n] = W[<<n, g[n - 1].buf>>] /\ g[n] = OneMore(g[n - 1], w[n])
  BY <1>1 DEF VectorRunsBy, OneMore
<1> DEFINE upTo[n \in 0..N] ==
        IF n = 0 THEN [buf |-> VectorHead(b, N), tables |-> <<>>]
        ELSE OneMore(upTo[n - 1], EntryBehind(Align4(upTo[n - 1].buf), layout, entries[n]))
<1>3. EntryVector(b, layout, entries) = PatchSlots(upTo[N].buf, Len(b) + 4, upTo[N].tables)
  BY <1>1, Zenon DEF EntryVector, TableVector, upTo, OneMore
<1>4. ASSUME NEW n \in 1..N PROVE g[n] = OneMore(g[n - 1], EntryBehind(Align4(g[n - 1].buf), layout, entries[n]))
  <2>1. n - 1 \in 0..N
    OBVIOUS
  <2>2. g[n - 1].buf \in Behind(VectorHead(b, N))
    BY <1>2, <2>1
  <2>3. w[n] = EntryBehind(Align4(g[n - 1].buf), layout, entries[n])
    BY <1>1, <1>2, <2>2
  <2> QED BY <1>2, <2>3
<1>5. \E f : f = [n \in 0..N |->
          IF n = 0 THEN [buf |-> VectorHead(b, N), tables |-> <<>>]
          ELSE OneMore(f[n - 1], EntryBehind(Align4(f[n - 1].buf), layout, entries[n]))]
  <2>1. \A n \in 0..N : g[n] =
          IF n = 0 THEN [buf |-> VectorHead(b, N), tables |-> <<>>]
          ELSE OneMore(g[n - 1], EntryBehind(Align4(g[n - 1].buf), layout, entries[n]))
    <3>1. \A n \in 0..N : n = 0 \/ (n # 0 /\ n \in 1..N)
      OBVIOUS
    <3> QED BY <1>2, <1>4, <3>1, Zenon
  <2> QED BY <1>2, <2>1
<1>6. upTo = [n \in 0..N |->
          IF n = 0 THEN [buf |-> VectorHead(b, N), tables |-> <<>>]
          ELSE OneMore(upTo[n - 1], EntryBehind(Align4(upTo[n - 1].buf), layout, entries[n]))]
  BY <1>5, Zenon DEF upTo
<1> HIDE DEF upTo
<1>7. upTo[N] = g[N]
  <2>1. \A n \in 0..N : upTo[n] =
          IF n = 0 THEN [buf |-> VectorHead(b, N), tables |-> <<>>]
          ELSE OneMore(upTo[n - 1], EntryBehind(Align4(upTo[n - 1].buf), layout, entries[n]))
    BY <1>6, Zenon
  <2>2. 0 \in 0..N /\ N \in 0..N /\ \A n \in 1..N : n \in 0..N /\ n # 0
    OBVIOUS
  <2>3. upTo[0] = g[0]
    BY <1>2, <2>1, <2>2, Zenon
  <2>4. \A n \in 1..N : upTo[n - 1] = g[n - 1] => upTo[n] = g[n]
    BY <1>4, <2>1, <2>2, Zenon
  <2>5. \A n \in 0..N : upTo[n] = g[n]
    BY <2>3, <2>4, SameTo, SMTT(30), ZenonT(30)
  <2> QED BY <2>2, <2>5, Zenon
<1> QED BY <1>1, <1>3, <1>7, Zenon

\* A vector of entries as a reader finds it.
HasEntries(d, at, layout, entries) ==
    /\ NumberAt(d, at) = Len(entries)
    /\ \A n \in 1..Len(entries) :
         Follow(d, at + 4 * n) % 4 = 0 /\ IsTable(d, Follow(d, at + 4 * n), layout, entries[n])

LEMMA EntriesWritten ==
    ASSUME NEW layout, NEW places, Laid(layout, places), NEW entries, Len(entries) \in Nat,
           \A n \in 1..Len(entries) : Fits(entries[n], layout) /\ HasValues(layout, entries[n]),
           NEW b \in Seq(Cell), Len(b) % 4 = 0, NEW c, c = EntryVector(b, layout, entries)
    PROVE  /\ Continues(c, b) /\ Len(b) + 4 <= Len(c)
           /\ \A d : Keeps(d, c, Len(b)) => HasEntries(d, Len(b), layout, entries)
           /\ \E g, w, W : /\ VectorRunsBy(g, w, W, b, Len(entries))
                           /\ \A n \in 1..Len(entries) : \A x \in Behind(VectorHead(b, Len(entries))) :
                                W[<<n, x>>] = EntryBehind(Align4(x), layout, entries[n])
<1>1. PICK N \in Nat : N = Len(entries)
  OBVIOUS
<1>2. PICK H, S : H = VectorHead(b, N) /\ S = Behind(H)
  OBVIOUS
<1>3. PICK W : \A n \in 1..N : \A x \in S : W[<<n, x>>] = EntryBehind(Align4(x), layout, entries[n])
  <2> DEFINE W == [y \in (1..N) \X S |-> EntryBehind(Align4(y[2]), layout, entries[y[1]])]
  <2>1. ASSUME NEW n \in 1..N, NEW x \in S
        PROVE  W[<<n, x>>] = EntryBehind(Align4(x), layout, entries[n])
    <3>1. PICK y : y = <<n, x>>
      OBVIOUS
    <3>2. y \in (1..N) \X S /\ y[1] = n /\ y[2] = x
      BY <3>1
    <3>3. W[y] = EntryBehind(Align4(y[2]), layout, entries[y[1]])
      BY <3>2
    <3> HIDE DEF W
    <3> QED BY <3>1, <3>2, <3>3
  <2> HIDE DEF W
  <2> QED BY <2>1
<1>4. ASSUME NEW n \in 1..N, NEW x \in S
      PROVE  /\ Wrote(W[<<n, x>>], Align4(x))
             /\ \A d : Keeps(d, W[<<n, x>>].buf, Len(Align4(x)))
                         => IsTable(d, W[<<n, x>>].at, layout, entries[n])
  <2>1. PICK y \in Seq(Cell) : y = Align4(x) /\ Len(y) % 4 = 0
    BY <1>2, AlignedBehind DEF Behind
  <2>2. PICK params, e, t :
          /\ params = entries[n] /\ e = EntryInto(y, layout, params)
          /\ t = [buf |-> e, at |-> TableOf(e, Len(y))]
    OBVIOUS
  <2>3. Fits(params, layout) /\ HasValues(layout, params)
    BY <1>1, <2>2
  <2>4. Wrote(t, y) /\ \A d : Keeps(d, e, Len(y)) => IsTable(d, t.at, layout, params)
    BY <2>1, <2>2, <2>3, EntryWritten
  <2>5. W[<<n, x>>] = t /\ t.buf = e
    <3>1. W[<<n, x>>] = EntryBehind(y, layout, params)
      BY <1>3, <2>1, <2>2
    <3> QED BY <2>2, <3>1 DEF EntryBehind
  <2> QED BY <2>1, <2>2, <2>4, <2>5
<1>5. PICK g, w : VectorRunsBy(g, w, W, b, N)
  <2>1. VectorWriters(W, b, N)
    BY <1>2, <1>4 DEF VectorWriters
  <2> QED BY <2>1, VectorRuns
<1>6. c = PatchSlots(g[N].buf, Len(b) + 4, g[N].tables)
  BY <1>1, <1>2, <1>3, <1>5, EntriesAre
<1>8. VectorMade(c, g, w, b, N)
  BY <1>5, <1>6, VectorKept
<1>11. ASSUME NEW d, Keeps(d, c, Len(b)) PROVE HasEntries(d, Len(b), layout, entries)
  <2>1. /\ NumberAt(d, Len(b)) = N
        /\ \A n \in 1..N :
             /\ Follow(d, Len(b) + 4 * n) = w[n].at
             /\ Keeps(d, w[n].buf, Len(Align4(g[n - 1].buf)))
    BY <1>8, <1>11 DEF VectorMade
  <2>2. ASSUME NEW n \in 1..N
        PROVE  /\ Follow(d, Len(b) + 4 * n) % 4 = 0
               /\ IsTable(d, Follow(d, Len(b) + 4 * n), layout, entries[n])
    <3>1. n - 1 \in 0..N
      OBVIOUS
    <3>2. PICK x \in S : x = g[n - 1].buf
      BY <1>2, <1>5, <3>1 DEF VectorRunsBy
    <3>3. w[n] = W[<<n, x>>]
      BY <1>5, <3>2 DEF VectorRunsBy
    <3>4. Keeps(d, W[<<n, x>>].buf, Len(Align4(x)))
      BY <2>1, <3>2, <3>3
    <3>5. IsTable(d, W[<<n, x>>].at, layout, entries[n]) /\ W[<<n, x>>].at % 4 = 0
      BY <1>4, <3>4 DEF Wrote
    <3> QED BY <2>1, <3>3, <3>5
  <2> QED BY <1>1, <2>1, <2>2 DEF HasEntries
<1>12. \E f, v, V : /\ VectorRunsBy(f, v, V, b, Len(entries))
                    /\ \A n \in 1..Len(entries) : \A x \in Behind(VectorHead(b, Len(entries))) :
                         V[<<n, x>>] = EntryBehind(Align4(x), layout, entries[n])
  BY <1>1, <1>2, <1>3, <1>5
<1> QED BY <1>8, <1>11, <1>12 DEF VectorMade
-----------------------------------------------------------------------------
(* The header *)

HeaderPlaces == [n \in 0..6 |-> IF n <= 4 THEN 2 * n ELSE 4 * (n - 2)]

\* The header of an empty buffer: the root offset leads to the table at 12, its
\* vtable is at 4, and its only field is the offset at 16.
HeaderIs(h) ==
    /\ h \in Seq(Cell) /\ Len(h) = 20
    /\ h[1] = 12 /\ h[9] = 4 /\ h[13] = 8

LEMMA HeaderWritten == HeaderIs(WithHeader(<<>>)) /\ Align4(WithHeader(<<>>)) = WithHeader(<<>>)
<1>1. Len(Header) = 6 /\ \A n \in 1..6 : Header[n][1] \in Cell /\ Header[n][2] \in {2, 4}
  BY Cells DEF Header
<1>2. PICK ss : ss = [i \in 1..Len(Header) |-> Number(Header[i][2], Header[i][1])]
  OBVIOUS
<1>3. \A n \in 1..6 : ss[n] \in Seq(Cell) /\ Len(ss[n]) = Header[n][2] /\ ss[n][1] = Header[n][1]
  BY <1>1, <1>2, Two, Four, ZenonT(30)
<1>4. ss \in Seq(Seq(Cell)) /\ Len(ss) = 6 /\ ss # <<>>
  <2>1. PICK P : P = Seq(Cell)
    OBVIOUS
  <2>2. ss = [i \in 1..6 |-> ss[i]] /\ \A i \in 1..6 : ss[i] \in P
    BY <1>1, <1>2, <1>3, <2>1
  <2>3. ss \in Seq(P) /\ Len(ss) = 6
    BY <2>2, Mapped
  <2>4. ss # <<>>
    <3>1. Len(<<>>) = 0
      BY EmptySeq
    <3>2. 6 # 0
      OBVIOUS
    <3> QED BY <2>3, <3>1, <3>2, Zenon
  <2> QED BY <2>1, <2>3, <2>4
<1>5. PICK p : p = HeaderPlaces
  OBVIOUS
<1>6. p \in [0..6 -> Nat] /\ p[0] = 0 /\ p[1] = 2 /\ p[2] = 4 /\ p[3] = 6 /\ p[4] = 8 /\ p[5] = 12 /\ p[6] = 16
  BY <1>5 DEF HeaderPlaces
<1>7. \A n \in 1..6 : p[n] = p[n - 1] + Len(ss[n])
  <2>1. \A n \in 1..6 : p[n] = p[n - 1] + Header[n][2]
    BY <1>5 DEF HeaderPlaces, Header
  <2> QED BY <1>3, <2>1
<1>8. PICK F \in Seq(Cell) : /\ F = FlattenSeq(ss) /\ Len(F) = 16
        /\ \A n \in 1..6 : F[p[n - 1] + 1] = Header[n][1]
  <2>1. /\ Flat(ss) \in Seq(Cell) /\ Len(Flat(ss)) = p[Len(ss)]
        /\ \A n \in 1..Len(ss) : \A j \in 1..Len(ss[n]) : Flat(ss)[p[n - 1] + j] = ss[n][j]
    <3>1. p \in [0..Len(ss) -> Nat] /\ p[0] = 0
      BY <1>4, <1>6
    <3>2. \A n \in 1..Len(ss) : p[n] = p[n - 1] + Len(ss[n])
      BY <1>4, <1>7
    <3> QED BY <1>4, <3>1, <3>2, FlatAt, Zenon
  <2>2. \A n \in 1..6 : 1 \in 1..Len(ss[n])
    <3>1. \A k \in {2, 4} : 1 \in 1..k
      OBVIOUS
    <3> QED BY <1>1, <1>3, <3>1, Zenon
  <2>3. \A n \in 1..6 : Flat(ss)[p[n - 1] + 1] = Header[n][1]
    BY <1>3, <1>4, <2>1, <2>2
  <2> QED BY <1>4, <1>6, <2>1, <2>3, FlattenIsFlat
<1>9. F[5] = 4 /\ F[9] = 8
  <2>1. 3 \in 1..6 /\ 5 \in 1..6 /\ 3 - 1 = 2 /\ 5 - 1 = 4
    OBVIOUS
  <2>2. F[p[3 - 1] + 1] = Header[3][1] /\ F[p[5 - 1] + 1] = Header[5][1]
    BY <1>8, <2>1
  <2>3. Header[3][1] = 4 /\ Header[5][1] = 8
    BY DEF Header
  <2> QED BY <1>6, <2>1, <2>2, <2>3
<1>10. PICK r \in Seq(Cell) : r = Number(4, 12) /\ Len(r) = 4 /\ r[1] = 12
  <2>1. 12 \in Cell
    BY Cells
  <2> QED BY <2>1, Four
<1>11. PICK h \in Seq(Cell) :
        /\ h = r \o F /\ Continues(h, r) /\ Len(h) = Len(r) + Len(F)
        /\ \A i \in 1..Len(F) : h[Len(r) + i] = F[i]
  BY Put
<1>a. PICK k \in Nat, l \in Nat : k = Len(F) /\ l = Len(r) /\ k = 16 /\ l = 4
  BY <1>8, <1>10
<1>b. Len(h) = l + k /\ \A i \in 1..k : h[l + i] = F[i]
  BY <1>11, <1>a, Zenon
<1>c. h[1] = r[1]
  <2>1. 1 \in 1..Len(r)
    BY <1>a
  <2> QED BY <1>11, <2>1, Zenon DEF Continues
<1>12. WithHeader(<<>>) = h
  <2>1. <<>> \o r = r
    BY ConcatEmptySeq
  <2>2. WithHeader(<<>>) = (<<>> \o Number(4, 12)) \o FlattenSeq(ss)
    BY <1>2, Zenon DEF WithHeader
  <2> QED BY <1>8, <1>10, <1>11, <2>1, <2>2
<1>13. HeaderIs(h)
  <2>1. Len(h) = 20
    BY <1>a, <1>b
  <2>2. h[1] = 12
    BY <1>10, <1>c
  <2>3. h[4 + 5] = F[5] /\ h[4 + 9] = F[9]
    BY <1>a, <1>b
  <2> QED BY <1>9, <2>1, <2>2, <2>3 DEF HeaderIs
<1>14. Align4(h) = h
  <2>1. Len(h) % 4 = 0
    BY <1>13 DEF HeaderIs
  <2> QED BY <2>1, AlignedBehind
<1> QED BY <1>12, <1>13, <1>14
-----------------------------------------------------------------------------
(* The data of a batch *)

LEMMA DataIs ==
    ASSUME NEW layout, NEW entries
    PROVE  DataInto(<<>>, layout, entries) =
               Patch(EntryVector(Align4(WithHeader(<<>>)), layout, entries),
                     Len(<<>>) + EntriesAt, Len(Align4(WithHeader(<<>>))))
BY Zenon DEF DataInto, EntryVector, TableVector, EntryBehind

LEMMA DataWritten ==
    ASSUME NEW layout, NEW places, Laid(layout, places), NEW entries, Len(entries) \in Nat,
           \A n \in 1..Len(entries) : Fits(entries[n], layout) /\ HasValues(layout, entries[n]),
           NEW D, D = DataInto(<<>>, layout, entries)
    PROVE  /\ D \in Seq(Cell)
           /\ Root(D) = 12 /\ FieldAt(D, 12, 0) = {16} /\ Follow(D, 16) = 20
           /\ HasEntries(D, 20, layout, entries)
<1>1. PICK h \in Seq(Cell) : h = WithHeader(<<>>) /\ HeaderIs(h) /\ Align4(WithHeader(<<>>)) = h
  BY HeaderWritten DEF HeaderIs
<1>2. Len(h) = 20 /\ Len(h) % 4 = 0
  <2>1. Len(h) = 20
    BY <1>1 DEF HeaderIs
  <2>2. 20 % 4 = 0
    OBVIOUS
  <2> QED BY <2>1, <2>2
<1>3. PICK c : c = EntryVector(h, layout, entries)
  OBVIOUS
<1>4. /\ Continues(c, h) /\ Len(h) + 4 <= Len(c)
      /\ \A d : Keeps(d, c, Len(h)) => HasEntries(d, Len(h), layout, entries)
  BY <1>2, <1>3, EntriesWritten
<1>5. PICK e \in Seq(Cell), m \in Nat :
        e = c /\ m = Len(e) /\ 24 <= m /\ \A j \in 1..20 : e[j] = h[j]
  <2>1. c \in Seq(Cell) /\ Len(c) \in Nat
    BY <1>4, LenProperties DEF Continues
  <2>2. \A j \in 1..Len(h) : c[j] = h[j]
    BY <1>4 DEF Continues
  <2>3. 20 + 4 <= Len(c) /\ \A j \in 1..20 : c[j] = h[j]
    BY <1>2, <1>4, <2>2
  <2>4. 24 <= Len(c)
    BY <2>1, <2>3
  <2> QED BY <2>1, <2>3, <2>4
<1>6. D = Patch(e, 16, 20)
  <2>1. Len(<<>>) + EntriesAt = 16
    BY DEF EntriesAt
  <2> QED BY <1>1, <1>2, <1>3, <1>5, <2>1, DataIs
<1>7. /\ D \in Seq(Cell) /\ Len(D) = m
      /\ \A j \in 1..m : D[j] = IF j = 17 THEN 4 ELSE e[j]
  <2>1. PICK at \in Nat, target \in Nat : at = 16 /\ target = 20 /\ at + 1 \in 1..Len(e) /\ target >= at
    BY <1>5
  <2>2. /\ Patch(e, at, target) \in Seq(Cell) /\ Len(Patch(e, at, target)) = Len(e)
        /\ \A j \in 1..Len(e) : Patch(e, at, target)[j] = IF j = at + 1 THEN target - at ELSE e[j]
    BY <2>1, Patched
  <2> QED BY <1>5, <1>6, <2>1, <2>2
<1>8. D[1] = 12 /\ D[9] = 4 /\ D[13] = 8 /\ D[17] = 4
  <2>1. 1 \in 1..20 /\ 9 \in 1..20 /\ 13 \in 1..20 /\ 17 \in 1..m /\ 1 \in 1..m /\ 9 \in 1..m /\ 13 \in 1..m
    <3>1. 24 <= m
      BY <1>5
    <3> QED BY <3>1
  <2>2. D[1] = h[1] /\ D[9] = h[9] /\ D[13] = h[13] /\ D[17] = 4
    <3>1. D[1] = e[1] /\ D[9] = e[9] /\ D[13] = e[13] /\ D[17] = 4
      BY <1>7, <2>1
    <3>2. e[1] = h[1] /\ e[9] = h[9] /\ e[13] = h[13]
      BY <1>5, <2>1
    <3> QED BY <3>1, <3>2
  <2> QED BY <1>1, <2>2 DEF HeaderIs
<1>9. Root(D) = 12
  BY <1>8 DEF Root, NumberAt
<1>10. FieldAt(D, 12, 0) = {16}
  BY <1>8 DEF FieldAt, VTableAt, NumberAt
<1>11. Follow(D, 16) = 20
  BY <1>8 DEF Follow, NumberAt
<1>12. Keeps(D, e, 20)
  <2>1. \A j \in 21..m : j \in 1..m /\ j # 17
    OBVIOUS
  <2>2. \A j \in 21..m : D[j] = e[j]
    BY <1>7, <2>1
  <2>3. \A j \in (20 + 1)..Len(e) : D[j] = e[j]
    BY <1>5, <2>2
  <2>4. Len(e) <= Len(D)
    BY <1>5, <1>7
  <2> QED BY <1>7, <2>3, <2>4 DEF Keeps
<1> QED BY <1>2, <1>4, <1>5, <1>7, <1>9, <1>10, <1>11, <1>12

\* What finish_batch passes to encode_batch.
BatchParams(key, schema_type, version, id, data) ==
    [api_key |-> {key}, schema_type |-> {schema_type}, version |-> {version}, batch_id |-> {id},
     source_ip |-> {}, data |-> {data}]

LEMMA BatchTail == /\ BatchTable.tail[1][1] = "api_key" /\ BatchTable.tail[1][2] = "bytes"
                   /\ BatchTable.tail[2][1] = "data" /\ BatchTable.tail[2][2] = "bytes"
                   /\ TailFields(BatchTable) = {"api_key", "data"}
<1>1. BatchTable.tail = << <<"api_key", "bytes">>, <<"data", "bytes">> >>
  BY DEF BatchTable
<1>2. PICK T : T = BatchTable.tail /\ DOMAIN T = 1..2 /\ T[1] = <<"api_key", "bytes">> /\ T[2] = <<"data", "bytes">>
  BY <1>1
<1>3. TailFields(BatchTable) = {part[1] : part \in {T[i] : i \in 1..2}}
  BY <1>2 DEF TailFields, ToSet
<1>4. {T[i] : i \in 1..2} = {<<"api_key", "bytes">>, <<"data", "bytes">>}
  BY <1>2
<1> QED BY <1>2, <1>3, <1>4

LEMMA BatchParamsAre ==
    ASSUME NEW key, NEW schema_type, NEW version, NEW id, NEW data,
           NEW P, P = BatchParams(key, schema_type, version, id, data)
    PROVE  /\ DOMAIN P = {"api_key", "schema_type", "version", "batch_id", "source_ip", "data"}
           /\ P["api_key"] = {key} /\ P["schema_type"] = {schema_type} /\ P["version"] = {version}
           /\ P["batch_id"] = {id} /\ P["source_ip"] = {} /\ P["data"] = {data}
           /\ P["api_key"] # Absent /\ P["schema_type"] # Absent /\ P["version"] # Absent
           /\ P["data"] # Absent /\ P["source_ip"] = Absent
           /\ The(P["api_key"]) = key /\ The(P["schema_type"]) = schema_type
           /\ The(P["version"]) = version /\ The(P["batch_id"]) = id /\ The(P["data"]) = data
<1>1. /\ DOMAIN P = {"api_key", "schema_type", "version", "batch_id", "source_ip", "data"}
      /\ P["api_key"] = {key} /\ P["schema_type"] = {schema_type} /\ P["version"] = {version}
      /\ P["batch_id"] = {id} /\ P["source_ip"] = {} /\ P["data"] = {data}
  BY DEF BatchParams
<1> QED BY <1>1, OnlyOne, Zenon DEF Absent

LEMMA BatchFits ==
    ASSUME NEW key \in Seq(Cell), NEW schema_type \in Cell, NEW version \in Cell, NEW id \in Cell,
           NEW data \in Seq(Cell), NEW P, P = BatchParams(key, schema_type, version, id, data)
    PROVE  Fits(P, BatchTable) /\ OnlyTexts(BatchTable, P)
<1>1. /\ DOMAIN P = {"api_key", "schema_type", "version", "batch_id", "source_ip", "data"}
      /\ P["source_ip"] = Absent
      /\ The(P["api_key"]) = key /\ The(P["schema_type"]) = schema_type
      /\ The(P["version"]) = version /\ The(P["batch_id"]) = id /\ The(P["data"]) = data
  BY BatchParamsAre
<1>2. Len(BatchTable.fields) = 6 /\ Len(BatchTable.tail) = 2
  BY BatchLaid
<1>3. \A i \in 1..6 : BatchTable.fields[i] = "source_ip" \/ BatchTable.fields[i] \in DOMAIN BatchTable.at
  BY DEF BatchTable
<1>4. \A name \in DOMAIN P \ {"api_key", "data"} : name = "source_ip" \/ The(P[name]) \in Cell
  BY <1>1
<1>5. Fits(P, BatchTable)
  BY <1>1, <1>2, <1>3, <1>4, BatchTail DEF Fits
<1>6. ASSUME NEW n \in 1..2
      PROVE  BatchTable.tail[n][2] # "histogram" /\ The(P[BatchTable.tail[n][1]]) \in Seq(Cell)
  <2>1. CASE n = 1
    BY <1>1, <2>1, BatchTail
  <2>2. CASE n = 2
    BY <1>1, <2>2, BatchTail
  <2> QED BY <2>1, <2>2
<1> QED BY <1>2, <1>5, <1>6 DEF OnlyTexts

\* How far the head of a batch reaches: its table is at 20.
LEMMA BatchHead ==
    ASSUME NEW P, Fits(P, BatchTable), NEW z \in Seq(Cell), Len(z) = 4, NEW h, h = TableHead(z, BatchTable, P)
    PROVE  h.at = 20 /\ h.buf \in Seq(Cell) /\ Len(h.buf) = 48
<1>1. PICK V \in Seq(Cell) : V = VTable(BatchTable, P) /\ Len(V) = 16
  <2>1. Len(BatchTable.fields) = 6 /\ Laid(BatchTable, BatchPlaces)
    BY BatchLaid
  <2>2. VTable(BatchTable, P) \in Seq(Cell) /\ Len(VTable(BatchTable, P)) = 4 + 2 * Len(BatchTable.fields)
    BY <2>1, VTableWritten
  <2>3. Len(VTable(BatchTable, P)) = 16
    BY <2>1, <2>2
  <2> QED BY <2>2, <2>3
<1>2. PICK c \in Seq(Cell) : c = z \o V /\ Len(c) = 20
  <2>1. PICK c \in Seq(Cell) : c = z \o V /\ Len(c) = Len(z) + Len(V)
    BY Put
  <2>2. Len(c) = 20
    BY <1>1, <2>1
  <2> QED BY <2>1, <2>2
<1>3. PICK e \in Seq(Cell) : e = Padded(c, BatchTable.pad) /\ Len(e) = 20
  <2>1. BatchTable.pad = 0 /\ 0 # ToAlign
    BY DEF BatchTable, ToAlign
  <2>2. PICK n \in Nat : n = 0
    OBVIOUS
  <2>3. PICK o \in Seq(Cell) : o = Zeros(n) /\ Len(o) = n
    BY <2>2, ZerosAre
  <2>4. PICK e \in Seq(Cell) : e = c \o o /\ Len(e) = Len(c) + Len(o)
    BY Put
  <2>5. Len(e) = 20
    BY <1>2, <2>2, <2>3, <2>4
  <2>6. Padded(c, BatchTable.pad) = c \o Zeros(0)
    BY <2>1, Zenon DEF Padded
  <2> QED BY <2>2, <2>3, <2>4, <2>5, <2>6
<1>4. h.at = 20
  <2>1. h.at = Len(Padded(z \o VTable(BatchTable, P), BatchTable.pad))
    BY DEF TableHead
  <2> QED BY <1>1, <1>2, <1>3, <2>1
<1>5. HeadWritten(h.buf, z, h.at, BatchTable, BatchPlaces, P) /\ h.buf \in Seq(Cell)
  <2>1. PICK layout, places : layout = BatchTable /\ places = BatchPlaces
    OBVIOUS
  <2>2. Laid(layout, places) /\ Fits(P, layout) /\ CanStart(layout, z) /\ h = TableHead(z, layout, P)
    <3>1. 4 % 4 = 0
      OBVIOUS
    <3> QED BY <2>1, <3>1, BatchLaid DEF CanStart
  <2>3. HeadWritten(h.buf, z, h.at, layout, places, P) /\ h.buf \in Seq(Cell)
    BY <2>2, TableHeadWritten
  <2> QED BY <2>1, <2>3
<1>6. Len(h.buf) = h.at + BatchPlaces[7 + 1]
  BY <1>5, BatchLaid DEF HeadWritten
<1>7. BatchPlaces[7 + 1] = 28
  BY DEF BatchPlaces
<1> QED BY <1>4, <1>5, <1>6, <1>7

LEMMA BatchWritten ==
    ASSUME NEW key \in Seq(Cell), Len(key) = 16, NEW schema_type \in Cell, NEW version \in Cell, NEW id \in Cell,
           NEW data \in Seq(Cell), NEW P, P = BatchParams(key, schema_type, version, id, data),
           NEW B, B = BatchInto(<<>>, P)
    PROVE  /\ B \in Seq(Cell) /\ Len(B) = 72 + Len(data)
           /\ Root(B) \in Nat /\ Root(B) % 4 = 0 /\ IsTextTable(B, Root(B), BatchTable, P)
<1>1. PICK z \in Seq(Cell) : z = Zeros(4) /\ Len(z) = 4 /\ <<>> \o Zeros(4) = z
  <2>1. PICK n \in Nat : n = 4
    OBVIOUS
  <2>2. Zeros(n) \in Seq(Cell) /\ Len(Zeros(n)) = n
    BY ZerosAre
  <2> QED BY <2>1, <2>2, ConcatEmptySeq
<1>2. Fits(P, BatchTable) /\ OnlyTexts(BatchTable, P)
  BY BatchFits
<1>3. PICK t : t = TableInto(z, BatchTable, P, AppendText)
  OBVIOUS
<1>4. PICK f :
        /\ Wrote(t, z) /\ t.at = TableHead(z, BatchTable, P).at
        /\ \A d : Keeps(d, t.buf, Len(z)) => IsTextTable(d, t.at, BatchTable, P)
        /\ f[0] = TableHead(z, BatchTable, P).buf /\ f[Len(BatchTable.tail)] = t.buf
        /\ TextLengths(f, BatchTable, P)
  <2>1. PICK layout, places : layout = BatchTable /\ places = BatchPlaces
    OBVIOUS
  <2>2. /\ Laid(layout, places) /\ Fits(P, layout) /\ OnlyTexts(layout, P) /\ CanStart(layout, z)
        /\ t = TableInto(z, layout, P, AppendText)
    <3>1. 4 % 4 = 0
      OBVIOUS
    <3> QED BY <1>1, <1>2, <1>3, <2>1, <3>1, BatchLaid DEF CanStart
  <2>3. /\ Wrote(t, z) /\ t.at = TableHead(z, layout, P).at
        /\ \A d : Keeps(d, t.buf, Len(z)) => IsTextTable(d, t.at, layout, P)
        /\ \E f : /\ f[0] = TableHead(z, layout, P).buf /\ f[Len(layout.tail)] = t.buf
                  /\ TextLengths(f, layout, P)
    <3>1. Wrote(t, z) /\ t.at = TableHead(z, layout, P).at
      BY <2>2, TextTable
    <3>2. \A d : Keeps(d, t.buf, Len(z)) => IsTextTable(d, t.at, layout, P)
      BY <2>2, TextTable
    <3>3. \E f : /\ f[0] = TableHead(z, layout, P).buf /\ f[Len(layout.tail)] = t.buf
                /\ TextLengths(f, layout, P)
      BY <2>2, TextTable, ZenonT(30)
    <3> QED BY <3>1, <3>2, <3>3
  <2> QED BY <2>1, <2>3
<1>5. PICK h : h = TableHead(z, BatchTable, P)
  OBVIOUS
<1>6. h.at = 20 /\ h.buf \in Seq(Cell) /\ Len(h.buf) = 48
  BY <1>1, <1>2, <1>5, BatchHead
<1>7. Len(BatchTable.tail) = 2
  BY BatchLaid
<1>8. /\ P["api_key"] # Absent /\ P["data"] # Absent
      /\ The(P["api_key"]) = key /\ The(P["data"]) = data
  BY BatchParamsAre
<1>9. PICK m \in Nat : m = Len(data)
  BY LenProperties
<1>10. Len(t.buf) = 72 + m
  <2>1. f[0] \in Seq(Cell) /\ f[1] \in Seq(Cell) /\ Len(f[0]) = 48
    <3>1. 1 \in 1..2 /\ 2 \in 1..2 /\ 1 - 1 = 0 /\ 2 - 1 = 1
      OBVIOUS
    <3>2. f[1 - 1] \in Seq(Cell) /\ f[2 - 1] \in Seq(Cell)
      BY <1>4, <1>7, <3>1 DEF TextLengths
    <3> QED BY <1>4, <1>5, <1>6, <3>1, <3>2
  <2>2. Terminator("bytes") = 0
    BY DEF Terminator
  <2>3. Len(f[1]) = Len(Align4(f[0])) + 4 + Len(key) + 0
    <3>1. 1 \in 1..2 /\ 1 - 1 = 0
      OBVIOUS
    <3>2. IsThere(BatchTable, P, 1)
      BY <1>8, BatchTail DEF IsThere
    <3>3. Len(f[1]) = Len(StartOf(f, BatchTable, 1)) + 4 + Len(The(P[BatchTable.tail[1][1]]))
                        + Terminator(BatchTable.tail[1][2])
      BY <1>4, <1>7, <3>1, <3>2 DEF TextLengths
    <3>4. StartOf(f, BatchTable, 1) = Align4(f[0])
      BY <3>1, BatchTail DEF StartOf, PartStart
    <3> QED BY <1>8, <2>2, <3>3, <3>4, BatchTail
  <2>4. Len(f[2]) = Len(Align4(f[1])) + 4 + Len(data) + 0
    <3>1. 2 \in 1..2 /\ 2 - 1 = 1
      OBVIOUS
    <3>2. IsThere(BatchTable, P, 2)
      BY <1>8, BatchTail DEF IsThere
    <3>3. Len(f[2]) = Len(StartOf(f, BatchTable, 2)) + 4 + Len(The(P[BatchTable.tail[2][1]]))
                        + Terminator(BatchTable.tail[2][2])
      BY <1>4, <1>7, <3>1, <3>2 DEF TextLengths
    <3>4. StartOf(f, BatchTable, 2) = Align4(f[1])
      BY <3>1, BatchTail DEF StartOf, PartStart
    <3> QED BY <1>8, <2>2, <3>3, <3>4, BatchTail
  <2>5. 48 % 4 = 0 /\ 68 % 4 = 0
    OBVIOUS
  <2>6. Align4(f[0]) = f[0]
    BY <2>1, <2>5, AlignedBehind, ZenonT(30)
  <2>7. Len(f[1]) = 68
    <3>1. Len(Align4(f[0])) = 48
      BY <2>1, <2>6
    <3>2. Len(f[1]) = 48 + 4 + 16 + 0
      BY <2>3, <3>1, Zenon
    <3> QED BY <3>2
  <2>8. Align4(f[1]) = f[1]
    BY <2>1, <2>5, <2>7, AlignedBehind, ZenonT(60)
  <2>9. Len(f[2]) = 72 + m
    <3>1. Len(Align4(f[1])) = 68
      BY <2>7, <2>8
    <3>2. Len(f[2]) = 68 + 4 + m + 0
      BY <1>9, <2>4, <3>1, Zenon
    <3> QED BY <3>2
  <2> QED BY <1>4, <1>7, <2>9
<1>11. PICK x \in Seq(Cell), a \in Nat : x = t.buf /\ a = t.at /\ Len(x) = 72 + m
  BY <1>4, <1>10 DEF Wrote, Continues
<1>12. B = Patch(x, 0, a)
  <2>1. Len(<<>>) + 1 = 1 /\ 0 + 1 = 1 /\ a - 0 = a
    OBVIOUS
  <2>2. B = [x EXCEPT ![Len(<<>>) + 1] = a]
    BY <1>1, <1>3, <1>11 DEF BatchInto
  <2> QED BY <2>1, <2>2 DEF Patch
<1>13. B \in Seq(Cell) /\ Len(B) = 72 + m /\ \A j \in 1..(72 + m) : B[j] = IF j = 1 THEN a ELSE x[j]
  <2>1. PICK at \in Nat : at = 0 /\ at + 1 = 1 /\ at + 1 \in 1..Len(x) /\ a >= at /\ a - at = a
    BY <1>11
  <2>2. /\ Patch(x, at, a) \in Seq(Cell) /\ Len(Patch(x, at, a)) = Len(x)
        /\ \A j \in 1..Len(x) : Patch(x, at, a)[j] = IF j = at + 1 THEN a - at ELSE x[j]
    BY <2>1, Patched
  <2> QED BY <1>11, <1>12, <2>1, <2>2
<1>14. Root(B) = a
  <2>1. B[0 + 1] = a
    BY <1>13
  <2> QED BY <2>1 DEF Root, NumberAt
<1>15. Keeps(B, x, 4)
  <2>1. \A j \in (4 + 1)..(72 + m) : j \in 1..(72 + m) /\ j # 1
    OBVIOUS
  <2>2. \A j \in (4 + 1)..(72 + m) : B[j] = x[j]
    BY <1>13, <2>1
  <2> QED BY <1>11, <1>13, <2>2 DEF Keeps
<1>16. IsTextTable(B, a, BatchTable, P)
  BY <1>1, <1>4, <1>11, <1>15
<1>17. a % 4 = 0
  BY <1>4, <1>11 DEF Wrote
<1> QED BY <1>9, <1>13, <1>14, <1>16, <1>17

LEMMA BatchRead ==
    ASSUME NEW key, NEW schema_type, NEW version, NEW id, NEW data,
           NEW P, P = BatchParams(key, schema_type, version, id, data),
           NEW d, NEW at \in Nat, IsTextTable(d, at, BatchTable, P)
    PROVE  /\ VectorAt(d, The(FieldAt(d, at, 0))) = key
           /\ Scalar(d, at, 1) = schema_type /\ Scalar(d, at, 2) = version
           /\ VectorAt(d, The(FieldAt(d, at, 4))) = data
           /\ \A field \in {0, 4} : \A pos \in FieldAt(d, at, field) : Follow(d, pos) % 4 = 0
<1>1. Len(BatchTable.fields) = 6 /\ Len(BatchTable.tail) = 2
  BY BatchLaid
<1>2. PICK F, A : F = BatchTable.fields /\ A = BatchTable.at
  OBVIOUS
<1>3. /\ F[1] = "api_key" /\ F[2] = "schema_type" /\ F[3] = "version" /\ F[5] = "data"
      /\ A["api_key"] = 4 /\ A["schema_type"] = 24 /\ A["version"] = 25 /\ A["data"] = 8
      /\ "schema_type" \in DOMAIN A /\ "version" \in DOMAIN A
  BY <1>2 DEF BatchTable
<1>4. /\ DOMAIN P = {"api_key", "schema_type", "version", "batch_id", "source_ip", "data"}
      /\ P["api_key"] # Absent /\ P["schema_type"] # Absent /\ P["version"] # Absent /\ P["data"] # Absent
      /\ The(P["api_key"]) = key /\ The(P["schema_type"]) = schema_type
      /\ The(P["version"]) = version /\ The(P["data"]) = data
  BY BatchParamsAre
<1>5. /\ FieldAt(d, at, 0) = {at + 4} /\ FieldAt(d, at, 1) = {at + 24}
      /\ FieldAt(d, at, 2) = {at + 25} /\ FieldAt(d, at, 4) = {at + 8}
  <2>1. \A i \in 1..6 : FieldAt(d, at, i - 1) = IF P[F[i]] = Absent THEN {} ELSE {at + A[F[i]]}
    BY <1>1, <1>2 DEF IsTextTable, HasFields
  <2>2. /\ 1 \in 1..6 /\ 2 \in 1..6 /\ 3 \in 1..6 /\ 5 \in 1..6
        /\ 1 - 1 = 0 /\ 2 - 1 = 1 /\ 3 - 1 = 2 /\ 5 - 1 = 4
    OBVIOUS
  <2>3. FieldAt(d, at, 1 - 1) = {at + 4} /\ FieldAt(d, at, 2 - 1) = {at + 24}
    BY <1>3, <1>4, <2>1, <2>2
  <2>4. FieldAt(d, at, 3 - 1) = {at + 25} /\ FieldAt(d, at, 5 - 1) = {at + 8}
    BY <1>3, <1>4, <2>1, <2>2
  <2> QED BY <2>2, <2>3, <2>4
<1>6. /\ The(FieldAt(d, at, 0)) = at + 4 /\ The(FieldAt(d, at, 1)) = at + 24
      /\ The(FieldAt(d, at, 2)) = at + 25 /\ The(FieldAt(d, at, 4)) = at + 8
  BY <1>5, OnlyOne, Zenon
<1>7. NumberAt(d, at + 24) = schema_type /\ NumberAt(d, at + 25) = version
  <2>1. IsScalar(BatchTable, P, "schema_type") /\ IsScalar(BatchTable, P, "version")
    BY <1>4, BatchTail DEF IsScalar
  <2>2. \A name \in DOMAIN A : IsScalar(BatchTable, P, name) => NumberAt(d, at + A[name]) = The(P[name])
    BY <1>2 DEF IsTextTable, HasFields
  <2> QED BY <1>3, <1>4, <2>1, <2>2
<1>8. /\ HasText(d, Follow(d, at + 4), key) /\ HasText(d, Follow(d, at + 8), data)
      /\ Follow(d, at + 4) % 4 = 0 /\ Follow(d, at + 8) % 4 = 0
  <2>1. 1 \in 1..2 /\ 2 \in 1..2
    OBVIOUS
  <2>2. IsThere(BatchTable, P, 1) /\ IsThere(BatchTable, P, 2)
    BY <1>4, BatchTail DEF IsThere
  <2>3. SlotOf(BatchTable, at, 1) = at + 4 /\ SlotOf(BatchTable, at, 2) = at + 8
    BY <1>2, <1>3, BatchTail DEF SlotOf
  <2>4. The(P[BatchTable.tail[1][1]]) = key /\ The(P[BatchTable.tail[2][1]]) = data
    BY <1>4, BatchTail
  <2>5. \A n \in 1..2 : IsThere(BatchTable, P, n) =>
          /\ Follow(d, SlotOf(BatchTable, at, n)) % 4 = 0
          /\ HasText(d, Follow(d, SlotOf(BatchTable, at, n)), The(P[BatchTable.tail[n][1]]))
    BY <1>1 DEF IsTextTable
  <2> QED BY <2>1, <2>2, <2>3, <2>4, <2>5
<1>9. VectorAt(d, at + 4) = key /\ VectorAt(d, at + 8) = data
  BY <1>8 DEF HasText, VectorAt
<1>10. \A field \in {0, 4} : \A pos \in FieldAt(d, at, field) : Follow(d, pos) % 4 = 0
  BY <1>5, <1>8
<1> QED BY <1>6, <1>7, <1>9, <1>10 DEF Scalar

\* What an Option holds.
Held(S, o) == o = {} \/ \E v \in S : o = {v}

LEMMA HeldIs ==
    \A S, o : /\ Held(S, o) /\ o # Absent => The(o) \in S
              /\ Held(S, o) => o = {} \/ \E v : o = {v}
BY OnlyOne DEF Held, Absent

LEMMA OptionHolds == \A S : \A o \in Optional(S) : Held(S, o)
BY DEF Optional, Held

LEMMA OneHeld == \A S : \A v \in S : Held(S, {v})
BY DEF Held

LEMMA NoneHeld == \A S : Held(S, {})
BY DEF Held

LEMMA EventNames ==
    /\ TailFields(EventTable) = {"device_id", "session_id", "service", "event_name", "payload"}
    /\ ToSet(EventTable.fields) = {"event_type", "timestamp", "service", "device_id", "session_id",
                                 "event_name", "payload"}
<1>1. PICK T, F : T = EventTable.tail /\ F = EventTable.fields
  OBVIOUS
<1>2. /\ DOMAIN T = 1..5
      /\ T[1][1] = "device_id" /\ T[2][1] = "session_id" /\ T[3][1] = "service"
      /\ T[4][1] = "event_name" /\ T[5][1] = "payload"
  BY <1>1 DEF EventTable
<1>3. /\ DOMAIN F = 1..7
      /\ F[1] = "event_type" /\ F[2] = "timestamp" /\ F[3] = "service"
      /\ F[4] = "device_id" /\ F[5] = "session_id" /\ F[6] = "event_name"
      /\ F[7] = "payload"
  BY <1>1 DEF EventTable
<1>4. TailFields(EventTable) = {T[i][1] : i \in 1..5}
  BY <1>1, <1>2 DEF TailFields, ToSet
<1>5. ToSet(EventTable.fields) = {F[i] : i \in 1..7}
  BY <1>1, <1>3 DEF ToSet
<1>6. {T[i][1] : i \in 1..5} = {"device_id", "session_id", "service", "event_name", "payload"}
  BY <1>2
<1>7. {F[i] : i \in 1..7} = {"event_type", "timestamp", "service", "device_id", "session_id", "event_name",
                     "payload"}
  BY <1>3
<1> QED BY <1>4, <1>5, <1>6, <1>7

LEMMA EventReadable == Readable(EventTable)
<1>1. Len(EventTable.fields) = 7 /\ Len(EventTable.tail) = 5
  BY EventLaid
<1>2. \A n \in 1..5 : Suits(EventTable.tail[n][2], EventTable.tail[n][1])
  <2>1. PICK T : T = EventTable.tail
    OBVIOUS
  <2>2. /\ T[1][1] = "device_id" /\ T[1][2] = "bytes"
        /\ T[2][1] = "session_id" /\ T[2][2] = "bytes"
        /\ T[3][1] = "service" /\ T[3][2] = "string"
        /\ T[4][1] = "event_name" /\ T[4][2] = "string"
        /\ T[5][1] = "payload" /\ T[5][2] = "bytes"
    BY <2>1 DEF EventTable
  <2>3. Suits(T[1][2], T[1][1])
    BY <2>2 DEF Suits, Texts
  <2>4. Suits(T[2][2], T[2][1])
    BY <2>2 DEF Suits, Texts
  <2>5. Suits(T[3][2], T[3][1])
    BY <2>2 DEF Suits, Texts
  <2>6. Suits(T[4][2], T[4][1])
    BY <2>2 DEF Suits, Texts
  <2>7. Suits(T[5][2], T[5][1])
    BY <2>2 DEF Suits, Texts
  <2> QED BY <2>1, <2>3, <2>4, <2>5, <2>6, <2>7
<1>3. \A i \in 1..7 : EventTable.fields[i] \notin TailFields(EventTable)
        => EventTable.fields[i] \notin Texts \cup {"labels", "histogram"}
  <2>1. PICK F : F = EventTable.fields
    OBVIOUS
  <2>2. /\ F[1] = "event_type" /\ F[2] = "timestamp" /\ F[3] = "service"
        /\ F[4] = "device_id" /\ F[5] = "session_id" /\ F[6] = "event_name"
        /\ F[7] = "payload"
    BY <2>1 DEF EventTable
  <2>3. \A i \in 1..7 : F[i] \in TailFields(EventTable) \/ F[i] \notin Texts \cup {"labels", "histogram"}
    BY <2>2, EventNames DEF Texts
  <2> QED BY <2>1, <2>3
<1> QED BY <1>1, <1>2, <1>3 DEF Readable

LEMMA EventParamsAre ==
    ASSUME NEW e \in QueuedEvent, NEW P, P = EventParams(e)
    PROVE  /\ P = [name \in {"event_type", "timestamp", "service", "device_id", "session_id",
                                 "event_name", "payload"} |-> P[name]]
           /\ Held(Nat, P["event_type"]) /\ Held(Nat, P["timestamp"])
           /\ Held(Bytes, P["service"]) /\ Held(Bytes, P["device_id"])
           /\ Held(Bytes, P["session_id"]) /\ Held(Bytes, P["event_name"])
           /\ Held(Bytes, P["payload"])
<1>1. /\ e.event_type \in Nat /\ e.timestamp \in Nat /\ e.device_id \in Bytes
      /\ e.session_id \in Optional(Bytes) /\ e.event_name \in Optional(Bytes) /\ e.payload \in Optional(Bytes)
      /\ Service \in Optional(Bytes)
  BY EncodingAssumption DEF QueuedEvent
<1>2. /\ P["event_type"] = {e.event_type} /\ P["timestamp"] = {e.timestamp} /\ P["service"] = Service
      /\ P["device_id"] = {e.device_id} /\ P["session_id"] = e.session_id
      /\ P["event_name"] = e.event_name /\ P["payload"] = e.payload
  BY DEF EventParams
<1>3. P = [name \in {"event_type", "timestamp", "service", "device_id", "session_id", "event_name",
                   "payload"} |-> P[name]]
  BY DEF EventParams
<1>4. /\ Held(Nat, P["event_type"]) /\ Held(Nat, P["timestamp"])
      /\ Held(Bytes, P["service"]) /\ Held(Bytes, P["device_id"])
      /\ Held(Bytes, P["session_id"]) /\ Held(Bytes, P["event_name"])
      /\ Held(Bytes, P["payload"])
  <2>1. Held(Nat, P["event_type"])
    BY <1>1, <1>2 DEF Held
  <2>2. Held(Nat, P["timestamp"])
    BY <1>1, <1>2 DEF Held
  <2>3. Held(Bytes, P["service"])
    BY <1>1, <1>2, OptionHolds, Zenon
  <2>4. Held(Bytes, P["device_id"])
    BY <1>1, <1>2 DEF Held
  <2>5. Held(Bytes, P["session_id"])
    BY <1>1, <1>2, OptionHolds, Zenon
  <2>6. Held(Bytes, P["event_name"])
    BY <1>1, <1>2, OptionHolds, Zenon
  <2>7. Held(Bytes, P["payload"])
    BY <1>1, <1>2, OptionHolds, Zenon
  <2> QED BY <2>1, <2>2, <2>3, <2>4, <2>5, <2>6, <2>7, Zenon
<1> QED BY <1>3, <1>4

LEMMA EventFits ==
    ASSUME NEW e \in QueuedEvent, NEW P, P = EventParams(e)
    PROVE  Fits(P, EventTable) /\ HasValues(EventTable, P) /\ Complete(EventTable, P)
<1>1. /\ P = [name \in {"event_type", "timestamp", "service", "device_id", "session_id",
                       "event_name", "payload"} |-> P[name]]
      /\ Held(Nat, P["event_type"]) /\ Held(Nat, P["timestamp"])
      /\ Held(Bytes, P["service"]) /\ Held(Bytes, P["device_id"])
      /\ Held(Bytes, P["session_id"]) /\ Held(Bytes, P["event_name"])
      /\ Held(Bytes, P["payload"])
  BY EventParamsAre
<1>2. Len(EventTable.fields) = 7 /\ Len(EventTable.tail) = 5
  BY EventLaid
<1>3. Fits(P, EventTable)
  <2>1. \A i \in 1..7 : P[EventTable.fields[i]] # Absent => EventTable.fields[i] \in DOMAIN EventTable.at
    <3>1. PICK F, A : F = EventTable.fields /\ A = DOMAIN EventTable.at
      OBVIOUS
    <3>2. \A i \in 1..7 : F[i] \in A
      BY <3>1 DEF EventTable, EventSlots
    <3> QED BY <1>1, <3>1, <3>2 DEF Absent
  <2>2. \A name \in DOMAIN P \ TailFields(EventTable) : P[name] # Absent => The(P[name]) \in Cell
    <3>1. DOMAIN P = {"event_type", "timestamp", "service", "device_id", "session_id",
                       "event_name", "payload"}
      BY <1>1
    <3>2. /\ (P["event_type"] # Absent => The(P["event_type"]) \in Nat)
          /\ (P["timestamp"] # Absent => The(P["timestamp"]) \in Nat)
      BY <1>1, HeldIs, Zenon
    <3> QED BY <1>1, <3>1, <3>2, EventNames, Cells DEF Absent
  <2> QED BY <1>2, <2>1, <2>2 DEF Fits
<1>4. HasValues(EventTable, P)
  <2>1. PICK T : T = EventTable.tail
    OBVIOUS
  <2>2. /\ T[1][1] = "device_id" /\ T[1][2] = "bytes"
        /\ T[2][1] = "session_id" /\ T[2][2] = "bytes"
        /\ T[3][1] = "service" /\ T[3][2] = "string"
        /\ T[4][1] = "event_name" /\ T[4][2] = "string"
        /\ T[5][1] = "payload" /\ T[5][2] = "bytes"
    BY <2>1 DEF EventTable
  <2>3. P[T[1][1]] # Absent => IsValue(T[1][2], The(P[T[1][1]]))
    <3>1. P["device_id"] # Absent => The(P["device_id"]) \in Bytes
      BY <1>1, HeldIs, Zenon DEF Absent
    <3> QED BY <2>2, <3>1 DEF IsValue
  <2>4. P[T[2][1]] # Absent => IsValue(T[2][2], The(P[T[2][1]]))
    <3>1. P["session_id"] # Absent => The(P["session_id"]) \in Bytes
      BY <1>1, HeldIs, Zenon DEF Absent
    <3> QED BY <2>2, <3>1 DEF IsValue
  <2>5. P[T[3][1]] # Absent => IsValue(T[3][2], The(P[T[3][1]]))
    <3>1. P["service"] # Absent => The(P["service"]) \in Bytes
      BY <1>1, HeldIs, Zenon DEF Absent
    <3> QED BY <2>2, <3>1 DEF IsValue
  <2>6. P[T[4][1]] # Absent => IsValue(T[4][2], The(P[T[4][1]]))
    <3>1. P["event_name"] # Absent => The(P["event_name"]) \in Bytes
      BY <1>1, HeldIs, Zenon DEF Absent
    <3> QED BY <2>2, <3>1 DEF IsValue
  <2>7. P[T[5][1]] # Absent => IsValue(T[5][2], The(P[T[5][1]]))
    <3>1. P["payload"] # Absent => The(P["payload"]) \in Bytes
      BY <1>1, HeldIs, Zenon DEF Absent
    <3> QED BY <2>2, <3>1 DEF IsValue
  <2>8. \A n \in 1..5 : P[T[n][1]] # Absent => IsValue(T[n][2], The(P[T[n][1]]))
    BY <2>3, <2>4, <2>5, <2>6, <2>7
  <2> QED BY <1>2, <2>1, <2>8 DEF HasValues, IsThere
<1>5. Complete(EventTable, P)
  <2>1. \A name \in {"event_type", "timestamp", "service", "device_id", "session_id", "event_name",
                   "payload"} : P[name] = {} \/ \E v : P[name] = {v}
    BY <1>1, HeldIs, Zenon
  <2> QED BY <1>1, <2>1, EventNames, Zenon DEF Complete
<1> QED BY <1>3, <1>4, <1>5

LEMMA LogNames ==
    /\ TailFields(LogTable) = {"session_id", "source", "service", "payload"}
    /\ ToSet(LogTable.fields) = {"event_type", "session_id", "level", "timestamp", "source",
                               "service", "payload"}
<1>1. PICK T, F : T = LogTable.tail /\ F = LogTable.fields
  OBVIOUS
<1>2. /\ DOMAIN T = 1..4
      /\ T[1][1] = "session_id" /\ T[2][1] = "source" /\ T[3][1] = "service"
      /\ T[4][1] = "payload"
  BY <1>1 DEF LogTable
<1>3. /\ DOMAIN F = 1..7
      /\ F[1] = "event_type" /\ F[2] = "session_id" /\ F[3] = "level"
      /\ F[4] = "timestamp" /\ F[5] = "source" /\ F[6] = "service"
      /\ F[7] = "payload"
  BY <1>1 DEF LogTable
<1>4. TailFields(LogTable) = {T[i][1] : i \in 1..4}
  BY <1>1, <1>2 DEF TailFields, ToSet
<1>5. ToSet(LogTable.fields) = {F[i] : i \in 1..7}
  BY <1>1, <1>3 DEF ToSet
<1>6. {T[i][1] : i \in 1..4} = {"session_id", "source", "service", "payload"}
  BY <1>2
<1>7. {F[i] : i \in 1..7} = {"event_type", "session_id", "level", "timestamp", "source", "service",
                     "payload"}
  BY <1>3
<1> QED BY <1>4, <1>5, <1>6, <1>7

LEMMA LogReadable == Readable(LogTable)
<1>1. Len(LogTable.fields) = 7 /\ Len(LogTable.tail) = 4
  BY LogLaid
<1>2. \A n \in 1..4 : Suits(LogTable.tail[n][2], LogTable.tail[n][1])
  <2>1. PICK T : T = LogTable.tail
    OBVIOUS
  <2>2. /\ T[1][1] = "session_id" /\ T[1][2] = "bytes"
        /\ T[2][1] = "source" /\ T[2][2] = "string"
        /\ T[3][1] = "service" /\ T[3][2] = "string"
        /\ T[4][1] = "payload" /\ T[4][2] = "bytes"
    BY <2>1 DEF LogTable
  <2>3. Suits(T[1][2], T[1][1])
    BY <2>2 DEF Suits, Texts
  <2>4. Suits(T[2][2], T[2][1])
    BY <2>2 DEF Suits, Texts
  <2>5. Suits(T[3][2], T[3][1])
    BY <2>2 DEF Suits, Texts
  <2>6. Suits(T[4][2], T[4][1])
    BY <2>2 DEF Suits, Texts
  <2> QED BY <2>1, <2>3, <2>4, <2>5, <2>6
<1>3. \A i \in 1..7 : LogTable.fields[i] \notin TailFields(LogTable)
        => LogTable.fields[i] \notin Texts \cup {"labels", "histogram"}
  <2>1. PICK F : F = LogTable.fields
    OBVIOUS
  <2>2. /\ F[1] = "event_type" /\ F[2] = "session_id" /\ F[3] = "level"
        /\ F[4] = "timestamp" /\ F[5] = "source" /\ F[6] = "service"
        /\ F[7] = "payload"
    BY <2>1 DEF LogTable
  <2>3. \A i \in 1..7 : F[i] \in TailFields(LogTable) \/ F[i] \notin Texts \cup {"labels", "histogram"}
    BY <2>2, LogNames DEF Texts
  <2> QED BY <2>1, <2>3
<1> QED BY <1>1, <1>2, <1>3 DEF Readable

LEMMA LogParamsAre ==
    ASSUME NEW l \in QueuedLog, NEW P, P = LogParams(l)
    PROVE  /\ P = [name \in {"event_type", "session_id", "level", "timestamp", "source",
                                 "service", "payload"} |-> P[name]]
           /\ Held(Nat, P["event_type"]) /\ Held(Bytes, P["session_id"])
           /\ Held(Nat, P["level"]) /\ Held(Nat, P["timestamp"])
           /\ Held(Bytes, P["source"]) /\ Held(Bytes, P["service"])
           /\ Held(Bytes, P["payload"])
<1>1. /\ l.level \in Nat /\ l.timestamp \in Nat
      /\ l.session_id \in Optional(Bytes) /\ Or(l.component, Source) \in Optional(Bytes)
      /\ Or(l.service, Service) \in Optional(Bytes) /\ l.payload \in Optional(Bytes) /\ 1 \in Nat
  BY EncodingAssumption DEF QueuedLog, Or
<1>2. /\ P["event_type"] = {1} /\ P["session_id"] = l.session_id /\ P["level"] = {l.level}
      /\ P["timestamp"] = {l.timestamp} /\ P["source"] = Or(l.component, Source)
      /\ P["service"] = Or(l.service, Service) /\ P["payload"] = l.payload
  BY DEF LogParams
<1>3. P = [name \in {"event_type", "session_id", "level", "timestamp", "source", "service", "payload"} |-> P[name]]
  BY DEF LogParams
<1>4. /\ Held(Nat, P["event_type"]) /\ Held(Bytes, P["session_id"])
      /\ Held(Nat, P["level"]) /\ Held(Nat, P["timestamp"])
      /\ Held(Bytes, P["source"]) /\ Held(Bytes, P["service"])
      /\ Held(Bytes, P["payload"])
  <2>1. Held(Nat, P["event_type"])
    BY <1>1, <1>2 DEF Held
  <2>2. Held(Bytes, P["session_id"])
    BY <1>1, <1>2, OptionHolds, Zenon
  <2>3. Held(Nat, P["level"])
    BY <1>1, <1>2 DEF Held
  <2>4. Held(Nat, P["timestamp"])
    BY <1>1, <1>2 DEF Held
  <2>5. Held(Bytes, P["source"])
    BY <1>1, <1>2, OptionHolds, Zenon
  <2>6. Held(Bytes, P["service"])
    BY <1>1, <1>2, OptionHolds, Zenon
  <2>7. Held(Bytes, P["payload"])
    BY <1>1, <1>2, OptionHolds, Zenon
  <2> QED BY <2>1, <2>2, <2>3, <2>4, <2>5, <2>6, <2>7, Zenon
<1> QED BY <1>3, <1>4

LEMMA LogFits ==
    ASSUME NEW l \in QueuedLog, NEW P, P = LogParams(l)
    PROVE  Fits(P, LogTable) /\ HasValues(LogTable, P) /\ Complete(LogTable, P)
<1>1. /\ P = [name \in {"event_type", "session_id", "level", "timestamp", "source", "service",
                       "payload"} |-> P[name]]
      /\ Held(Nat, P["event_type"]) /\ Held(Bytes, P["session_id"])
      /\ Held(Nat, P["level"]) /\ Held(Nat, P["timestamp"])
      /\ Held(Bytes, P["source"]) /\ Held(Bytes, P["service"])
      /\ Held(Bytes, P["payload"])
  BY LogParamsAre
<1>2. Len(LogTable.fields) = 7 /\ Len(LogTable.tail) = 4
  BY LogLaid
<1>3. Fits(P, LogTable)
  <2>1. \A i \in 1..7 : P[LogTable.fields[i]] # Absent => LogTable.fields[i] \in DOMAIN LogTable.at
    <3>1. PICK F, A : F = LogTable.fields /\ A = DOMAIN LogTable.at
      OBVIOUS
    <3>2. \A i \in 1..7 : F[i] \in A
      BY <3>1 DEF LogTable
    <3> QED BY <1>1, <3>1, <3>2 DEF Absent
  <2>2. \A name \in DOMAIN P \ TailFields(LogTable) : P[name] # Absent => The(P[name]) \in Cell
    <3>1. DOMAIN P = {"event_type", "session_id", "level", "timestamp", "source", "service",
                       "payload"}
      BY <1>1
    <3>2. /\ (P["event_type"] # Absent => The(P["event_type"]) \in Nat)
          /\ (P["level"] # Absent => The(P["level"]) \in Nat)
          /\ (P["timestamp"] # Absent => The(P["timestamp"]) \in Nat)
      BY <1>1, HeldIs, Zenon
    <3> QED BY <1>1, <3>1, <3>2, LogNames, Cells DEF Absent
  <2> QED BY <1>2, <2>1, <2>2 DEF Fits
<1>4. HasValues(LogTable, P)
  <2>1. PICK T : T = LogTable.tail
    OBVIOUS
  <2>2. /\ T[1][1] = "session_id" /\ T[1][2] = "bytes"
        /\ T[2][1] = "source" /\ T[2][2] = "string"
        /\ T[3][1] = "service" /\ T[3][2] = "string"
        /\ T[4][1] = "payload" /\ T[4][2] = "bytes"
    BY <2>1 DEF LogTable
  <2>3. P[T[1][1]] # Absent => IsValue(T[1][2], The(P[T[1][1]]))
    <3>1. P["session_id"] # Absent => The(P["session_id"]) \in Bytes
      BY <1>1, HeldIs, Zenon DEF Absent
    <3> QED BY <2>2, <3>1 DEF IsValue
  <2>4. P[T[2][1]] # Absent => IsValue(T[2][2], The(P[T[2][1]]))
    <3>1. P["source"] # Absent => The(P["source"]) \in Bytes
      BY <1>1, HeldIs, Zenon DEF Absent
    <3> QED BY <2>2, <3>1 DEF IsValue
  <2>5. P[T[3][1]] # Absent => IsValue(T[3][2], The(P[T[3][1]]))
    <3>1. P["service"] # Absent => The(P["service"]) \in Bytes
      BY <1>1, HeldIs, Zenon DEF Absent
    <3> QED BY <2>2, <3>1 DEF IsValue
  <2>6. P[T[4][1]] # Absent => IsValue(T[4][2], The(P[T[4][1]]))
    <3>1. P["payload"] # Absent => The(P["payload"]) \in Bytes
      BY <1>1, HeldIs, Zenon DEF Absent
    <3> QED BY <2>2, <3>1 DEF IsValue
  <2>7. \A n \in 1..4 : P[T[n][1]] # Absent => IsValue(T[n][2], The(P[T[n][1]]))
    BY <2>3, <2>4, <2>5, <2>6
  <2> QED BY <1>2, <2>1, <2>7 DEF HasValues, IsThere
<1>5. Complete(LogTable, P)
  <2>1. \A name \in {"event_type", "session_id", "level", "timestamp", "source", "service", "payload"} : P[name] = {} \/ \E v : P[name] = {v}
    BY <1>1, HeldIs, Zenon
  <2> QED BY <1>1, <2>1, LogNames, Zenon DEF Complete
<1> QED BY <1>3, <1>4, <1>5

LEMMA MetricNames ==
    /\ TailFields(MetricTable) = {"name", "source", "service", "session_id", "labels", "histogram"}
    /\ ToSet(MetricTable.fields) = {"metric_type", "timestamp", "name", "value", "source", "service",
                                  "labels", "temporality", "histogram", "session_id", "int_labels"}
<1>1. PICK T, F : T = MetricTable.tail /\ F = MetricTable.fields
  OBVIOUS
<1>2. /\ DOMAIN T = 1..6
      /\ T[1][1] = "name" /\ T[2][1] = "source" /\ T[3][1] = "service"
      /\ T[4][1] = "session_id" /\ T[5][1] = "labels" /\ T[6][1] = "histogram"
  BY <1>1 DEF MetricTable
<1>3. /\ DOMAIN F = 1..11
      /\ F[1] = "metric_type" /\ F[2] = "timestamp" /\ F[3] = "name"
      /\ F[4] = "value" /\ F[5] = "source" /\ F[6] = "service"
      /\ F[7] = "labels" /\ F[8] = "temporality" /\ F[9] = "histogram"
      /\ F[10] = "session_id" /\ F[11] = "int_labels"
  BY <1>1 DEF MetricTable
<1>4. TailFields(MetricTable) = {T[i][1] : i \in 1..6}
  BY <1>1, <1>2 DEF TailFields, ToSet
<1>5. ToSet(MetricTable.fields) = {F[i] : i \in 1..11}
  BY <1>1, <1>3 DEF ToSet
<1>6. {T[i][1] : i \in 1..6} = {"name", "source", "service", "session_id", "labels", "histogram"}
  BY <1>2
<1>7. {F[i] : i \in 1..11} = {"metric_type", "timestamp", "name", "value", "source", "service", "labels",
                     "temporality", "histogram", "session_id", "int_labels"}
  BY <1>3
<1> QED BY <1>4, <1>5, <1>6, <1>7

LEMMA MetricReadable == Readable(MetricTable)
<1>1. Len(MetricTable.fields) = 11 /\ Len(MetricTable.tail) = 6
  BY MetricLaid
<1>2. \A n \in 1..6 : Suits(MetricTable.tail[n][2], MetricTable.tail[n][1])
  <2>1. PICK T : T = MetricTable.tail
    OBVIOUS
  <2>2. /\ T[1][1] = "name" /\ T[1][2] = "string"
        /\ T[2][1] = "source" /\ T[2][2] = "string"
        /\ T[3][1] = "service" /\ T[3][2] = "string"
        /\ T[4][1] = "session_id" /\ T[4][2] = "bytes"
        /\ T[5][1] = "labels" /\ T[5][2] = "labels"
        /\ T[6][1] = "histogram" /\ T[6][2] = "histogram"
    BY <2>1 DEF MetricTable
  <2>3. Suits(T[1][2], T[1][1])
    BY <2>2 DEF Suits, Texts
  <2>4. Suits(T[2][2], T[2][1])
    BY <2>2 DEF Suits, Texts
  <2>5. Suits(T[3][2], T[3][1])
    BY <2>2 DEF Suits, Texts
  <2>6. Suits(T[4][2], T[4][1])
    BY <2>2 DEF Suits, Texts
  <2>7. Suits(T[5][2], T[5][1])
    BY <2>2 DEF Suits, Texts
  <2>8. Suits(T[6][2], T[6][1])
    BY <2>2 DEF Suits, Texts
  <2> QED BY <2>1, <2>3, <2>4, <2>5, <2>6, <2>7, <2>8
<1>3. \A i \in 1..11 : MetricTable.fields[i] \notin TailFields(MetricTable)
        => MetricTable.fields[i] \notin Texts \cup {"labels", "histogram"}
  <2>1. PICK F : F = MetricTable.fields
    OBVIOUS
  <2>2. /\ F[1] = "metric_type" /\ F[2] = "timestamp" /\ F[3] = "name"
        /\ F[4] = "value" /\ F[5] = "source" /\ F[6] = "service"
        /\ F[7] = "labels" /\ F[8] = "temporality" /\ F[9] = "histogram"
        /\ F[10] = "session_id" /\ F[11] = "int_labels"
    BY <2>1 DEF MetricTable
  <2>3. \A i \in 1..11 : F[i] \in TailFields(MetricTable) \/ F[i] \notin Texts \cup {"labels", "histogram"}
    BY <2>2, MetricNames DEF Texts
  <2> QED BY <2>1, <2>3
<1> QED BY <1>1, <1>2, <1>3 DEF Readable

LEMMA MetricParamsAre ==
    ASSUME NEW m \in QueuedMetric, NEW P, P = MetricParams(m)
    PROVE  /\ P = [name \in {"metric_type", "timestamp", "name", "value", "source", "service",
                                 "labels", "temporality", "histogram", "session_id", "int_labels"} |-> P[name]]
           /\ Held(Nat, P["metric_type"]) /\ Held(Nat, P["timestamp"])
           /\ Held(Bytes, P["name"]) /\ Held(Nat, P["value"])
           /\ Held(Bytes, P["source"]) /\ Held(Bytes, P["service"])
           /\ Held(Seq(LabelParam), P["labels"]) /\ Held(Nat, P["temporality"])
           /\ Held(HistogramPoint, P["histogram"]) /\ P["session_id"] = {}
           /\ P["int_labels"] = {}
<1>1. /\ m.metric_type \in Nat /\ m.timestamp \in Nat /\ m.name \in Bytes /\ m.value \in Nat
      /\ m.labels \in Seq(LabelParam) /\ m.temporality \in Nat /\ m.histogram \in Optional(HistogramPoint)
      /\ Source \in Optional(Bytes) /\ Service \in Optional(Bytes)
  BY EncodingAssumption DEF QueuedMetric
<1>2. /\ P["metric_type"] = {m.metric_type} /\ P["timestamp"] = {m.timestamp} /\ P["name"] = {m.name}
      /\ P["value"] = {m.value} /\ P["source"] = Source /\ P["service"] = Service
      /\ P["labels"] = {m.labels} \ {<<>>} /\ P["temporality"] = {m.temporality}
      /\ P["histogram"] = m.histogram /\ P["session_id"] = {} /\ P["int_labels"] = {}
  BY DEF MetricParams
<1>a. {m.labels} \ {<<>>} = {m.labels} \/ {m.labels} \ {<<>>} = {}
  OBVIOUS
<1>b. Held(Seq(LabelParam), {m.labels} \ {<<>>})
  BY <1>1, <1>a, OneHeld, NoneHeld, Zenon
<1>3. P = [name \in {"metric_type", "timestamp", "name", "value", "source", "service", "labels",
                   "temporality", "histogram", "session_id", "int_labels"} |-> P[name]]
  BY DEF MetricParams
<1>4. /\ Held(Nat, P["metric_type"]) /\ Held(Nat, P["timestamp"])
      /\ Held(Bytes, P["name"]) /\ Held(Nat, P["value"])
      /\ Held(Bytes, P["source"]) /\ Held(Bytes, P["service"])
      /\ Held(Seq(LabelParam), P["labels"]) /\ Held(Nat, P["temporality"])
      /\ Held(HistogramPoint, P["histogram"]) /\ P["session_id"] = {}
      /\ P["int_labels"] = {}
  <2>1. Held(Nat, P["metric_type"])
    BY <1>1, <1>2 DEF Held
  <2>2. Held(Nat, P["timestamp"])
    BY <1>1, <1>2 DEF Held
  <2>3. Held(Bytes, P["name"])
    BY <1>1, <1>2 DEF Held
  <2>4. Held(Nat, P["value"])
    BY <1>1, <1>2 DEF Held
  <2>5. Held(Bytes, P["source"])
    BY <1>1, <1>2, OptionHolds, Zenon
  <2>6. Held(Bytes, P["service"])
    BY <1>1, <1>2, OptionHolds, Zenon
  <2>7. Held(Seq(LabelParam), P["labels"])
    BY <1>1, <1>2, <1>b
  <2>8. Held(Nat, P["temporality"])
    BY <1>1, <1>2 DEF Held
  <2>9. Held(HistogramPoint, P["histogram"])
    BY <1>1, <1>2, OptionHolds, Zenon
  <2> QED BY <1>2, <2>1, <2>2, <2>3, <2>4, <2>5, <2>6, <2>7, <2>8, <2>9, Zenon
<1> QED BY <1>3, <1>4

LEMMA MetricFits ==
    ASSUME NEW m \in QueuedMetric, NEW P, P = MetricParams(m)
    PROVE  Fits(P, MetricTable) /\ HasValues(MetricTable, P) /\ Complete(MetricTable, P)
<1>1. /\ P = [name \in {"metric_type", "timestamp", "name", "value", "source", "service", "labels",
                       "temporality", "histogram", "session_id", "int_labels"} |-> P[name]]
      /\ Held(Nat, P["metric_type"]) /\ Held(Nat, P["timestamp"])
      /\ Held(Bytes, P["name"]) /\ Held(Nat, P["value"])
      /\ Held(Bytes, P["source"]) /\ Held(Bytes, P["service"])
      /\ Held(Seq(LabelParam), P["labels"]) /\ Held(Nat, P["temporality"])
      /\ Held(HistogramPoint, P["histogram"]) /\ P["session_id"] = {}
      /\ P["int_labels"] = {}
  BY MetricParamsAre
<1>2. Len(MetricTable.fields) = 11 /\ Len(MetricTable.tail) = 6
  BY MetricLaid
<1>3. Fits(P, MetricTable)
  <2>1. \A i \in 1..11 : P[MetricTable.fields[i]] # Absent => MetricTable.fields[i] \in DOMAIN MetricTable.at
    <3>1. PICK F, A : F = MetricTable.fields /\ A = DOMAIN MetricTable.at
      OBVIOUS
    <3>2. \A i \in 1..11 : F[i] = "int_labels" \/ F[i] \in A
      BY <3>1 DEF MetricTable
    <3> QED BY <1>1, <3>1, <3>2 DEF Absent
  <2>2. \A name \in DOMAIN P \ TailFields(MetricTable) : P[name] # Absent => The(P[name]) \in Cell
    <3>1. DOMAIN P = {"metric_type", "timestamp", "name", "value", "source", "service", "labels",
                       "temporality", "histogram", "session_id", "int_labels"}
      BY <1>1
    <3>2. /\ (P["metric_type"] # Absent => The(P["metric_type"]) \in Nat)
          /\ (P["timestamp"] # Absent => The(P["timestamp"]) \in Nat)
          /\ (P["value"] # Absent => The(P["value"]) \in Nat)
          /\ (P["temporality"] # Absent => The(P["temporality"]) \in Nat)
      BY <1>1, HeldIs, Zenon
    <3> QED BY <1>1, <3>1, <3>2, MetricNames, Cells DEF Absent
  <2> QED BY <1>2, <2>1, <2>2 DEF Fits
<1>4. HasValues(MetricTable, P)
  <2>1. PICK T : T = MetricTable.tail
    OBVIOUS
  <2>2. /\ T[1][1] = "name" /\ T[1][2] = "string"
        /\ T[2][1] = "source" /\ T[2][2] = "string"
        /\ T[3][1] = "service" /\ T[3][2] = "string"
        /\ T[4][1] = "session_id" /\ T[4][2] = "bytes"
        /\ T[5][1] = "labels" /\ T[5][2] = "labels"
        /\ T[6][1] = "histogram" /\ T[6][2] = "histogram"
    BY <2>1 DEF MetricTable
  <2>3. P[T[1][1]] # Absent => IsValue(T[1][2], The(P[T[1][1]]))
    <3>1. P["name"] # Absent => The(P["name"]) \in Bytes
      BY <1>1, HeldIs, Zenon DEF Absent
    <3> QED BY <2>2, <3>1 DEF IsValue
  <2>4. P[T[2][1]] # Absent => IsValue(T[2][2], The(P[T[2][1]]))
    <3>1. P["source"] # Absent => The(P["source"]) \in Bytes
      BY <1>1, HeldIs, Zenon DEF Absent
    <3> QED BY <2>2, <3>1 DEF IsValue
  <2>5. P[T[3][1]] # Absent => IsValue(T[3][2], The(P[T[3][1]]))
    <3>1. P["service"] # Absent => The(P["service"]) \in Bytes
      BY <1>1, HeldIs, Zenon DEF Absent
    <3> QED BY <2>2, <3>1 DEF IsValue
  <2>6. P[T[4][1]] # Absent => IsValue(T[4][2], The(P[T[4][1]]))
    <3>1. P["session_id"] # Absent => The(P["session_id"]) \in Bytes
      BY <1>1, HeldIs, Zenon DEF Absent
    <3> QED BY <2>2, <3>1 DEF IsValue
  <2>7. P[T[5][1]] # Absent => IsValue(T[5][2], The(P[T[5][1]]))
    <3>1. P["labels"] # Absent => The(P["labels"]) \in Seq(LabelParam)
      BY <1>1, HeldIs, Zenon DEF Absent
    <3> QED BY <2>2, <3>1 DEF IsValue
  <2>8. P[T[6][1]] # Absent => IsValue(T[6][2], The(P[T[6][1]]))
    <3>1. P["histogram"] # Absent => The(P["histogram"]) \in HistogramPoint
      BY <1>1, HeldIs, Zenon DEF Absent
    <3> QED BY <2>2, <3>1 DEF IsValue
  <2>9. \A n \in 1..6 : P[T[n][1]] # Absent => IsValue(T[n][2], The(P[T[n][1]]))
    BY <2>3, <2>4, <2>5, <2>6, <2>7, <2>8
  <2> QED BY <1>2, <2>1, <2>9 DEF HasValues, IsThere
<1>5. Complete(MetricTable, P)
  <2>1. \A name \in {"metric_type", "timestamp", "name", "value", "source", "service", "labels",
                   "temporality", "histogram", "session_id", "int_labels"} : P[name] = {} \/ \E v : P[name] = {v}
    BY <1>1, HeldIs, ZenonT(30)
  <2> QED BY <1>1, <2>1, MetricNames, Zenon DEF Complete
<1> QED BY <1>3, <1>4, <1>5

\* What the encoders get from worker/encode.rs is what their layouts are for.
LEMMA ChunkFits ==
    ASSUME NEW k \in Kinds, NEW c \in Chunks[k], NEW E, E = AllParams(k, c),
           NEW layout, layout = EntryTable[k]
    PROVE  /\ \E places : Laid(layout, places)
           /\ Readable(layout) /\ Schema[k] = layout.fields
           /\ Len(E) \in Nat /\ E = [i \in 1..Len(E) |-> E[i]]
           /\ \A n \in 1..Len(E) : /\ Fits(E[n], layout) /\ HasValues(layout, E[n])
                                   /\ Complete(layout, E[n])
<1>1. PICK N \in Nat :
        /\ N = Len(c) /\ \A n \in 1..N : /\ k = "events" => c[n] \in QueuedEvent
                                         /\ k = "logs" => c[n] \in QueuedLog
                                         /\ k = "metrics" => c[n] \in QueuedMetric
  <2>1. CASE k = "events"
    <3>1. c \in Seq(QueuedEvent)
      BY <2>1, EncodingAssumption
    <3>2. Len(c) \in Nat /\ \A n \in 1..Len(c) : c[n] \in QueuedEvent
      BY <3>1, ElementOfSeq, LenProperties
    <3> QED BY <2>1, <3>2
  <2>2. CASE k = "logs"
    <3>1. c \in Seq(QueuedLog)
      BY <2>2, EncodingAssumption
    <3>2. Len(c) \in Nat /\ \A n \in 1..Len(c) : c[n] \in QueuedLog
      BY <3>1, ElementOfSeq, LenProperties
    <3> QED BY <2>2, <3>2
  <2>3. CASE k = "metrics"
    <3>1. c \in Seq(QueuedMetric)
      BY <2>3, EncodingAssumption
    <3>2. Len(c) \in Nat /\ \A n \in 1..Len(c) : c[n] \in QueuedMetric
      BY <3>1, ElementOfSeq, LenProperties
    <3> QED BY <2>3, <3>2
  <2> QED BY <2>1, <2>2, <2>3 DEF Kinds
<1>2. E = [i \in 1..N |-> ParamsOf(k, c[i])]
  BY <1>1 DEF AllParams
<1>3. Len(E) = N /\ E = [i \in 1..N |-> E[i]]
  <2>1. PICK P : P = {E[i] : i \in 1..N}
    OBVIOUS
  <2>2. E = [i \in 1..N |-> E[i]] /\ \A i \in 1..N : E[i] \in P
    BY <1>2, <2>1
  <2> QED BY <2>2, Mapped
<1>4. CASE k = "events"
  <2>1. layout = EventTable /\ Schema[k] = EventSchema
    BY <1>4 DEF EntryTable, Schema
  <2>2. EventTable.fields = EventSchema
    BY DEF EventTable, EventSchema
  <2>3. ASSUME NEW n \in 1..N
        PROVE  Fits(E[n], EventTable) /\ HasValues(EventTable, E[n]) /\ Complete(EventTable, E[n])
    <3>1. PICK e, P : e \in QueuedEvent /\ e = c[n] /\ P = EventParams(e) /\ E[n] = P
      BY <1>1, <1>2, <1>4 DEF ParamsOf
    <3> QED BY <3>1, EventFits
  <2> QED BY <1>3, <2>1, <2>2, <2>3, EventLaid, EventReadable
<1>5. CASE k = "logs"
  <2>1. layout = LogTable /\ Schema[k] = LogSchema
    BY <1>5 DEF EntryTable, Schema
  <2>2. LogTable.fields = LogSchema
    BY DEF LogTable, LogSchema
  <2>3. ASSUME NEW n \in 1..N
        PROVE  Fits(E[n], LogTable) /\ HasValues(LogTable, E[n]) /\ Complete(LogTable, E[n])
    <3>1. PICK l, P : l \in QueuedLog /\ l = c[n] /\ P = LogParams(l) /\ E[n] = P
      BY <1>1, <1>2, <1>5 DEF ParamsOf
    <3> QED BY <3>1, LogFits
  <2> QED BY <1>3, <2>1, <2>2, <2>3, LogLaid, LogReadable
<1>6. CASE k = "metrics"
  <2>1. layout = MetricTable /\ Schema[k] = MetricSchema
    BY <1>6 DEF EntryTable, Schema
  <2>2. MetricTable.fields = MetricSchema
    BY DEF MetricTable, MetricSchema
  <2>3. ASSUME NEW n \in 1..N
        PROVE  Fits(E[n], MetricTable) /\ HasValues(MetricTable, E[n]) /\ Complete(MetricTable, E[n])
    <3>1. PICK m, P : m \in QueuedMetric /\ m = c[n] /\ P = MetricParams(m) /\ E[n] = P
      BY <1>1, <1>2, <1>6 DEF ParamsOf
    <3> QED BY <3>1, MetricFits
  <2> QED BY <1>3, <2>1, <2>2, <2>3, MetricLaid, MetricReadable
<1> QED BY <1>4, <1>5, <1>6 DEF Kinds

\* What a reader finds in the data of a batch.
DataHolds(D, layout, E) ==
    /\ D \in Seq(Cell) /\ Root(D) = 12
    /\ \A pos \in FieldAt(D, Root(D), 0) : TablesOnFours(D, pos)
    /\ EntryTables(D) = [i \in 1..Len(E) |-> Follow(D, 20 + 4 * i)] /\ Len(EntryTables(D)) = Len(E)
    /\ \A i \in 1..Len(E) :
         /\ ReadEntry(D, Follow(D, 20 + 4 * i), layout.fields) = E[i]
         /\ EntryOnFours(D, Follow(D, 20 + 4 * i), layout.fields)

LEMMA DataRead ==
    ASSUME NEW k \in Kinds, NEW c \in Chunks[k], NEW E, E = AllParams(k, c),
           NEW layout, layout = EntryTable[k], NEW D, D = DataInto(<<>>, layout, E)
    PROVE  DataHolds(D, layout, E)
<1>1. PICK places :
        /\ Laid(layout, places) /\ Readable(layout) /\ Len(E) \in Nat
        /\ \A n \in 1..Len(E) : Fits(E[n], layout) /\ HasValues(layout, E[n]) /\ Complete(layout, E[n])
  BY ChunkFits
<1>2. /\ D \in Seq(Cell)
      /\ Root(D) = 12 /\ FieldAt(D, 12, 0) = {16} /\ Follow(D, 16) = 20
      /\ HasEntries(D, 20, layout, E)
  BY <1>1, DataWritten
<1>3. PICK N \in Nat : N = Len(E)
  BY <1>1
<1>4. /\ NumberAt(D, 20) = N
      /\ \A n \in 1..N : Follow(D, 20 + 4 * n) % 4 = 0 /\ IsTable(D, Follow(D, 20 + 4 * n), layout, E[n])
  BY <1>2, <1>3 DEF HasEntries
<1>5. PICK t : t = [i \in 1..N |-> Follow(D, 20 + 4 * i)]
  OBVIOUS
<1>6. EntryTables(D) = t
  <2>1. The(FieldAt(D, Root(D), 0)) = 16
    BY <1>2, OnlyOne
  <2>2. EntryTables(D) = TablesAt(D, 16)
    BY <2>1 DEF EntryTables
  <2>3. TablesAt(D, 16) = [i \in 1..N |-> Follow(D, 20 + 4 * i)]
    BY <1>2, <1>4 DEF TablesAt
  <2> QED BY <1>5, <2>2, <2>3
<1>7. Len(t) = N
  <2>1. PICK P : P = {t[i] : i \in 1..N}
    OBVIOUS
  <2>2. t = [i \in 1..N |-> t[i]] /\ \A i \in 1..N : t[i] \in P
    BY <1>5, <2>1
  <2> QED BY <2>2, Mapped
<1>8. ASSUME NEW n \in 1..N
      PROVE  /\ ReadEntry(D, Follow(D, 20 + 4 * n), layout.fields) = E[n]
             /\ EntryOnFours(D, Follow(D, 20 + 4 * n), layout.fields)
  <2>1. PICK at, P : at = Follow(D, 20 + 4 * n) /\ P = E[n]
    OBVIOUS
  <2>2. /\ IsTable(D, at, layout, P) /\ Fits(P, layout) /\ HasValues(layout, P) /\ Complete(layout, P)
    BY <1>1, <1>3, <1>4, <2>1
  <2>3. ReadEntry(D, at, layout.fields) = P
    BY <1>1, <2>2, EntryRead
  <2>4. EntryOnFours(D, at, layout.fields)
    BY <1>1, <2>2, EntryAligned
  <2> QED BY <2>1, <2>3, <2>4
<1>9. \A pos \in FieldAt(D, Root(D), 0) : TablesOnFours(D, pos)
  <2>1. EntryTables(D) = TablesAt(D, 16)
    <3>1. The(FieldAt(D, Root(D), 0)) = 16
      BY <1>2, OnlyOne
    <3> QED BY <3>1 DEF EntryTables
  <2>2. \A table \in ToSet(t) : table % 4 = 0
    BY <1>4, <1>5 DEF ToSet
  <2>3. 20 % 4 = 0
    OBVIOUS
  <2> QED BY <1>2, <1>6, <2>1, <2>2, <2>3 DEF TablesOnFours
<1> QED BY <1>2, <1>3, <1>5, <1>6, <1>7, <1>8, <1>9 DEF DataHolds
-----------------------------------------------------------------------------
(* The same bytes behind others *)

\* Bytes that keep what is written behind them aligned.
Whole(b) == b \in Seq(Cell) /\ Len(b) % 4 = 0

\* What a writer returned, with b in front of it all.
Moved(b, w) == [buf |-> b \o w.buf, at |-> Len(b) + w.at]

LEMMA MovedIs == \A b, w : Moved(b, w).buf = b \o w.buf /\ Moved(b, w).at = Len(b) + w.at
BY DEF Moved

LEMMA InFront ==
    ASSUME NEW b \in Seq(Cell), NEW x \in Seq(Cell)
    PROVE  /\ b \o x \in Seq(Cell) /\ Len(b \o x) = Len(b) + Len(x) /\ Len(b) \in Nat /\ Len(x) \in Nat
           /\ \A y \in Seq(Cell) : (b \o x) \o y = b \o (x \o y)
BY ConcatProperties, ConcatAssociative, LenProperties, SMTT(30), ZenonT(30)

Regroups(b, x, y, z) == (b \o x) \o y \o z = b \o (x \o y \o z)

LEMMA Regrouped ==
    ASSUME NEW b \in Seq(Cell), NEW x \in Seq(Cell), NEW y \in Seq(Cell), NEW z \in Seq(Cell)
    PROVE  Regroups(b, x, y, z)
<1>1. PICK q \in Seq(Cell) : q = x \o y
  BY InFront
<1>2. (b \o x) \o y = b \o q
  BY <1>1, InFront
<1>3. (b \o q) \o z = b \o (q \o z)
  BY ConcatAssociative, SMTT(30), ZenonT(30)
<1>4. (b \o x) \o y \o z = b \o (x \o y \o z)
  BY <1>1, <1>2, <1>3, Zenon
<1> QED BY <1>4 DEF Regroups

LEMMA Paddings == \A m, n \in Nat : m % 4 = 0 => (-(m + n)) % 4 = (-n) % 4
OBVIOUS

LEMMA AlignMoved ==
    ASSUME NEW b, Whole(b), NEW x \in Seq(Cell)
    PROVE  Align4(b \o x) = b \o Align4(x)
<1>1. /\ b \in Seq(Cell) /\ Len(b) \in Nat /\ Len(b) % 4 = 0 /\ Len(x) \in Nat
      /\ Len(b \o x) = Len(b) + Len(x) /\ \A y \in Seq(Cell) : (b \o x) \o y = b \o (x \o y)
  BY InFront DEF Whole
<1>2. PICK k \in Nat : k = (-Len(x)) % 4 /\ k = (-Len(b \o x)) % 4
  <2>1. PICK m \in Nat, n \in Nat : m = Len(b) /\ n = Len(x)
    BY <1>1
  <2>2. (-(m + n)) % 4 = (-n) % 4
    BY <1>1, <2>1, Paddings
  <2>3. (-n) % 4 \in Nat
    BY Remainders
  <2>4. -Len(b \o x) = -(m + n) /\ -Len(x) = -n
    BY <1>1, <2>1
  <2> QED BY <2>2, <2>3, <2>4
<1>3. Zeros(k) \in Seq(Cell)
  BY ZerosAre
<1> QED BY <1>1, <1>2, <1>3 DEF Align4

LEMMA StartMoved ==
    ASSUME NEW b, Whole(b), NEW x \in Seq(Cell), NEW type
    PROVE  PartStart(b \o x, type) = b \o PartStart(x, type)
BY AlignMoved DEF PartStart

\* Sequences of integers with one place changed, or others behind.
LEMMA Changed ==
    ASSUME NEW s \in Seq(Int), NEW m, m = Len(s), NEW i \in 1..m, NEW v \in Int,
           NEW z, z = [s EXCEPT ![i] = v]
    PROVE  z \in Seq(Int) /\ Len(z) = m /\ \A j \in 1..m : z[j] = IF j = i THEN v ELSE s[j]
BY ExceptSeq

LEMMA Joined ==
    ASSUME NEW s \in Seq(Int), NEW m, m = Len(s), NEW t \in Seq(Int), NEW n, n = Len(t),
           NEW z, z = s \o t
    PROVE  z \in Seq(Int) /\ Len(z) = m + n /\ \A j \in 1..(m + n) : z[j] = IF j <= m THEN s[j] ELSE t[j - m]
BY ConcatProperties

LEMMA PatchMoved ==
    ASSUME NEW b \in Seq(Cell), NEW x \in Seq(Cell), NEW at \in Nat, NEW target \in Nat
    PROVE  Patch(b \o x, Len(b) + at, Len(b) + target) = b \o Patch(x, at, target)
<1>1. PICK L \in Nat, n \in Nat : L = Len(b) /\ n = Len(x)
  BY LenProperties
<1>2. PICK v \in Int, i \in Nat :
        /\ v = target - at /\ i = at + 1 /\ i >= 1
        /\ (L + target) - (L + at) = v /\ (L + at) + 1 = L + i
  <2>1. target - at \in Int /\ (L + target) - (L + at) = target - at
    OBVIOUS
  <2>2. at + 1 \in Nat /\ at + 1 >= 1 /\ (L + at) + 1 = L + (at + 1)
    OBVIOUS
  <2> QED BY <2>1, <2>2
<1>b. PICK c : c = b \o x
  OBVIOUS
<1>3. /\ b \in Seq(Int) /\ x \in Seq(Int) /\ c \in Seq(Int) /\ Len(c) = L + n
      /\ \A j \in 1..(L + n) : c[j] = IF j <= L THEN b[j] ELSE x[j - L]
  <2>1. b \in Seq(Int) /\ x \in Seq(Int)
    BY Cells, SeqMonotonic
  <2>2. b \o x \in Seq(Int) /\ Len(b \o x) = Len(b) + Len(x)
        /\ \A j \in 1..(Len(b) + Len(x)) : (b \o x)[j] = IF j <= Len(b) THEN b[j] ELSE x[j - Len(b)]
    BY <2>1, ConcatProperties
  <2> QED BY <1>1, <1>b, <2>1, <2>2
<1>4. Patch(b \o x, Len(b) + at, Len(b) + target) = [c EXCEPT ![L + i] = v] /\ Patch(x, at, target) = [x EXCEPT ![i] = v]
  BY <1>1, <1>2, <1>b DEF Patch
<1>5. CASE i \in 1..n
  <2>a. PICK y : y = [x EXCEPT ![i] = v]
    OBVIOUS
  <2>1. y \in Seq(Int) /\ Len(y) = n /\ \A j \in 1..n : y[j] = IF j = i THEN v ELSE x[j]
    BY <1>1, <1>3, <1>5, <2>a, Changed
  <2>b. PICK m \in Nat, k \in Nat : m = L + n /\ k = L + i /\ k \in 1..m
    BY <1>5
  <2>c. PICK z : z = [c EXCEPT ![k] = v]
    OBVIOUS
  <2>2. m = Len(c)
    BY <1>3, <2>b
  <2>d. z \in Seq(Int) /\ Len(z) = m /\ \A j \in 1..m : z[j] = IF j = k THEN v ELSE c[j]
    BY <1>3, <2>2, <2>b, <2>c, Changed
  <2>3. z = [c EXCEPT ![L + i] = v] /\ Len(z) = L + n /\ \A j \in 1..(L + n) : z[j] = IF j = L + i THEN v ELSE c[j]
    BY <2>b, <2>c, <2>d
  <2>e. PICK e : e = b \o y
    OBVIOUS
  <2>4. e \in Seq(Int) /\ Len(e) = L + n /\ \A j \in 1..(L + n) : e[j] = IF j <= L THEN b[j] ELSE y[j - L]
    <3>1. b \in Seq(Int) /\ L = Len(b) /\ n = Len(y)
      BY <1>1, <1>3, <2>1
    <3>2. b \o y \in Seq(Int) /\ Len(b \o y) = Len(b) + Len(y)
          /\ \A j \in 1..(Len(b) + Len(y)) : (b \o y)[j] = IF j <= Len(b) THEN b[j] ELSE y[j - Len(b)]
      BY <2>1, <3>1, ConcatProperties
    <3> QED BY <2>e, <3>1, <3>2
  <2>5. ASSUME NEW j \in 1..(L + n) PROVE z[j] = e[j]
    <3>1. CASE j <= L
      <4>1. j # L + i
        BY <1>5, <3>1
      <4> QED BY <1>3, <2>3, <2>4, <3>1, <4>1
    <3>2. CASE ~(j <= L)
      <4>1. PICK r \in 1..n : r = j - L /\ (j = L + i <=> r = i)
        BY <3>2
      <4>2. e[j] = IF r = i THEN v ELSE x[r]
        BY <2>1, <2>4, <3>2, <4>1
      <4>3. z[j] = IF j = L + i THEN v ELSE x[r]
        BY <1>3, <2>3, <3>2, <4>1
      <4> QED BY <4>1, <4>2, <4>3
    <3> QED BY <3>1, <3>2
  <2>6. z = e
    BY <2>d, <2>3, <2>4, <2>5, SeqEqual
  <2> QED BY <1>4, <2>a, <2>3, <2>e, <2>6
<1>6. CASE i \notin 1..n
  <2>1. DOMAIN x = 1..n /\ DOMAIN c = 1..(L + n)
    BY <1>1, <1>3, LenProperties
  <2>5. x = [j \in 1..n |-> x[j]] /\ c = [j \in 1..(L + n) |-> c[j]]
    BY <1>1, <1>3, LenProperties
  <2>2. L + i \notin 1..(L + n)
    BY <1>2, <1>6
  <2>3. [x EXCEPT ![i] = v] = x
    BY <1>6, <2>1, <2>5
  <2>4. [c EXCEPT ![L + i] = v] = c
    BY <2>1, <2>2, <2>5
  <2> QED BY <1>b, <1>4, <2>3, <2>4
<1> QED BY <1>5, <1>6

\* The head of a table.
LEMMA HeadMoved ==
    ASSUME NEW layout, NEW places, NEW params, Laid(layout, places), Fits(params, layout),
           NEW b, Whole(b), NEW x \in Seq(Cell),
           NEW h, h = TableHead(x, layout, params)
    PROVE  TableHead(b \o x, layout, params) = Moved(b, h)
<1>1. b \in Seq(Cell) /\ Len(b) \in Nat /\ Len(x) \in Nat
  BY LenProperties DEF Whole
<1>2. PICK V \in Seq(Cell) : V = VTable(layout, params)
  BY VTableWritten
<1>3. PICK B \in Seq(Cell) : B = Body(layout, params)
  BY BodyWritten
<1>4. PICK y \in Seq(Cell) : y = x \o V /\ (b \o x) \o V = b \o y
  <2>1. x \o V \in Seq(Cell)
    BY InFront
  <2>2. (b \o x) \o V = b \o (x \o V)
    BY <1>1, InFront
  <2> QED BY <2>1, <2>2
<1>5. PICK z \in Seq(Cell) : z = Padded(y, layout.pad) /\ Padded(b \o y, layout.pad) = b \o z
  <2>1. CASE layout.pad = ToAlign
    <3>1. Align4(y) \in Seq(Cell) /\ Align4(b \o y) = b \o Align4(y)
      BY AlignMoved, AlignedBehind
    <3> QED BY <2>1, <3>1 DEF Padded
  <2>2. CASE layout.pad # ToAlign
    <3>1. PICK p \in Seq(Cell) : p = Zeros(layout.pad)
      BY <2>2, ZerosAre DEF Laid
    <3>2. y \o p \in Seq(Cell)
      BY InFront
    <3>3. (b \o y) \o p = b \o (y \o p)
      BY <1>1, InFront, SMTT(30), ZenonT(30)
    <3> QED BY <2>2, <3>1, <3>2, <3>3 DEF Padded
  <2> QED BY <2>1, <2>2
<1>6. PICK d \in Nat : d = Len(z) - Len(x) /\ Len(b \o z) - Len(b \o x) = d
  <2>1. Len(b \o z) = Len(b) + Len(z) /\ Len(b \o x) = Len(b) + Len(x) /\ Len(z) \in Nat
    BY <1>1, InFront
  <2>2. Len(x) <= Len(z)
    <3>1. Continues(z, y)
      <4>1. CASE layout.pad = ToAlign
        BY <1>5, <4>1, AlignedBehind DEF Padded
      <4>2. CASE layout.pad # ToAlign
        <5>1. PICK p \in Seq(Cell) : p = Zeros(layout.pad)
          BY <4>2, ZerosAre DEF Laid
        <5> QED BY <1>5, <4>2, <5>1, Concatenated DEF Padded
      <4> QED BY <4>1, <4>2
    <3>2. Continues(y, x)
      BY <1>4, Concatenated
    <3> QED BY <1>1, <3>1, <3>2, LenProperties DEF Continues
  <2>3. PICK L \in Nat, m \in Nat, n \in Nat : L = Len(b) /\ m = Len(z) /\ n = Len(x)
    BY <1>1, <2>1
  <2>4. m - n \in Nat /\ (L + m) - (L + n) = m - n
    BY <2>2, <2>3
  <2> QED BY <2>1, <2>3, <2>4
<1>7. PICK D \in Seq(Cell) : D = Number(4, d)
  BY Cells, NumberIs
<1>8. h = [buf |-> z \o D \o B, at |-> Len(z)]
  BY <1>2, <1>3, <1>4, <1>5, <1>6, <1>7 DEF TableHead
<1>9. TableHead(b \o x, layout, params) = [buf |-> (b \o z) \o D \o B, at |-> Len(b \o z)]
  BY <1>2, <1>3, <1>4, <1>5, <1>6, <1>7 DEF TableHead
<1>10. (b \o z) \o D \o B = b \o (z \o D \o B) /\ Len(b \o z) = Len(b) + Len(z)
  <2>1. b \in Seq(Cell)
    BY <1>1
  <2>2. (b \o z) \o D \o B = b \o (z \o D \o B)
    <3>1. Regroups(b, z, D, B)
      BY <2>1, Regrouped
    <3> QED BY <3>1 DEF Regroups
  <2>3. Len(b \o z) = Len(b) + Len(z)
    BY <2>1, InFront
  <2> QED BY <2>2, <2>3
<1> QED BY <1>8, <1>9, <1>10 DEF Moved

\* What was written of each part is the same, behind the same.
PartsMoved(b, f, w, g, v, layout, params) ==
    \A n \in 1..Len(layout.tail) :
        IsThere(layout, params, n) /\ g[n - 1] = b \o f[n - 1] => v[n] = Moved(b, w[n])

\* A table whose parts are written alike is written alike.
LEMMA TableMoved ==
    ASSUME NEW layout, NEW places, NEW params, Laid(layout, places), Fits(params, layout),
           NEW b, Whole(b), NEW x \in Seq(Cell), CanStart(layout, x),
           NEW f, NEW w, NEW t, TableRun(f, w, t, TableHead(x, layout, params), layout, params),
           NEW g, NEW v, NEW s, TableRun(g, v, s, TableHead(b \o x, layout, params), layout, params),
           PartsMoved(b, f, w, g, v, layout, params)
    PROVE  s = Moved(b, t)
<1>1. PICK N \in Nat, L \in Nat : N = Len(layout.tail) /\ L = Len(b) /\ b \in Seq(Cell)
  BY LenProperties DEF Laid, Whole
<1>2. PICK h, k : /\ h = TableHead(x, layout, params) /\ k = TableHead(b \o x, layout, params)
                  /\ k = Moved(b, h) /\ k.buf = b \o h.buf /\ k.at = L + h.at
  BY <1>1, HeadMoved DEF Moved
<1>3. h.at \in Nat
  BY <1>2, TableHeadWritten DEF HeadWritten
<1>4. ASSUME NEW n \in 1..N, g[n - 1] = b \o f[n - 1] PROVE g[n] = b \o f[n]
  <2>1. n - 1 \in 0..N
    OBVIOUS
  <2>2. PICK z, type, y : /\ z = f[n - 1] /\ type = layout.tail[n][2] /\ y = PartStart(z, type)
                          /\ StartOf(f, layout, n) = y /\ StartOf(g, layout, n) = PartStart(g[n - 1], type)
    BY DEF StartOf
  <2>3. z \in Seq(Cell)
    BY <1>1, <1>2, <2>1, <2>2 DEF TableRun, Behind
  <2>4. y \in Seq(Cell) /\ StartOf(g, layout, n) = b \o y
    <3>1. PartStart(b \o z, type) = b \o PartStart(z, type)
      BY <2>3, StartMoved
    <3>2. PartStart(z, type) \in Seq(Cell)
      BY <2>3, Starts
    <3> QED BY <1>4, <2>2, <3>1, <3>2
  <2>5. f[n] = Parted(layout, params, h.at, n, y, w[n]) /\ g[n] = Parted(layout, params, k.at, n, b \o y, v[n])
    BY <1>1, <1>2, <2>2, <2>4 DEF TableRun
  <2>6. CASE ~IsThere(layout, params, n)
    BY <2>5, <2>6 DEF Parted, IsThere
  <2>7. CASE IsThere(layout, params, n)
    <3>1. Wrote(w[n], y) /\ v[n] = Moved(b, w[n])
      BY <1>1, <1>2, <1>4, <2>2, <2>7 DEF TableRun, PartsMoved
    <3>2. PICK c \in Seq(Cell), target \in Nat : c = w[n].buf /\ target = w[n].at /\ v[n].buf = b \o c /\ v[n].at = L + target
      <4>1. w[n].buf \in Seq(Cell) /\ w[n].at \in Nat
        BY <3>1 DEF Wrote, Continues
      <4>2. v[n].buf = b \o w[n].buf /\ v[n].at = Len(b) + w[n].at
        BY <3>1, MovedIs
      <4> QED BY <1>1, <4>1, <4>2
    <3>3. PICK p \in Nat : p = PlaceOf(layout, layout.tail[n][1])
      <4>1. layout.tail[n][1] \in DOMAIN layout.at
        BY <1>1, ElementOfSeq, SMTT(30), ZenonT(30) DEF Laid
      <4> QED BY <4>1, PlaceIs, FieldPlace
    <3>4. PICK a \in Nat : a = h.at + p /\ k.at + p = L + a
      BY <1>2, <1>3
    <3>5. f[n] = Patch(c, a, target) /\ g[n] = Patch(b \o c, L + a, L + target)
      BY <2>5, <2>7, <3>2, <3>3, <3>4 DEF Parted, IsThere
    <3>6. Patch(b \o c, Len(b) + a, Len(b) + target) = b \o Patch(c, a, target)
      BY <1>1, PatchMoved, SMTT(30), ZenonT(30)
    <3> QED BY <1>1, <3>5, <3>6
  <2> QED BY <2>6, <2>7
<1>5. PICK e : e = [n \in 0..N |-> b \o f[n]]
  OBVIOUS
<1>6. \A n \in 0..N : g[n] = e[n]
  <2>1. g[0] = e[0]
    <3>1. 0 \in 0..N
      OBVIOUS
    <3> QED BY <1>1, <1>2, <1>5, <3>1 DEF TableRun
  <2>2. ASSUME NEW n \in 1..N, g[n - 1] = e[n - 1] PROVE g[n] = e[n]
    <3>1. n - 1 \in 0..N /\ n \in 0..N
      OBVIOUS
    <3> QED BY <1>4, <1>5, <2>2, <3>1
  <2>3. Alike(N, g, e)
    BY <2>1, <2>2, Zenon DEF Alike
  <2> QED BY <2>3, AlikeTo, Zenon
<1>7. g[N] = b \o f[N]
  <2>1. N \in 0..N
    OBVIOUS
  <2> QED BY <1>5, <1>6, <2>1
<1>8. t = [buf |-> f[N], at |-> h.at] /\ s = [buf |-> g[N], at |-> k.at]
  BY <1>1, <1>2 DEF TableRun
<1> QED BY <1>1, <1>2, <1>7, <1>8 DEF Moved

\* The same was written so far, behind the same.
SoFar(b, f, g, n) == f[n - 1] \in Seq(Cell) /\ g[n - 1] = b \o f[n - 1]

LEMMA StartsMoved ==
    ASSUME NEW b, Whole(b), NEW f, NEW g, NEW layout, NEW n, SoFar(b, f, g, n)
    PROVE  StartOf(f, layout, n) \in Seq(Cell) /\ StartOf(g, layout, n) = b \o StartOf(f, layout, n)
<1>0. PICK type : type = layout.tail[n][2]
  OBVIOUS
<1>1. PICK z \in Seq(Cell) : z = f[n - 1]
  BY DEF SoFar
<1>2. PartStart(b \o z, type) = b \o PartStart(z, type) /\ PartStart(z, type) \in Seq(Cell)
  BY StartMoved, Starts
<1>3. StartOf(f, layout, n) = PartStart(z, type) /\ StartOf(g, layout, n) = PartStart(b \o z, type)
  BY <1>0, <1>1 DEF StartOf, SoFar
<1> QED BY <1>2, <1>3

LEMMA TextMoved ==
    ASSUME NEW b \in Seq(Cell), NEW y \in Seq(Cell), NEW type, NEW v \in Seq(Cell)
    PROVE  AppendText(b \o y, type, v) = Moved(b, AppendText(y, type, v))
<1>1. PICK z \in Seq(Cell) : z = IF type = "string" THEN String(v) ELSE ByteVector(v)
  <2>1. ByteVector(v) \in Seq(Cell)
    BY ByteVectorIs
  <2>2. PICK q \in Seq(Cell) : q = ByteVector(v)
    BY <2>1
  <2>3. <<0>> \in Seq(Cell)
    BY Cells
  <2>4. q \o <<0>> \in Seq(Cell)
    BY <2>3, InFront
  <2> QED BY <2>2, <2>4 DEF String
<1>2. (b \o y) \o z = b \o (y \o z) /\ Len(b \o y) = Len(b) + Len(y)
  BY InFront
<1>3. AppendText(b \o y, type, v) = [buf |-> (b \o y) \o z, at |-> Len(b \o y)]
  BY <1>1 DEF AppendText
<1>4. AppendText(y, type, v) = [buf |-> y \o z, at |-> Len(y)]
  BY <1>1 DEF AppendText
<1> QED BY <1>2, <1>3, <1>4 DEF Moved

LEMMA WholeBehind ==
    ASSUME NEW b, Whole(b), NEW x \in Seq(Cell)
    PROVE  b \o x \in Seq(Cell) /\ (Len(x) % 4 = 0 => Len(b \o x) % 4 = 0)
<1>1. /\ b \in Seq(Cell) /\ Len(b) \in Nat /\ Len(b) % 4 = 0 /\ Len(x) \in Nat
      /\ b \o x \in Seq(Cell) /\ Len(b \o x) = Len(b) + Len(x)
  BY InFront DEF Whole
<1> QED BY <1>1, Multiples

LEMMA TextTableMoved ==
    ASSUME NEW layout, NEW places, NEW params, Laid(layout, places), Fits(params, layout),
           OnlyTexts(layout, params), NEW b, Whole(b), NEW x \in Seq(Cell), CanStart(layout, x)
    PROVE  TableInto(b \o x, layout, params, AppendText) = Moved(b, TableInto(x, layout, params, AppendText))
<1>1. PICK y \in Seq(Cell) : y = b \o x /\ CanStart(layout, y)
  BY WholeBehind DEF CanStart
<1>2. PICK t, s : t = TableInto(x, layout, params, AppendText) /\ s = TableInto(y, layout, params, AppendText)
  OBVIOUS
<1>3. PICK f, w : TableRun(f, w, t, TableHead(x, layout, params), layout, params) /\ TextsRun(f, w, layout, params)
  BY <1>2, TextTable
<1>4. PICK g, v : TableRun(g, v, s, TableHead(y, layout, params), layout, params) /\ TextsRun(g, v, layout, params)
  BY <1>1, <1>2, TextTable
<1>5. ASSUME NEW n \in 1..Len(layout.tail), IsThere(layout, params, n), g[n - 1] = b \o f[n - 1]
      PROVE  v[n] = Moved(b, w[n])
  <2>1. n - 1 \in 0..Len(layout.tail)
    BY LenProperties DEF Laid
  <2>2. f[n - 1] \in Seq(Cell)
    BY <1>3, <2>1 DEF TableRun, Behind
  <2>3. PICK z \in Seq(Cell) : z = StartOf(f, layout, n) /\ StartOf(g, layout, n) = b \o z
    <3>1. SoFar(b, f, g, n)
      BY <1>5, <2>2 DEF SoFar
    <3> QED BY <3>1, StartsMoved
  <2>4. PICK V, type : V \in Seq(Cell) /\ V = The(params[layout.tail[n][1]]) /\ type = layout.tail[n][2]
    BY <1>5 DEF OnlyTexts
  <2>5. w[n] = AppendText(z, type, V) /\ v[n] = AppendText(b \o z, type, V)
    BY <1>3, <1>4, <2>3, <2>4 DEF TextsRun
  <2>6. b \in Seq(Cell)
    BY DEF Whole
  <2> QED BY <2>4, <2>5, <2>6, TextMoved
<1>6. PartsMoved(b, f, w, g, v, layout, params)
  BY <1>5 DEF PartsMoved
<1>7. s = Moved(b, t)
  BY <1>1, <1>3, <1>4, <1>6, TableMoved
<1> QED BY <1>1, <1>2, <1>7

\* Positions further on.
Shift(L, tables) == [i \in 1..Len(tables) |-> L + tables[i]]

LEMMA Shifts ==
    ASSUME NEW L \in Nat, NEW tables \in Seq(Nat), NEW N, N = Len(tables)
    PROVE  /\ N \in Nat /\ Shift(L, tables) \in Seq(Nat) /\ Len(Shift(L, tables)) = N
           /\ \A i \in 1..N : Shift(L, tables)[i] = L + tables[i] /\ tables[i] \in Nat
<1>1. N \in Nat /\ \A i \in 1..N : tables[i] \in Nat
  BY LenProperties, ElementOfSeq
<1>2. PICK f : f = Shift(L, tables)
  OBVIOUS
<1>3. f = [i \in 1..N |-> f[i]] /\ \A i \in 1..N : f[i] = L + tables[i]
  BY <1>2 DEF Shift
<1>4. \A i \in 1..N : f[i] \in Nat
  BY <1>1, <1>3
<1>5. f \in Seq(Nat) /\ Len(f) = N
  BY <1>1, <1>3, <1>4, Mapped
<1> QED BY <1>1, <1>2, <1>3, <1>5

LEMMA ShiftAppended ==
    ASSUME NEW L \in Nat, NEW tables \in Seq(Nat), NEW a \in Nat
    PROVE  Shift(L, Append(tables, a)) = Append(Shift(L, tables), L + a)
<1>1. PICK N \in Nat : N = Len(tables)
  BY LenProperties
<1>2. PICK t, M : /\ t \in Seq(Nat) /\ t = Append(tables, a) /\ M = N + 1 /\ Len(t) = M
                 /\ (\A i \in 1..N : t[i] = tables[i]) /\ t[M] = a
  <2>1. /\ Append(tables, a) \in Seq(Nat) /\ Len(Append(tables, a)) = Len(tables) + 1
        /\ (\A i \in 1..Len(tables) : Append(tables, a)[i] = tables[i])
        /\ Append(tables, a)[Len(tables) + 1] = a
    BY AppendProperties
  <2> QED BY <1>1, <2>1
<1>3. PICK u \in Seq(Nat) : u = Shift(L, t) /\ Len(u) = M /\ \A i \in 1..M : u[i] = L + t[i]
  <2>1. t \in Seq(Nat) /\ M = Len(t)
    BY <1>2
  <2>2. Shift(L, t) \in Seq(Nat) /\ Len(Shift(L, t)) = M /\ \A i \in 1..M : Shift(L, t)[i] = L + t[i]
    BY <2>1, Shifts
  <2> QED BY <2>2
<1>4. PICK r \in Seq(Nat) : r = Shift(L, tables) /\ Len(r) = N /\ \A i \in 1..N : r[i] = L + tables[i]
  BY <1>1, Shifts
<1>5. PICK q \in Seq(Nat) : /\ q = Append(r, L + a) /\ Len(q) = M
                            /\ (\A i \in 1..N : q[i] = r[i]) /\ q[M] = L + a
  <2>1. PICK e \in Nat : e = L + a
    OBVIOUS
  <2>2. /\ Append(r, e) \in Seq(Nat) /\ Len(Append(r, e)) = Len(r) + 1
        /\ (\A i \in 1..Len(r) : Append(r, e)[i] = r[i]) /\ Append(r, e)[Len(r) + 1] = e
    BY AppendProperties
  <2> QED BY <1>2, <1>4, <2>1, <2>2
<1>6. ASSUME NEW i \in 1..M PROVE u[i] = q[i]
  <2>1. CASE i = M
    BY <1>2, <1>3, <1>5, <2>1
  <2>2. CASE i # M
    <3>1. i \in 1..N
      BY <1>2, <2>2
    <3> QED BY <1>2, <1>3, <1>4, <1>5, <3>1
  <2> QED BY <2>1, <2>2
<1>7. u = q
  BY <1>3, <1>5, <1>6, SeqEqual
<1> QED BY <1>2, <1>3, <1>4, <1>5, <1>7

LEMMA VectorHeadMoved ==
    ASSUME NEW b \in Seq(Cell), NEW x \in Seq(Cell), NEW N \in Nat
    PROVE  VectorHead(b \o x, N) = b \o VectorHead(x, N)
<1>1. PICK D \in Seq(Cell) : D = Number(4, N)
  BY Cells, NumberIs
<1>2. PICK Z \in Seq(Cell) : Z = Zeros(4 * N)
  BY ZerosAre
<1>3. Regroups(b, x, D, Z)
  BY Regrouped
<1>4. (b \o x) \o D \o Z = b \o (x \o D \o Z)
  BY <1>3 DEF Regroups
<1> QED BY <1>1, <1>2, <1>4 DEF VectorHead

\* What was written of each table is the same, behind the same.
TablesMoved(b, g, w, h, v, N) ==
    \A n \in 1..N : h[n - 1].buf = b \o g[n - 1].buf => v[n] = Moved(b, w[n])

MovedSoFar(b, so_far) == [buf |-> b \o so_far.buf, tables |-> Shift(Len(b), so_far.tables)]

LEMMA MovedSoFarIs ==
    \A b, B, T : MovedSoFar(b, [buf |-> B, tables |-> T]) = [buf |-> b \o B, tables |-> Shift(Len(b), T)]
BY DEF MovedSoFar

LEMMA TablesFollow ==
    ASSUME NEW b \in Seq(Cell), NEW x \in Seq(Cell), NEW N,
           NEW g, NEW w, NEW p, NEW c, VectorRun(g, w, p, c, x, N),
           NEW h, NEW v, NEW q, NEW e, VectorRun(h, v, q, e, b \o x, N), TablesMoved(b, g, w, h, v, N)
    PROVE  \A n \in 0..N : h[n] = MovedSoFar(b, g[n])
<1>1. N \in Nat
  BY DEF VectorRun
<1>2. PICK k : k = [n \in 0..N |-> MovedSoFar(b, g[n])]
  OBVIOUS
<1>3. h[0] = k[0]
  <2>1. g[0] = [buf |-> VectorHead(x, N), tables |-> <<>>]
    BY DEF VectorRun
  <2>2. h[0] = [buf |-> VectorHead(b \o x, N), tables |-> <<>>]
    BY DEF VectorRun
  <2>3. VectorHead(b \o x, N) = b \o VectorHead(x, N)
    BY <1>1, VectorHeadMoved
  <2>4. Shift(Len(b), <<>>) = <<>>
    <3>1. PICK L, t, M : L \in Nat /\ t \in Seq(Nat) /\ L = Len(b) /\ t = <<>> /\ M = 0 /\ M = Len(t)
      BY LenProperties, EmptySeq
    <3>2. Shift(L, t) \in Seq(Nat) /\ Len(Shift(L, t)) = M
      BY <3>1, Shifts
    <3> QED BY <3>1, <3>2, EmptySeq
  <2>5. 0 \in 0..N
    BY <1>1
  <2>6. k[0] = MovedSoFar(b, g[0])
    BY <1>2, <2>5
  <2>7. MovedSoFar(b, g[0]) = [buf |-> b \o VectorHead(x, N), tables |-> Shift(Len(b), <<>>)]
    BY <2>1, MovedSoFarIs
  <2> QED BY <2>2, <2>3, <2>4, <2>6, <2>7
<1>4. ASSUME NEW n \in 1..N, h[n - 1] = k[n - 1] PROVE h[n] = k[n]
  <2>1. n - 1 \in 0..N /\ n \in 0..N
    BY <1>1
  <2>2. h[n - 1].buf = b \o g[n - 1].buf /\ h[n - 1].tables = Shift(Len(b), g[n - 1].tables)
    BY <1>2, <1>4, <2>1 DEF MovedSoFar
  <2>3. v[n] = Moved(b, w[n])
    BY <2>2 DEF TablesMoved
  <2>4. v[n].buf = b \o w[n].buf /\ v[n].at = Len(b) + w[n].at
    BY <2>3, MovedIs
  <2>5. g[n] = [buf |-> w[n].buf, tables |-> Append(g[n - 1].tables, w[n].at)]
    BY DEF VectorRun
  <2>6. h[n] = [buf |-> v[n].buf, tables |-> Append(h[n - 1].tables, v[n].at)]
    BY DEF VectorRun
  <2>7. g[n - 1].tables \in Seq(Nat) /\ w[n].at \in Nat
    BY <2>1 DEF VectorRun, Wrote
  <2>8. PICK t \in Seq(Nat), a \in Nat, L \in Nat : t = g[n - 1].tables /\ a = w[n].at /\ L = Len(b)
    BY <2>7, LenProperties
  <2>9. Shift(L, Append(t, a)) = Append(Shift(L, t), L + a)
    BY ShiftAppended
  <2>10. k[n] = [buf |-> b \o w[n].buf, tables |-> Shift(L, Append(t, a))]
    <3>1. g[n] = [buf |-> w[n].buf, tables |-> Append(t, a)]
      BY <2>5, <2>8
    <3>2. MovedSoFar(b, g[n]) = [buf |-> b \o w[n].buf, tables |-> Shift(Len(b), Append(t, a))]
      BY <3>1, MovedSoFarIs
    <3>3. k[n] = MovedSoFar(b, g[n])
      BY <1>2, <2>1
    <3> QED BY <2>8, <3>2, <3>3
  <2>11. h[n] = [buf |-> b \o w[n].buf, tables |-> Append(Shift(L, t), L + a)]
    BY <2>2, <2>4, <2>6, <2>8
  <2> QED BY <2>9, <2>10, <2>11
<1>5. Alike(N, h, k)
  BY <1>1, <1>3, <1>4, Zenon DEF Alike
<1>6. \A n \in 0..N : h[n] = k[n]
  BY <1>5, AlikeTo, Zenon
<1> QED BY <1>2, <1>6

LEMMA VectorMoved ==
    ASSUME NEW b \in Seq(Cell), NEW x \in Seq(Cell), NEW N,
           NEW g, NEW w, NEW p, NEW c, VectorRun(g, w, p, c, x, N),
           NEW h, NEW v, NEW q, NEW e, VectorRun(h, v, q, e, b \o x, N), TablesMoved(b, g, w, h, v, N)
    PROVE  e = b \o c
<1>1. N \in Nat
  BY DEF VectorRun
<1>2. PICK t, B : t \in Seq(Nat) /\ t = g[N].tables /\ B = g[N].buf /\ Len(t) = N /\ SlotRun(p, B, Len(x) + 4, t, N, c)
  <2>1. N \in 0..N
    BY <1>1
  <2>2. g[N].tables \in Seq(Nat)
    BY <2>1 DEF VectorRun
  <2>3. Len(g[N].tables) = N /\ SlotRun(p, g[N].buf, Len(x) + 4, g[N].tables, N, c)
    BY DEF VectorRun
  <2> QED BY <2>2, <2>3
<1>3. PICK L \in Nat, X \in Nat : L = Len(b) /\ X = Len(x) /\ Len(b \o x) = L + X
  BY InFront
<1>4. h[N].buf = b \o B /\ h[N].tables = Shift(L, t)
  <2>1. N \in 0..N
    BY <1>1
  <2>2. h[N] = MovedSoFar(b, g[N])
    BY <2>1, TablesFollow
  <2> QED BY <1>2, <1>3, <2>2 DEF MovedSoFar
<1>5. SlotRun(q, b \o B, (L + X) + 4, Shift(L, t), N, e)
  <2>1. SlotRun(q, h[N].buf, Len(b \o x) + 4, h[N].tables, N, e)
    BY DEF VectorRun
  <2> QED BY <1>3, <1>4, <2>1
<1>6. \A i \in 1..N : Shift(L, t)[i] = L + t[i] /\ t[i] \in Nat
  BY <1>2, Shifts
<1>7. PICK k : k = [n \in 0..N |-> b \o p[n]]
  OBVIOUS
<1>8. q[0] = k[0]
  <2>1. 0 \in 0..N
    BY <1>1
  <2>2. q[0] = b \o B /\ p[0] = B
    BY <1>2, <1>5 DEF SlotRun
  <2> QED BY <1>7, <2>1, <2>2
<1>9. ASSUME NEW n \in 1..N, q[n - 1] = k[n - 1] PROVE q[n] = k[n]
  <2>1. n - 1 \in 0..N /\ n \in 0..N
    BY <1>1
  <2>2. PICK z \in Seq(Cell) : z = p[n - 1] /\ q[n - 1] = b \o z
    BY <1>2, <1>7, <1>9, <2>1 DEF SlotRun
  <2>3. PICK a \in Nat, T \in Nat : /\ a = (X + 4) + 4 * (n - 1) /\ ((L + X) + 4) + 4 * (n - 1) = L + a
                                  /\ T = t[n] /\ Shift(L, t)[n] = L + T
    <3>1. PICK a \in Nat : a = (X + 4) + 4 * (n - 1) /\ ((L + X) + 4) + 4 * (n - 1) = L + a
      BY <1>1
    <3> QED BY <1>6, <3>1
  <2>4. p[n] = Patch(z, a, T)
    <3>1. p[n] = Patch(p[n - 1], (Len(x) + 4) + 4 * (n - 1), t[n])
      BY <1>2 DEF SlotRun
    <3> QED BY <1>3, <2>2, <2>3, <3>1
  <2>5. q[n] = Patch(b \o z, L + a, L + T)
    <3>1. q[n] = Patch(q[n - 1], ((L + X) + 4) + 4 * (n - 1), Shift(L, t)[n])
      BY <1>5 DEF SlotRun
    <3> QED BY <2>2, <2>3, <3>1
  <2>6. Patch(b \o z, Len(b) + a, Len(b) + T) = b \o Patch(z, a, T)
    BY PatchMoved, ZenonT(40), SMTT(30)
  <2>7. k[n] = b \o p[n]
    BY <1>7, <2>1
  <2> QED BY <1>3, <2>4, <2>5, <2>6, <2>7
<1>10. Alike(N, q, k)
  BY <1>1, <1>8, <1>9, Zenon DEF Alike
<1>11. \A n \in 0..N : q[n] = k[n]
  BY <1>10, AlikeTo, ZenonT(40), SMTT(30)
<1>12. q[N] = b \o p[N]
  <2>1. N \in 0..N
    BY <1>1
  <2> QED BY <1>7, <1>11, <2>1
<1>13. p[N] = c /\ q[N] = e
  BY <1>2, <1>5 DEF SlotRun
<1> QED BY <1>12, <1>13

\* A vector of text tables, P what they are tables of.
TextTables(g, w, layout, P, N) ==
    \A n \in 1..N : w[n] = TableInto(Align4(g[n - 1].buf), layout, P[n], AppendText)

LEMMA TextTablesMoved ==
    ASSUME NEW layout, NEW places, Laid(layout, places), NEW N, NEW P,
           \A n \in 1..N : Fits(P[n], layout) /\ OnlyTexts(layout, P[n]),
           NEW b, Whole(b), NEW x \in Seq(Cell),
           NEW g, NEW w, NEW p, NEW c, VectorRun(g, w, p, c, x, N), TextTables(g, w, layout, P, N),
           NEW h, NEW v, NEW q, NEW e, VectorRun(h, v, q, e, b \o x, N), TextTables(h, v, layout, P, N)
    PROVE  e = b \o c
<1>1. N \in Nat /\ b \in Seq(Cell)
  BY DEF VectorRun, Whole
<1>2. ASSUME NEW n \in 1..N, h[n - 1].buf = b \o g[n - 1].buf PROVE v[n] = Moved(b, w[n])
  <2>1. n - 1 \in 0..N
    BY <1>1
  <2>2. PICK z \in Seq(Cell) : z = g[n - 1].buf
    BY <2>1 DEF VectorRun, Behind
  <2>3. PICK y \in Seq(Cell) : y = Align4(z) /\ Align4(b \o z) = b \o y /\ Len(y) % 4 = 0
    BY AlignMoved, AlignedBehind
  <2>4. PICK params : params = P[n] /\ Fits(params, layout) /\ OnlyTexts(layout, params)
    OBVIOUS
  <2>5. w[n] = TableInto(y, layout, params, AppendText) /\ v[n] = TableInto(b \o y, layout, params, AppendText)
    BY <1>2, <2>2, <2>3, <2>4 DEF TextTables
  <2>6. CanStart(layout, y)
    BY <2>3 DEF CanStart
  <2>7. TableInto(b \o y, layout, params, AppendText) = Moved(b, TableInto(y, layout, params, AppendText))
    BY <2>4, <2>6, TextTableMoved
  <2> QED BY <2>5, <2>7
<1>3. TablesMoved(b, g, w, h, v, N)
  BY <1>2 DEF TablesMoved
<1> QED BY <1>1, <1>3, VectorMoved

LEMMA LabelsRun ==
    ASSUME NEW x \in Seq(Cell), Len(x) % 4 = 0, NEW labels \in Seq(LabelParam),
           NEW N, N = Len(labels), NEW P, P = [n \in 1..N |-> Present(labels[n])]
    PROVE  \E g, w, p : VectorRun(g, w, p, Labels(x, labels), x, N) /\ TextTables(g, w, LabelTable, P, N)
<1>1. PICK r : r = [buf |-> Labels(x, labels), at |-> Len(x)]
  OBVIOUS
<1>2. PICK g, w, p : /\ VectorRun(g, w, p, r.buf, x, Len(labels))
                     /\ \A n \in 1..Len(labels) :
                          w[n] = TableInto(Align4(g[n - 1].buf), LabelTable, Present(labels[n]), AppendText)
  BY <1>1, LabelsWritten
<1>3. TextTables(g, w, LabelTable, P, N)
  BY <1>2 DEF TextTables
<1>4. r.buf = Labels(x, labels)
  BY <1>1
<1> QED BY <1>2, <1>3, <1>4

LEMMA LabelsMoved ==
    ASSUME NEW b, Whole(b), NEW x \in Seq(Cell), Len(x) % 4 = 0, NEW labels \in Seq(LabelParam)
    PROVE  Labels(b \o x, labels) = b \o Labels(x, labels)
<1>1. PICK y \in Seq(Cell) : y = b \o x /\ Len(y) % 4 = 0
  BY WholeBehind
<1>2. PICK N \in Nat : N = Len(labels)
  BY LenProperties
<1>3. PICK P : P = [n \in 1..N |-> Present(labels[n])]
  OBVIOUS
<1>4. ASSUME NEW n \in 1..N PROVE Fits(P[n], LabelTable) /\ OnlyTexts(LabelTable, P[n])
  <2>1. labels[n] \in LabelParam
    BY <1>2, ElementOfSeq
  <2> QED BY <1>3, <2>1, LabelFits
<1>5. PICK c, e : c = Labels(x, labels) /\ e = Labels(y, labels)
  OBVIOUS
<1>6. PICK g, w, p : VectorRun(g, w, p, c, x, N) /\ TextTables(g, w, LabelTable, P, N)
  BY <1>2, <1>3, <1>5, LabelsRun
<1>7. PICK h, v, q : VectorRun(h, v, q, e, y, N) /\ TextTables(h, v, LabelTable, P, N)
  BY <1>1, <1>2, <1>3, <1>5, LabelsRun
<1>8. Laid(LabelTable, LabelPlaces)
  BY LabelLaid
<1>9. VectorRun(h, v, q, e, b \o x, N)
  BY <1>1, <1>7
<1>10. e = b \o c
  BY <1>4, <1>6, <1>7, <1>8, <1>9, TextTablesMoved
<1> QED BY <1>1, <1>5, <1>10

LEMMA BucketsRun ==
    ASSUME NEW x \in Seq(Cell), Len(x) % 4 = 0, NEW buckets \in Seq(Bucket),
           NEW N, N = Len(buckets), NEW P, P = [n \in 1..N |-> Present(buckets[n])]
    PROVE  \E g, w, p : VectorRun(g, w, p, Buckets(x, buckets), x, N) /\ TextTables(g, w, BucketTable, P, N)
<1>1. PICK r : r = [buf |-> Buckets(x, buckets), at |-> Len(x)]
  OBVIOUS
<1>2. PICK g, w, p : /\ VectorRun(g, w, p, r.buf, x, Len(buckets))
                     /\ \A n \in 1..Len(buckets) :
                          w[n] = TableInto(Align4(g[n - 1].buf), BucketTable, Present(buckets[n]), AppendText)
  BY <1>1, BucketsWritten
<1>3. TextTables(g, w, BucketTable, P, N)
  BY <1>2 DEF TextTables
<1>4. r.buf = Buckets(x, buckets)
  BY <1>1
<1> QED BY <1>2, <1>3, <1>4

LEMMA BucketsMoved ==
    ASSUME NEW b, Whole(b), NEW x \in Seq(Cell), Len(x) % 4 = 0, NEW buckets \in Seq(Bucket)
    PROVE  Buckets(b \o x, buckets) = b \o Buckets(x, buckets)
<1>1. PICK y \in Seq(Cell) : y = b \o x /\ Len(y) % 4 = 0
  BY WholeBehind
<1>2. PICK N \in Nat : N = Len(buckets)
  BY LenProperties
<1>3. PICK P : P = [n \in 1..N |-> Present(buckets[n])]
  OBVIOUS
<1>4. ASSUME NEW n \in 1..N PROVE Fits(P[n], BucketTable) /\ OnlyTexts(BucketTable, P[n])
  <2>1. buckets[n] \in Bucket
    BY <1>2, ElementOfSeq
  <2> QED BY <1>3, <2>1, BucketFits
<1>5. PICK c, e : c = Buckets(x, buckets) /\ e = Buckets(y, buckets)
  OBVIOUS
<1>6. PICK g, w, p : VectorRun(g, w, p, c, x, N) /\ TextTables(g, w, BucketTable, P, N)
  BY <1>2, <1>3, <1>5, BucketsRun
<1>7. PICK h, v, q : VectorRun(h, v, q, e, y, N) /\ TextTables(h, v, BucketTable, P, N)
  BY <1>1, <1>2, <1>3, <1>5, BucketsRun
<1>8. Laid(BucketTable, BucketPlaces)
  BY BucketLaid
<1>9. VectorRun(h, v, q, e, b \o x, N)
  BY <1>1, <1>7
<1>10. e = b \o c
  BY <1>4, <1>6, <1>7, <1>8, <1>9, TextTablesMoved
<1> QED BY <1>1, <1>5, <1>10

LEMMA HistogramMoved ==
    ASSUME NEW b, Whole(b), NEW x \in Seq(Cell), NEW hist \in HistogramPoint
    PROVE  HistogramInto(b \o x, hist) = Moved(b, HistogramInto(x, hist))
<1>1. PICK layout, places, params :
        layout = HistogramTable /\ places = HistogramPlaces /\ params = HistogramParams(hist)
  OBVIOUS
<1>2. Laid(layout, places) /\ Fits(params, layout) /\ CanStart(layout, x) /\ Len(layout.tail) = 1
  <2>1. HistogramTable.pad = ToAlign
    BY DEF HistogramTable
  <2> QED BY <1>1, <2>1, HistogramLaid, HistogramFits DEF CanStart
<1>3. PICK y \in Seq(Cell) : y = b \o x
  BY WholeBehind
<1>4. PICK t, s : t = HistogramInto(x, hist) /\ s = HistogramInto(y, hist)
  OBVIOUS
<1>5. PICK f, w : /\ TableRun(f, w, t, TableHead(x, layout, params), layout, params)
                  /\ hist.buckets # <<>> => w[1] = BucketsBehind(Align4(f[0]), hist.buckets)
  BY <1>1, <1>4, HistogramWritten
<1>6. PICK g, v : /\ TableRun(g, v, s, TableHead(y, layout, params), layout, params)
                  /\ hist.buckets # <<>> => v[1] = BucketsBehind(Align4(g[0]), hist.buckets)
  BY <1>1, <1>4, HistogramWritten
<1>7. ASSUME NEW n \in 1..Len(layout.tail), IsThere(layout, params, n), g[n - 1] = b \o f[n - 1]
      PROVE  v[n] = Moved(b, w[n])
  <2>1. n = 1 /\ n - 1 = 0 /\ 0 \in 0..Len(layout.tail)
    BY <1>2
  <2>2. hist.buckets # <<>>
    <3>1. layout.tail[1][1] = "buckets"
      BY <1>1, HistogramTail
    <3>2. params["buckets"] # {}
      BY <1>7, <2>1, <3>1 DEF IsThere, Absent
    <3>3. params["buckets"] = IF hist.buckets = <<>> THEN {} ELSE {hist.buckets}
      BY <1>1, HistogramParamsAre
    <3> QED BY <3>2, <3>3
  <2>3. PICK z \in Seq(Cell) : z = f[0] /\ g[0] = b \o z
    <3>1. f[0] \in Seq(Cell)
      BY <1>5, <2>1 DEF TableRun, Behind
    <3> QED BY <1>7, <2>1, <3>1
  <2>4. PICK u \in Seq(Cell) : u = Align4(z) /\ Align4(b \o z) = b \o u /\ Len(u) % 4 = 0
    BY AlignMoved, AlignedBehind
  <2>5. PICK buckets \in Seq(Bucket) : buckets = hist.buckets
    BY DEF HistogramPoint
  <2>6. Buckets(b \o u, buckets) = b \o Buckets(u, buckets) /\ Len(b \o u) = Len(b) + Len(u)
    <3>1. b \in Seq(Cell)
      BY DEF Whole
    <3>2. Buckets(b \o u, buckets) = b \o Buckets(u, buckets)
      BY <2>4, BucketsMoved
    <3> QED BY <3>1, <3>2, InFront
  <2>7. w[n] = BucketsBehind(u, buckets) /\ v[n] = BucketsBehind(b \o u, buckets)
    BY <1>5, <1>6, <2>1, <2>2, <2>3, <2>4, <2>5
  <2> QED BY <2>6, <2>7 DEF BucketsBehind, Moved
<1>8. PartsMoved(b, f, w, g, v, layout, params)
  BY <1>7 DEF PartsMoved
<1>9. s = Moved(b, t)
  BY <1>2, <1>3, <1>5, <1>6, <1>8, TableMoved
<1> QED BY <1>3, <1>4, <1>9

LEMMA AnyMoved ==
    ASSUME NEW b, Whole(b), NEW x \in Seq(Cell), NEW type, type # "histogram" => Len(x) % 4 = 0,
           NEW v, IsValue(type, v)
    PROVE  AppendAny(b \o x, type, v) = Moved(b, AppendAny(x, type, v))
<1>1. b \in Seq(Cell)
  BY DEF Whole
<1>2. CASE type = "labels"
  <2>1. v \in Seq(LabelParam) /\ Len(x) % 4 = 0
    BY <1>2 DEF IsValue
  <2>2. Labels(b \o x, v) = b \o Labels(x, v)
    BY <2>1, LabelsMoved
  <2>3. Len(b \o x) = Len(b) + Len(x)
    BY <1>1, InFront
  <2>4. /\ AppendAny(b \o x, type, v) = [buf |-> Labels(b \o x, v), at |-> Len(b \o x)]
        /\ AppendAny(x, type, v) = [buf |-> Labels(x, v), at |-> Len(x)]
    BY <1>2 DEF AppendAny
  <2> QED BY <2>2, <2>3, <2>4 DEF Moved
<1>3. CASE type = "histogram"
  <2>1. v \in HistogramPoint
    BY <1>3 DEF IsValue
  <2>2. AppendAny(b \o x, type, v) = HistogramInto(b \o x, v) /\ AppendAny(x, type, v) = HistogramInto(x, v)
    BY <1>3 DEF AppendAny
  <2> QED BY <2>1, <2>2, HistogramMoved
<1>4. CASE type # "labels" /\ type # "histogram"
  <2>1. v \in Seq(Cell)
    BY <1>4, TextsAreCells DEF IsValue
  <2>2. AppendAny(b \o x, type, v) = AppendText(b \o x, type, v) /\ AppendAny(x, type, v) = AppendText(x, type, v)
    BY <1>4 DEF AppendAny
  <2> QED BY <1>1, <2>1, <2>2, TextMoved
<1> QED BY <1>2, <1>3, <1>4

LEMMA AnyTableMoved ==
    ASSUME NEW layout, NEW places, NEW params, Laid(layout, places), Fits(params, layout),
           HasValues(layout, params), NEW b, Whole(b), NEW x \in Seq(Cell), CanStart(layout, x)
    PROVE  TableInto(b \o x, layout, params, AppendAny) = Moved(b, TableInto(x, layout, params, AppendAny))
<1>1. PICK y \in Seq(Cell) : y = b \o x /\ CanStart(layout, y)
  BY WholeBehind DEF CanStart
<1>2. PICK t, s : t = TableInto(x, layout, params, AppendAny) /\ s = TableInto(y, layout, params, AppendAny)
  OBVIOUS
<1>3. PICK f, w : TableRun(f, w, t, TableHead(x, layout, params), layout, params) /\ AnyRun(f, w, layout, params)
  BY <1>2, AnyTable
<1>4. PICK g, v : TableRun(g, v, s, TableHead(y, layout, params), layout, params) /\ AnyRun(g, v, layout, params)
  BY <1>1, <1>2, AnyTable
<1>5. ASSUME NEW n \in 1..Len(layout.tail), IsThere(layout, params, n), g[n - 1] = b \o f[n - 1]
      PROVE  v[n] = Moved(b, w[n])
  <2>1. n - 1 \in 0..Len(layout.tail)
    BY LenProperties DEF Laid
  <2>2. f[n - 1] \in Seq(Cell)
    BY <1>3, <2>1 DEF TableRun, Behind
  <2>3. PICK z \in Seq(Cell) : z = StartOf(f, layout, n) /\ StartOf(g, layout, n) = b \o z
    <3>1. SoFar(b, f, g, n)
      BY <1>5, <2>2 DEF SoFar
    <3> QED BY <3>1, StartsMoved
  <2>4. PICK V, type : V = The(params[layout.tail[n][1]]) /\ type = layout.tail[n][2] /\ IsValue(type, V)
    BY <1>5 DEF HasValues
  <2>5. w[n] = AppendAny(z, type, V) /\ v[n] = AppendAny(b \o z, type, V)
    BY <1>3, <1>4, <2>3, <2>4 DEF AnyRun
  <2>6. type # "histogram" => Len(z) % 4 = 0
    <3>1. ASSUME type # "histogram" PROVE z = Align4(f[n - 1])
      BY <2>3, <2>4, <3>1 DEF StartOf, PartStart
    <3> QED BY <2>2, <3>1, AlignedBehind
  <2> QED BY <2>4, <2>5, <2>6, AnyMoved
<1>6. PartsMoved(b, f, w, g, v, layout, params)
  BY <1>5 DEF PartsMoved
<1>7. s = Moved(b, t)
  BY <1>1, <1>3, <1>4, <1>6, TableMoved
<1> QED BY <1>1, <1>2, <1>7

\* An entry is the same bytes wherever it is put.
LEMMA EntryMoved ==
    ASSUME NEW layout, NEW places, NEW params, Laid(layout, places), Fits(params, layout),
           HasValues(layout, params), NEW b, Whole(b)
    PROVE  EntryInto(b, layout, params) = b \o EntryAlone(layout, params)
<1>1. PICK L \in Nat : L = Len(b) /\ b \in Seq(Cell)
  BY LenProperties DEF Whole
<1>2. PICK z \in Seq(Cell) : z = Zeros(4) /\ Len(z) = 4
  <2>1. PICK n \in Nat : n = 4
    OBVIOUS
  <2> QED BY <2>1, ZerosAre
<1>3. <<>> \o z = z
  BY ConcatEmptySeq
<1>4. CanStart(layout, z)
  <2>1. 4 % 4 = 0
    OBVIOUS
  <2> QED BY <1>2, <2>1 DEF CanStart
<1>5. PICK t : t = TableInto(z, layout, params, AppendAny)
  OBVIOUS
<1>6. PICK c \in Seq(Cell), a \in Nat : c = t.buf /\ a = t.at
  <2>1. Wrote(t, z)
    BY <1>4, <1>5, AnyTable
  <2> QED BY <2>1 DEF Wrote, Continues
<1>7. PICK s : s = TableInto(b \o z, layout, params, AppendAny) /\ s.buf = b \o c /\ s.at = L + a
  <2>1. TableInto(b \o z, layout, params, AppendAny) = Moved(b, t)
    BY <1>4, <1>5, AnyTableMoved
  <2> QED BY <1>1, <1>6, <2>1, MovedIs
<1>8. EntryAlone(layout, params) = Patch(c, 0, a)
  <2>1. EntryAlone(layout, params) = [c EXCEPT ![Len(<<>>) + 1] = RootOf(Len(<<>>), a)]
    BY <1>2, <1>3, <1>5, <1>6 DEF EntryAlone, EntryInto
  <2>2. Len(<<>>) = 0
    OBVIOUS
  <2> QED BY <2>1, <2>2 DEF RootOf, Patch
<1>9. EntryInto(b, layout, params) = Patch(b \o c, L + 0, L + a)
  <2>1. EntryInto(b, layout, params) = [b \o c EXCEPT ![L + 1] = RootOf(L, L + a)]
    BY <1>1, <1>2, <1>7 DEF EntryInto
  <2>2. L + 0 = L
    OBVIOUS
  <2> QED BY <2>1, <2>2 DEF RootOf, Patch
<1>10. Patch(b \o c, Len(b) + 0, Len(b) + a) = b \o Patch(c, 0, a)
  BY <1>1, PatchMoved
<1> QED BY <1>1, <1>8, <1>9, <1>10

\* Bytes that are there already, put behind others.
EncodedBehind(b, bytes) == [buf |-> b \o bytes, at |-> TableOf(b \o bytes, Len(b))]

EncodedVector(b, encoded) ==
    TableVector(b, encoded, LAMBDA x, bytes : EncodedBehind(x, bytes))

\* They are collected one after the other.
LEMMA EncodedAre ==
    ASSUME NEW b, NEW encoded, Len(encoded) \in Nat, NEW g, NEW w, NEW W,
           VectorRunsBy(g, w, W, b, Len(encoded)),
           \A n \in 1..Len(encoded) : \A x \in Behind(VectorHead(b, Len(encoded))) :
             W[<<n, x>>] = EncodedBehind(Align4(x), encoded[n])
    PROVE  EncodedVector(b, encoded) = PatchSlots(g[Len(encoded)].buf, Len(b) + 4, g[Len(encoded)].tables)
<1>1. PICK N \in Nat : N = Len(encoded)
  OBVIOUS
<1>2. /\ g = [n \in 0..N |-> g[n]] /\ g[0] = [buf |-> VectorHead(b, N), tables |-> <<>>]
      /\ \A n \in 0..N : g[n] \in [buf : Behind(VectorHead(b, N)), tables : Seq(Nat)]
      /\ \A n \in 1..N : w[n] = W[<<n, g[n - 1].buf>>] /\ g[n] = OneMore(g[n - 1], w[n])
  BY <1>1 DEF VectorRunsBy, OneMore
<1> DEFINE upTo[n \in 0..N] ==
        IF n = 0 THEN [buf |-> VectorHead(b, N), tables |-> <<>>]
        ELSE OneMore(upTo[n - 1], EncodedBehind(Align4(upTo[n - 1].buf), encoded[n]))
<1>3. EncodedVector(b, encoded) = PatchSlots(upTo[N].buf, Len(b) + 4, upTo[N].tables)
  BY <1>1, Zenon DEF EncodedVector, TableVector, upTo, OneMore
<1>4. ASSUME NEW n \in 1..N PROVE g[n] = OneMore(g[n - 1], EncodedBehind(Align4(g[n - 1].buf), encoded[n]))
  <2>1. n - 1 \in 0..N
    OBVIOUS
  <2>2. g[n - 1].buf \in Behind(VectorHead(b, N))
    BY <1>2, <2>1
  <2>3. w[n] = EncodedBehind(Align4(g[n - 1].buf), encoded[n])
    BY <1>1, <1>2, <2>2
  <2> QED BY <1>2, <2>3
<1>5. \E f : f = [n \in 0..N |->
          IF n = 0 THEN [buf |-> VectorHead(b, N), tables |-> <<>>]
          ELSE OneMore(f[n - 1], EncodedBehind(Align4(f[n - 1].buf), encoded[n]))]
  <2>1. \A n \in 0..N : g[n] =
          IF n = 0 THEN [buf |-> VectorHead(b, N), tables |-> <<>>]
          ELSE OneMore(g[n - 1], EncodedBehind(Align4(g[n - 1].buf), encoded[n]))
    <3>1. \A n \in 0..N : n = 0 \/ (n # 0 /\ n \in 1..N)
      OBVIOUS
    <3> QED BY <1>2, <1>4, <3>1, Zenon
  <2> QED BY <1>2, <2>1
<1>6. upTo = [n \in 0..N |->
          IF n = 0 THEN [buf |-> VectorHead(b, N), tables |-> <<>>]
          ELSE OneMore(upTo[n - 1], EncodedBehind(Align4(upTo[n - 1].buf), encoded[n]))]
  BY <1>5, Zenon DEF upTo
<1> HIDE DEF upTo
<1>7. upTo[N] = g[N]
  <2>1. \A n \in 0..N : upTo[n] =
          IF n = 0 THEN [buf |-> VectorHead(b, N), tables |-> <<>>]
          ELSE OneMore(upTo[n - 1], EncodedBehind(Align4(upTo[n - 1].buf), encoded[n]))
    BY <1>6, Zenon
  <2>2. 0 \in 0..N /\ N \in 0..N /\ \A n \in 1..N : n \in 0..N /\ n # 0
    OBVIOUS
  <2>3. upTo[0] = g[0]
    BY <1>2, <2>1, <2>2, Zenon
  <2>4. \A n \in 1..N : upTo[n - 1] = g[n - 1] => upTo[n] = g[n]
    BY <1>4, <2>1, <2>2, Zenon
  <2>5. \A n \in 0..N : upTo[n] = g[n]
    BY <2>3, <2>4, SameTo, SMTT(30), ZenonT(30)
  <2> QED BY <2>2, <2>5, Zenon
<1> QED BY <1>1, <1>3, <1>7, Zenon

LEMMA DataOfIs ==
    ASSUME NEW encoded
    PROVE  DataOf(encoded) =
               Patch(EncodedVector(WithHeader(<<>>), encoded), EntriesAt, Len(WithHeader(<<>>)))
BY Zenon DEF DataOf, EncodedVector, TableVector, EncodedBehind

\* Encoding in place and collecting what is encoded come to the same.
LEMMA DataAgrees ==
    ASSUME NEW layout, NEW places, Laid(layout, places), NEW entries, Len(entries) \in Nat,
           \A n \in 1..Len(entries) : Fits(entries[n], layout) /\ HasValues(layout, entries[n]),
           NEW encoded, encoded = [n \in 1..Len(entries) |-> EntryAlone(layout, entries[n])]
    PROVE  DataInto(<<>>, layout, entries) = DataOf(encoded)
<1>1. PICK N \in Nat : N = Len(entries)
  OBVIOUS
<1>2. Len(encoded) = N
  <2>1. PICK P : P = {encoded[n] : n \in 1..N}
    OBVIOUS
  <2>2. encoded = [n \in 1..N |-> encoded[n]] /\ \A n \in 1..N : encoded[n] \in P
    BY <1>1, <2>1
  <2> QED BY <2>2, Mapped
<1>3. PICK h \in Seq(Cell) : h = WithHeader(<<>>) /\ Align4(WithHeader(<<>>)) = h /\ Len(h) = 20 /\ Len(h) % 4 = 0
  <2>1. PICK h \in Seq(Cell) : h = WithHeader(<<>>) /\ Align4(WithHeader(<<>>)) = h /\ Len(h) = 20
    BY HeaderWritten DEF HeaderIs
  <2>2. 20 % 4 = 0
    OBVIOUS
  <2> QED BY <2>1, <2>2
<1>4. PICK c : c = EntryVector(h, layout, entries)
  OBVIOUS
<1>5. PICK g, w, W : /\ VectorRunsBy(g, w, W, h, N)
                     /\ \A n \in 1..N : \A x \in Behind(VectorHead(h, N)) :
                          W[<<n, x>>] = EntryBehind(Align4(x), layout, entries[n])
  <2>1. Len(h) % 4 = 0
    BY <1>3
  <2>2. \E g, w, W :
          /\ VectorRunsBy(g, w, W, h, Len(entries))
          /\ \A n \in 1..Len(entries) : \A x \in Behind(VectorHead(h, Len(entries))) :
               W[<<n, x>>] = EntryBehind(Align4(x), layout, entries[n])
    BY <2>1, <1>4, EntriesWritten
  <2> QED BY <1>1, <2>2
<1>6. c = PatchSlots(g[N].buf, Len(h) + 4, g[N].tables)
  BY <1>1, <1>4, <1>5, EntriesAre
<1>7. ASSUME NEW n \in 1..N, NEW x \in Behind(VectorHead(h, N))
      PROVE  W[<<n, x>>] = EncodedBehind(Align4(x), encoded[n])
  <2>1. PICK y : y = Align4(x) /\ Whole(y)
    BY AlignedBehind DEF Behind, Whole
  <2>2. PICK params : params = entries[n] /\ Fits(params, layout) /\ HasValues(layout, params)
    BY <1>1
  <2>3. EntryInto(y, layout, params) = y \o EntryAlone(layout, params)
    BY <2>1, <2>2, EntryMoved
  <2>4. encoded[n] = EntryAlone(layout, params)
    BY <1>1, <2>2
  <2>5. W[<<n, x>>] = EntryBehind(y, layout, params)
    BY <1>5, <2>1, <2>2
  <2> QED BY <2>1, <2>3, <2>4, <2>5 DEF EntryBehind, EncodedBehind
<1>8. EncodedVector(h, encoded) = PatchSlots(g[N].buf, Len(h) + 4, g[N].tables)
  BY <1>2, <1>5, <1>7, EncodedAre
<1>9. DataInto(<<>>, layout, entries) = Patch(c, Len(<<>>) + EntriesAt, Len(h))
  BY <1>3, <1>4, DataIs
<1>10. DataOf(encoded) = Patch(c, EntriesAt, Len(h))
  BY <1>3, <1>6, <1>8, DataOfIs
<1>11. Len(<<>>) + EntriesAt = EntriesAt
  BY DEF EntriesAt
<1> QED BY <1>9, <1>10, <1>11

LEMMA ParamsOfEach ==
    ASSUME NEW k \in Kinds, NEW c \in Chunks[k], NEW E, E = AllParams(k, c)
    PROVE  Len(E) = Len(c)
<1>1. \E S : c \in Seq(S)
  BY EncodingAssumption DEF Kinds
<1>2. PICK N \in Nat : N = Len(c)
  BY <1>1, LenProperties
<1>3. PICK P : P = {E[i] : i \in 1..N}
  OBVIOUS
<1>4. E = [i \in 1..N |-> E[i]] /\ \A i \in 1..N : E[i] \in P
  BY <1>2, <1>3 DEF AllParams
<1> QED BY <1>2, <1>4, Mapped
-----------------------------------------------------------------------------
(* The buffers are what the last call made of them. *)

IInv ==
    /\ kind \in Kinds \cup {"none"}
    /\ ~Encoded => data_buf = <<>> /\ batch_buf = <<>>
    /\ Encoded =>
         /\ chunk \in Chunks[kind]
         /\ data_buf = DataInto(<<>>, EntryTable[kind], AllParams(kind, chunk))
         /\ batch_buf = BatchInto(<<>>, BatchParams(ApiKey, SchemaType[kind], Version, BatchId, data_buf))

LEMMA WholeSequence == \A s \in Seq(Cell) : SubSeq(s, Len(<<>>) + 1, Len(s)) = s
<1> SUFFICES ASSUME NEW s \in Seq(Cell) PROVE SubSeq(s, Len(<<>>) + 1, Len(s)) = s
  OBVIOUS
<1>1. PICK n \in Nat, a \in Int, b \in Int : n = Len(s) /\ a = 1 /\ b = n /\ s = [i \in 1..n |-> s[i]]
  BY LenProperties
<1>2. Len(<<>>) + 1 = a
  BY <1>1
<1>3. \A i \in a..b : s[i] \in Cell
  BY <1>1, ElementOfSeq
<1>4. PICK y \in Seq(Cell) :
        /\ y = SubSeq(s, a, b) /\ Len(y) = (IF a <= b THEN b - a + 1 ELSE 0)
        /\ \A i \in 1..(b - a + 1) : y[i] = s[a + i - 1]
  <2>1. /\ SubSeq(s, a, b) \in Seq(Cell) /\ Len(SubSeq(s, a, b)) = (IF a <= b THEN b - a + 1 ELSE 0)
        /\ \A i \in 1..(b - a + 1) : SubSeq(s, a, b)[i] = s[a + i - 1]
    BY <1>3, SubSeqProperties
  <2> QED BY <2>1, Zenon
<1>5. Len(y) = n /\ \A i \in 1..n : y[i] = s[i]
  <2>1. b - a + 1 = n /\ (a <= b <=> n > 0) /\ \A i \in 1..n : a + i - 1 = i
    BY <1>1
  <2>2. Len(y) = n
    BY <1>4, <2>1
  <2>3. \A i \in 1..n : y[i] = s[a + i - 1]
    BY <1>4, <2>1
  <2>4. \A i \in 1..n : y[i] = s[i]
    BY <2>1, <2>3, Zenon
  <2> QED BY <2>2, <2>4
<1>6. y = s
  BY <1>1, <1>5, SeqEqual
<1> QED BY <1>1, <1>2, <1>4, <1>6

LEMMA InvInit == Init => IInv
BY DEF Init, IInv, Encoded, Kinds

LEMMA InvNext == IInv /\ [Next]_vars => IInv'
<1> SUFFICES ASSUME IInv, [Next]_vars PROVE IInv'
  OBVIOUS
<1>1. CASE UNCHANGED vars
  BY <1>1, Zenon DEF IInv, Encoded, vars
<1>2. CASE Next
  <2>1. PICK k \in Kinds : \E entries \in Chunks[k] : Encode(k, entries)
    BY <1>2, Zenon DEF Next
  <2>2. PICK c \in Chunks[k] : Encode(k, c)
    BY <2>1, Zenon
  <2>3. /\ kind' = k /\ chunk' = c
        /\ data_buf' = DataInto(<<>>, EntryTable[k], AllParams(k, c))
        /\ batch_buf' = BatchInto(<<>>,
             [api_key |-> {ApiKey}, schema_type |-> {SchemaType[k]}, version |-> {Version},
              batch_id |-> {BatchId}, source_ip |-> {},
              data |-> {SubSeq(data_buf', Len(<<>>) + 1, Len(data_buf'))}])
    BY <2>2, Zenon DEF Encode, Cleared
  <2>4. PICK E, layout, D : E = AllParams(k, c) /\ layout = EntryTable[k] /\ D = DataInto(<<>>, layout, E)
    OBVIOUS
  <2>5. D \in Seq(Cell)
    BY <2>4, DataRead DEF DataHolds
  <2>6. data_buf' = D
    BY <2>3, <2>4, Zenon
  <2>7. SubSeq(data_buf', Len(<<>>) + 1, Len(data_buf')) = data_buf'
    BY <2>5, <2>6, WholeSequence, Zenon
  <2>8. batch_buf' = BatchInto(<<>>, BatchParams(ApiKey, SchemaType[k], Version, BatchId, data_buf'))
    BY <2>3, <2>7, Zenon DEF BatchParams
  <2>9. k # "none"
    BY DEF Kinds
  <2> QED BY <2>3, <2>8, <2>9, Zenon DEF IInv, Encoded
<1> QED BY <1>1, <1>2

\* What the invariant says of the buffers of a batch.
LEMMA BatchHolds ==
    ASSUME IInv, Encoded, NEW E, E = AllParams(kind, chunk), NEW layout, layout = EntryTable[kind]
    PROVE  /\ DataHolds(data_buf, layout, E) /\ data_buf \in Seq(Cell)
           /\ batch_buf \in Seq(Cell) /\ Len(batch_buf) = 72 + Len(data_buf)
           /\ VectorAt(batch_buf, The(FieldAt(batch_buf, Root(batch_buf), 0))) = ApiKey
           /\ Scalar(batch_buf, Root(batch_buf), 1) = SchemaType[kind]
           /\ Scalar(batch_buf, Root(batch_buf), 2) = Version
           /\ BatchData = data_buf
           /\ Root(batch_buf) % 4 = 0
           /\ \A field \in {0, 4} : \A pos \in FieldAt(batch_buf, Root(batch_buf), field) :
                Follow(batch_buf, pos) % 4 = 0
<1>1. /\ kind \in Kinds /\ chunk \in Chunks[kind] /\ data_buf = DataInto(<<>>, layout, E)
      /\ batch_buf = BatchInto(<<>>, BatchParams(ApiKey, SchemaType[kind], Version, BatchId, data_buf))
  BY DEF IInv, Encoded
<1>2. PICK D : D = data_buf
  OBVIOUS
<1>3. DataHolds(D, layout, E)
  <2>1. PICK k \in Kinds : k = kind
    BY <1>1
  <2>2. PICK c \in Chunks[k] : c = chunk
    BY <1>1, <2>1
  <2>3. E = AllParams(k, c) /\ layout = EntryTable[k] /\ D = DataInto(<<>>, layout, E)
    BY <1>1, <1>2, <2>1, <2>2
  <2> QED BY <2>3, DataRead
<1>4. PICK key \in Seq(Cell), type \in Cell, version \in Cell, id \in Cell :
        key = ApiKey /\ type = SchemaType[kind] /\ version = Version /\ id = BatchId
  <2>1. ApiKey \in Seq(Cell)
    BY EncodingAssumption, TextsAreCells
  <2>2. SchemaType[kind] \in Nat /\ Version \in Nat /\ BatchId \in Nat
    BY <1>1, EncodingAssumption DEF SchemaType, BatchId, Kinds
  <2> QED BY <2>1, <2>2, Cells
<1>5. Len(key) = 16
  BY <1>4, EncodingAssumption
<1>6. PICK P, B : P = BatchParams(key, type, version, id, D) /\ B = BatchInto(<<>>, P)
  OBVIOUS
<1>7. D \in Seq(Cell)
  BY <1>3 DEF DataHolds
<1>8. /\ B \in Seq(Cell) /\ Len(B) = 72 + Len(D)
      /\ Root(B) \in Nat /\ Root(B) % 4 = 0 /\ IsTextTable(B, Root(B), BatchTable, P)
  BY <1>5, <1>6, <1>7, BatchWritten
<1>9. PICK at \in Nat : at = Root(B) /\ IsTextTable(B, at, BatchTable, P)
  BY <1>8
<1>10. /\ VectorAt(B, The(FieldAt(B, at, 0))) = key
       /\ Scalar(B, at, 1) = type /\ Scalar(B, at, 2) = version
       /\ VectorAt(B, The(FieldAt(B, at, 4))) = D
       /\ \A field \in {0, 4} : \A pos \in FieldAt(B, at, field) : Follow(B, pos) % 4 = 0
  BY <1>6, <1>9, BatchRead
<1>11. batch_buf = B
  BY <1>1, <1>2, <1>4, <1>6
<1> QED BY <1>2, <1>3, <1>4, <1>7, <1>8, <1>9, <1>10, <1>11 DEF BatchData

LEMMA InvTypes == IInv => TypeOK
<1>1. Cell = Nat \cup {Rest}
  BY DEF Cell
<1>2. CASE ~Encoded
  <2>1. <<>> \in Seq(Cell)
    OBVIOUS
  <2> QED BY <1>1, <1>2, <2>1 DEF IInv, TypeOK
<1>3. ASSUME IInv, Encoded PROVE TypeOK
  <2>1. data_buf \in Seq(Cell) /\ batch_buf \in Seq(Cell) /\ Len(batch_buf) = 72 + Len(data_buf)
    BY <1>3, BatchHolds
  <2>2. kind \in Kinds \cup {"none"} /\ chunk \in Chunks[kind]
    BY <1>3 DEF IInv
  <2> QED BY <1>1, <2>1, <2>2 DEF TypeOK
<1> QED BY <1>2, <1>3

LEMMA InvReads == IInv => ReadsBack
<1> SUFFICES ASSUME IInv, Encoded PROVE ReadsBack
  BY DEF ReadsBack
<1>1. PICK E, layout : E = AllParams(kind, chunk) /\ layout = EntryTable[kind]
  OBVIOUS
<1>2. kind \in Kinds /\ chunk \in Chunks[kind]
  BY DEF IInv, Encoded
<1>3. Schema[kind] = layout.fields /\ Len(E) \in Nat /\ E = [i \in 1..Len(E) |-> E[i]]
  BY <1>1, <1>2, ChunkFits
<1>4. /\ DataHolds(data_buf, layout, E) /\ BatchData = data_buf
      /\ VectorAt(batch_buf, The(FieldAt(batch_buf, Root(batch_buf), 0))) = ApiKey
      /\ Scalar(batch_buf, Root(batch_buf), 1) = SchemaType[kind]
      /\ Scalar(batch_buf, Root(batch_buf), 2) = Version
  BY <1>1, BatchHolds
<1>5. PICK N, t : N = Len(E) /\ t = EntryTables(data_buf)
  OBVIOUS
<1>6. /\ Len(t) = N /\ \A i \in 1..N : t[i] = Follow(data_buf, 20 + 4 * i)
      /\ \A i \in 1..N : ReadEntry(data_buf, t[i], layout.fields) = E[i]
  BY <1>4, <1>5 DEF DataHolds
<1>7. Entries = [i \in 1..N |-> ReadEntry(data_buf, t[i], layout.fields)]
  <2>1. Entries = [i \in 1..Len(EntryTables(BatchData)) |->
                      ReadEntry(BatchData, EntryTables(BatchData)[i], Schema[kind])]
    BY Zenon DEF Entries
  <2> QED BY <1>3, <1>4, <1>5, <1>6, <2>1, Zenon
<1>8. Entries = E
  <2>1. Entries = [i \in 1..N |-> E[i]]
    BY <1>6, <1>7, Zenon
  <2> QED BY <1>3, <1>5, <2>1, Zenon
<1> QED BY <1>1, <1>4, <1>8, Zenon DEF ReadsBack

LEMMA InvAligned == IInv => Aligned
<1> SUFFICES ASSUME IInv, Encoded PROVE Aligned
  BY DEF Aligned
<1>1. PICK E, layout : E = AllParams(kind, chunk) /\ layout = EntryTable[kind]
  OBVIOUS
<1>2. kind \in Kinds /\ chunk \in Chunks[kind]
  BY DEF IInv, Encoded
<1>3. Schema[kind] = layout.fields
  BY <1>1, <1>2, ChunkFits
<1>4. /\ DataHolds(data_buf, layout, E)
      /\ Root(batch_buf) % 4 = 0
      /\ \A id \in {0, 4} : \A pos \in FieldAt(batch_buf, Root(batch_buf), id) :
           Follow(batch_buf, pos) % 4 = 0
  BY <1>1, BatchHolds
<1>5. Root(data_buf) % 4 = 0
  <2>1. Root(data_buf) = 12
    BY <1>4 DEF DataHolds
  <2>2. 12 % 4 = 0
    OBVIOUS
  <2> QED BY <2>1, <2>2
<1>6. ASSUME NEW table \in ToSet(EntryTables(data_buf))
      PROVE  EntryOnFours(data_buf, table, Schema[kind])
  <2>1. PICK t, N : N = Len(E) /\ t = [i \in 1..N |-> Follow(data_buf, 20 + 4 * i)] /\ t = EntryTables(data_buf)
    BY <1>4 DEF DataHolds
  <2>2. PICK i \in 1..N : table = Follow(data_buf, 20 + 4 * i)
    BY <2>1 DEF ToSet
  <2>3. EntryOnFours(data_buf, Follow(data_buf, 20 + 4 * i), layout.fields)
    BY <1>4, <2>1 DEF DataHolds
  <2> QED BY <1>3, <2>2, <2>3
<1>7. \A pos \in FieldAt(data_buf, Root(data_buf), 0) : TablesOnFours(data_buf, pos)
  BY <1>4 DEF DataHolds
<1> QED BY <1>4, <1>5, <1>6, <1>7 DEF Aligned

LEMMA InvAgrees == IInv => PreEncodedAgrees
<1> SUFFICES ASSUME IInv, Encoded PROVE PreEncodedAgrees
  BY DEF PreEncodedAgrees
<1>1. PICK E, layout : E = AllParams(kind, chunk) /\ layout = EntryTable[kind]
  OBVIOUS
<1>2. kind \in Kinds /\ chunk \in Chunks[kind]
  BY DEF IInv, Encoded
<1>3. Len(E) \in Nat /\ \A n \in 1..Len(E) : Fits(E[n], layout) /\ HasValues(layout, E[n])
  BY <1>1, <1>2, ChunkFits
<1>4. PICK places : Laid(layout, places)
  BY <1>1, <1>2, ChunkFits
<1>5. data_buf = DataInto(<<>>, layout, E)
  BY <1>1 DEF IInv
<1>6. Len(E) = Len(chunk)
  BY <1>1, <1>2, ParamsOfEach
<1>7. PICK encoded : encoded = [i \in 1..Len(E) |-> EntryAlone(layout, E[i])]
  OBVIOUS
<1>8. DataInto(<<>>, layout, E) = DataOf(encoded)
  BY <1>3, <1>4, <1>7, DataAgrees
<1> QED BY <1>1, <1>5, <1>6, <1>7, <1>8 DEF PreEncodedAgrees

(* Theorems *)

\* The buffers hold bytes, and a batch is its envelope of 72 bytes and its
\* data: clearing the buffers leaves nothing of the batch before it.
THEOREM TypesHold == Spec => []TypeOK
BY InvInit, InvNext, InvTypes, PTL DEF Spec

\* A reader that knows the documented field ids finds the key, the kind, the
\* version, and every entry of the chunk with each of its fields, whatever was
\* encoded before in the same buffers.
THEOREM BatchesReadBack == Spec => []ReadsBack
BY InvInit, InvNext, InvReads, PTL DEF Spec

\* Every table, vector and string that offsets lead a reader to starts at a
\* multiple of four: the key and the data of the batch, the root of the data,
\* its entries, their texts, labels and histograms, and what is in those.
THEOREM BatchesAligned == Spec => []Aligned
BY InvInit, InvNext, InvAligned, PTL DEF Spec

\* Encoding the entries of a chunk one by one and collecting them gives the
\* bytes that encoding them in place gives, whatever they are.
THEOREM CollectingIsEncoding == Spec => []PreEncodedAgrees
BY InvInit, InvNext, InvAgrees, PTL DEF Spec
==============================================================================
