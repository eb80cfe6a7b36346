--------------------------- MODULE InductionLemmas ---------------------------
(***************************************************************************)
(* Induction over the natural numbers for provers that cannot instantiate  *)
(* a predicate: what is to hold of every number is given as a set of       *)
(* numbers.  And functions defined by primitive recursion exist.           *)
(***************************************************************************)
EXTENDS Integers, Sequences, SequenceTheorems, WellFoundedInduction, TLAPS

Less == OpToRel(<, Nat)

LEMMA LessIsWellFounded == IsWellFoundedOn(Less, Nat)
BY NatLessThanWellFounded DEF Less

LEMMA LessIsLess == \A n, m \in Nat : <<n, m>> \in Less <=> n < m
BY DEF Less, OpToRel

LEMMA Minimal ==
    ASSUME NEW R, IsWellFoundedOn(R, Nat), NEW T, T \subseteq Nat, T # {}
    PROVE  \E m \in T : \A n \in T : ~(<<n, m>> \in R)
BY WFMin

LEMMA LeastBy ==
    ASSUME NEW R, IsWellFoundedOn(R, Nat), \A n, m \in Nat : <<n, m>> \in R <=> n < m,
           NEW T, T \subseteq Nat, T # {}
    PROVE  \E m \in T : \A n \in T : m <= n
<1>1. \E m \in T : \A n \in T : ~(<<n, m>> \in R)
  BY Minimal
<1>2. ASSUME NEW m \in T, \A n \in T : ~(<<n, m>> \in R), NEW n \in T PROVE m <= n
  <2>1. m \in Nat /\ n \in Nat /\ ~(n < m)
    BY <1>2
  <2> QED BY <2>1
<1> QED BY <1>1, <1>2

\* A set of natural numbers that is not empty has a least element.
LEMMA Least ==
    ASSUME NEW T, T \subseteq Nat, T # {}
    PROVE  \E m \in T : \A n \in T : m <= n
BY LeastBy, LessIsWellFounded, LessIsLess

\* A set with zero and the successor of each of its numbers has all numbers.
LEMMA Induction ==
    ASSUME NEW S, 0 \in S, \A n \in Nat : n \in S => n + 1 \in S
    PROVE  Nat \subseteq S
<1> SUFFICES ASSUME Nat \ S # {} PROVE FALSE
  OBVIOUS
<1>1. PICK m \in Nat \ S : \A n \in Nat \ S : m <= n
  BY Least
<1>2. m - 1 \in Nat /\ m - 1 \in S /\ m - 1 + 1 = m
  BY <1>1
<1> QED BY <1>1, <1>2

\* The same up to a bound.
LEMMA InductionTo ==
    ASSUME NEW S, NEW m \in Nat, 0 \in S, \A n \in 0..(m - 1) : n \in S => n + 1 \in S
    PROVE  0..m \subseteq S
<1> DEFINE T == {n \in Nat : n <= m => n \in S}
<1>1. 0 \in T
  OBVIOUS
<1>2. ASSUME NEW n \in Nat, n \in T PROVE n + 1 \in T
  BY <1>2
<1>3. Nat \subseteq T
  <2> HIDE DEF T
  <2> QED BY <1>1, <1>2, Induction
<1> QED BY <1>3

\* f is the function that begins with z and goes on by step.
Steps(S) == [Nat \X S -> S]
Recursive(f, S, z, step) ==
    f \in [Nat -> S] /\ f[0] = z /\ \A n \in Nat : f[n + 1] = step[<<n, f[n]>>]

\* There is such a function.
LEMMA PrimitiveRecursion ==
    ASSUME NEW S, NEW z \in S, NEW step \in Steps(S)
    PROVE  \E f : Recursive(f, S, z, step)
<1> USE DEF Steps
<1> DEFINE Good(h, n) == h \in [0..n -> S] /\ h[0] = z /\ \A i \in 0..(n-1) : h[i + 1] = step[<<i, h[i]>>]
           D == {n \in Nat : \E h : Good(h, n)}
<1>1. Nat \subseteq D
  <2>1. 0 \in D
    <3>1. Good([i \in 0..0 |-> z], 0)
      OBVIOUS
    <3> QED BY <3>1
  <2>2. ASSUME NEW n \in Nat, n \in D PROVE n + 1 \in D
    <3>1. PICK h : Good(h, n)
      BY <2>2
    <3> DEFINE k == [i \in 0..(n + 1) |-> IF i = n + 1 THEN step[<<n, h[n]>>] ELSE h[i]]
    <3>2. h[n] \in S /\ step[<<n, h[n]>>] \in S
      BY <3>1
    <3>3. k \in [0..(n+1) -> S]
      BY <3>1, <3>2
    <3>4. ASSUME NEW i \in 0..((n + 1) - 1) PROVE k[i + 1] = step[<<i, k[i]>>]
      <4>1. CASE i = n
        <5>1. k[n + 1] = step[<<n, h[n]>>] /\ k[n] = h[n]
          OBVIOUS
        <5> QED BY <4>1, <5>1
      <4>2. CASE i # n
        <5>1. i \in 0..(n - 1) /\ k[i + 1] = h[i + 1] /\ k[i] = h[i]
          BY <4>2
        <5> QED BY <3>1, <5>1
      <4> QED BY <4>1, <4>2
    <3>5. Good(k, n + 1)
      <4>1. k[0] = z
        BY <3>1
      <4> HIDE DEF k
      <4> QED BY <3>3, <3>4, <4>1
    <3> HIDE DEF k, Good
    <3> QED BY <3>5
  <2> HIDE DEF D
  <2> QED BY <2>1, <2>2, Induction
<1>2. ASSUME NEW h, NEW k, NEW n \in Nat, NEW m \in Nat, Good(h, n), Good(k, m), n <= m
      PROVE  \A i \in 0..n : h[i] = k[i]
  <2> DEFINE E == {i \in Nat : i <= n => h[i] = k[i]}
  <2>1. 0 \in E
    BY <1>2
  <2>2. ASSUME NEW i \in Nat, i \in E PROVE i + 1 \in E
    <3> SUFFICES ASSUME i + 1 <= n PROVE h[i + 1] = k[i + 1]
      OBVIOUS
    <3>1. i \in 0..(n - 1) /\ i \in 0..(m - 1) /\ i <= n
      BY <1>2
    <3> QED BY <1>2, <2>2, <3>1
  <2>3. Nat \subseteq E
    <3> HIDE DEF E
    <3> QED BY <2>1, <2>2, Induction
  <2> QED BY <2>3
<1> DEFINE at == [n \in Nat |-> CHOOSE h : Good(h, n)]
           f == [n \in Nat |-> at[n][n]]
<1>3. \A n \in Nat : Good(at[n], n)
  <2> SUFFICES ASSUME NEW n \in Nat PROVE Good(at[n], n)
    OBVIOUS
  <2>1. \E h : Good(h, n)
    BY <1>1
  <2> QED BY <2>1
<1> HIDE DEF at
<1>4. f \in [Nat -> S] /\ f[0] = z
  BY <1>3
<1>5. ASSUME NEW n \in Nat PROVE f[n + 1] = step[<<n, f[n]>>]
  <2>1. Good(at[n], n) /\ Good(at[n + 1], n + 1) /\ n + 1 \in Nat /\ n <= n + 1 /\ n \in 0..n
    BY <1>3
  <2>2. at[n + 1][n] = at[n][n]
    <3> HIDE DEF Good
    <3> QED BY <1>2, <2>1
  <2>3. n \in 0..(n + 1 - 1)
    OBVIOUS
  <2> QED BY <2>1, <2>2, <2>3
<1> QED BY <1>4, <1>5 DEF Recursive

\* The same for a function that stops at m, as one that goes over a sequence.
RecursiveTo(f, z, m, step) == f = [n \in 0..m |-> IF n = 0 THEN z ELSE step[<<n, f[n - 1]>>]]

LEMMA RecursionTo ==
    ASSUME NEW S, NEW z \in S, NEW m \in Nat, NEW step \in [(1..m) \X S -> S]
    PROVE  \E f \in [0..m -> S] : RecursiveTo(f, z, m, step)
<1> DEFINE on == [x \in Nat \X S |-> IF x[1] + 1 \in 1..m THEN step[<<x[1] + 1, x[2]>>] ELSE x[2]]
<1>1. on \in Steps(S)
  <2>1. ASSUME NEW x \in Nat \X S
        PROVE  (IF x[1] + 1 \in 1..m THEN step[<<x[1] + 1, x[2]>>] ELSE x[2]) \in S
    <3>1. x[2] \in S
      OBVIOUS
    <3>2. ASSUME x[1] + 1 \in 1..m PROVE step[<<x[1] + 1, x[2]>>] \in S
      <4>1. <<x[1] + 1, x[2]>> \in (1..m) \X S
        BY <3>1, <3>2
      <4> QED BY <4>1
    <3> QED BY <3>1, <3>2
  <2> QED BY <2>1 DEF Steps
<1>2. PICK g : Recursive(g, S, z, on)
  <2> HIDE DEF on
  <2> QED BY <1>1, PrimitiveRecursion
<1>3. g \in [Nat -> S] /\ g[0] = z /\ \A n \in Nat : g[n + 1] = on[<<n, g[n]>>]
  BY <1>2 DEF Recursive
<1>4. ASSUME NEW n \in 1..m PROVE g[n] = step[<<n, g[n - 1]>>]
  <2>1. n - 1 \in Nat /\ (n - 1) + 1 = n /\ g[n - 1] \in S
    BY <1>3
  <2>2. PICK y : y = <<n - 1, g[n - 1]>>
    OBVIOUS
  <2>3. y \in Nat \X S /\ y[1] = n - 1 /\ y[2] = g[n - 1]
    BY <2>1, <2>2
  <2>4. g[n] = on[y]
    <3> HIDE DEF on
    <3>1. g[(n - 1) + 1] = on[<<n - 1, g[n - 1]>>]
      BY <1>3, <2>1
    <3> QED BY <2>1, <2>2, <3>1
  <2>5. on[y] = step[<<y[1] + 1, y[2]>>]
    BY <2>1, <2>3
  <2> QED BY <2>1, <2>3, <2>4, <2>5
<1> DEFINE f == [n \in 0..m |-> g[n]]
<1>5. f \in [0..m -> S]
  BY <1>3
<1>6. ASSUME NEW n \in 0..m PROVE g[n] = IF n = 0 THEN z ELSE step[<<n, f[n - 1]>>]
  <2>1. CASE n = 0
    BY <1>3, <2>1
  <2>2. CASE n # 0
    <3>1. n \in 1..m /\ n - 1 \in 0..m
      BY <2>2
    <3>2. f[n - 1] = g[n - 1]
      BY <3>1
    <3> QED BY <1>4, <2>2, <3>1, <3>2
  <2> QED BY <2>1, <2>2
<1>7. RecursiveTo(f, z, m, step)
  BY <1>6, Zenon DEF RecursiveTo
<1> QED BY <1>5, <1>7

LEMMA IntegerRecursion ==
    ASSUME NEW z \in Int, NEW step \in [Nat \X Int -> Int]
    PROVE  \E f \in [Nat -> Int] : f[0] = z /\ \A n \in Nat : f[n + 1] = step[<<n, f[n]>>]
<1>1. PICK S : S = Int
  OBVIOUS
<1>2. z \in S /\ step \in Steps(S)
  BY <1>1 DEF Steps
<1>3. PICK f : Recursive(f, S, z, step)
  BY <1>2, PrimitiveRecursion
<1> QED BY <1>1, <1>3 DEF Recursive

(* FlattenSeq of SequencesExt, which brings too many names to be extended here *)

Flat(ss) ==
    IF Len(ss) = 0 THEN ss ELSE
    LET flatten[i \in 1..Len(ss)] == IF i = 1 THEN ss[i] ELSE flatten[i - 1] \o ss[i]
    IN  flatten[Len(ss)]

\* The concatenation goes from one sequence to the next.
LEMMA Flattened ==
    ASSUME NEW S, NEW ss \in Seq(Seq(S)), ss # <<>>
    PROVE  \E f \in [1..Len(ss) -> Seq(S)] :
             /\ f[1] = ss[1] /\ \A i \in 2..Len(ss) : f[i] = f[i - 1] \o ss[i]
             /\ Flat(ss) = f[Len(ss)]
<1> DEFINE n == Len(ss)
<1>1. n \in Nat /\ n >= 1 /\ \A i \in 1..n : ss[i] \in Seq(S)
  BY EmptySeq, LenProperties
<1> DEFINE step == [x \in Nat \X Seq(S) |-> IF x[1] + 2 \in 1..n THEN x[2] \o ss[x[1] + 2] ELSE x[2]]
<1>2. step \in Steps(Seq(S))
  <2> SUFFICES ASSUME NEW i \in Nat, NEW s \in Seq(S), i + 2 \in 1..n PROVE s \o ss[i + 2] \in Seq(S)
    BY DEF Steps
  <2> QED BY <1>1, ConcatProperties
<1>3. PICK g : Recursive(g, Seq(S), ss[1], step)
  <2>1. ss[1] \in Seq(S)
    BY <1>1
  <2> HIDE DEF step, n
  <2> QED BY <1>2, <2>1, PrimitiveRecursion
<1> DEFINE f == [i \in 1..n |-> g[i - 1]]
<1>4. f \in [1..n -> Seq(S)] /\ f[1] = ss[1]
  <2>1. g \in [Nat -> Seq(S)] /\ g[0] = ss[1]
    BY <1>3 DEF Recursive
  <2>2. 1 \in 1..n /\ 1 - 1 = 0 /\ \A i \in 1..n : i - 1 \in Nat
    BY <1>1
  <2>3. f[1] = g[1 - 1]
    BY <2>2, Zenon
  <2> QED BY <2>1, <2>2, <2>3
<1>5. ASSUME NEW i \in 2..n PROVE f[i] = f[i - 1] \o ss[i]
  <2>1. i - 2 \in Nat /\ (i - 2) + 1 = i - 1 /\ (i - 2) + 2 = i /\ i - 1 \in 1..n /\ i \in 1..n /\ (i - 1) - 1 = i - 2
    OBVIOUS
  <2>2. g[i - 2] \in Seq(S)
    BY <1>3, <2>1 DEF Recursive
  <2>3. g[i - 1] = step[<<i - 2, g[i - 2]>>]
    <3> HIDE DEF step
    <3> QED BY <1>3, <2>1 DEF Recursive
  <2>4. step[<<i - 2, g[i - 2]>>] = g[i - 2] \o ss[i]
    BY <2>1, <2>2
  <2>5. f[i] = g[i - 1] /\ f[i - 1] = g[i - 2]
    BY <2>1
  <2> QED BY <2>3, <2>4, <2>5
<1>6. f = [i \in 1..n |-> IF i = 1 THEN ss[i] ELSE f[i - 1] \o ss[i]]
  <2> HIDE DEF f
  <2>1. \A i \in 1..n : f[i] = IF i = 1 THEN ss[i] ELSE f[i - 1] \o ss[i]
    <3>1. \A i \in 1..n : i = 1 \/ (i # 1 /\ i \in 2..n)
      BY <1>1
    <3> QED BY <1>4, <1>5, <3>1, Zenon
  <2> QED BY <1>4, <2>1
<1> DEFINE flatten[i \in 1..n] == IF i = 1 THEN ss[i] ELSE flatten[i - 1] \o ss[i]
<1>7. Flat(ss) = flatten[n]
  <2>1. Len(ss) # 0
    BY <1>1
  <2> QED BY <2>1, Zenon DEF Flat, flatten
<1>8. \E h : h = [i \in 1..n |-> IF i = 1 THEN ss[i] ELSE h[i - 1] \o ss[i]]
  <2> HIDE DEF f
  <2> QED BY <1>6
<1>9. flatten = [i \in 1..n |-> IF i = 1 THEN ss[i] ELSE flatten[i - 1] \o ss[i]]
  BY <1>8, Zenon DEF flatten
<1> HIDE DEF flatten
<1>10. /\ flatten[1] = ss[1]
       /\ \A i \in 2..n : flatten[i] = flatten[i - 1] \o ss[i]
  <2>1. \A i \in 1..n : flatten[i] = IF i = 1 THEN ss[i] ELSE flatten[i - 1] \o ss[i]
    BY <1>9, Zenon
  <2>2. 1 \in 1..n /\ \A i \in 2..n : i \in 1..n /\ i # 1
    BY <1>1
  <2> QED BY <2>1, <2>2, Zenon
<1>11. flatten \in [1..n -> Seq(S)]
  <2>1. \A i \in 1..n : flatten[i] = f[i]
    <3> HIDE DEF f
    <3> DEFINE E == {i \in Nat : i + 1 \in 1..n => flatten[i + 1] = f[i + 1]}
    <3>1. 0 \in E
      BY <1>1, <1>4, <1>10
    <3>2. ASSUME NEW i \in Nat, i \in E PROVE i + 1 \in E
      <4> SUFFICES ASSUME i + 1 + 1 \in 1..n PROVE flatten[i + 1 + 1] = f[i + 1 + 1]
        OBVIOUS
      <4>1. i + 1 \in 1..n /\ i + 1 + 1 \in 2..n /\ i + 1 + 1 - 1 = i + 1
        BY <1>1
      <4>2. PICK j : j = i + 1 + 1
        OBVIOUS
      <4>3. j \in 2..n /\ j - 1 = i + 1
        BY <4>1, <4>2
      <4>4. flatten[j - 1] = f[j - 1]
        BY <3>2, <4>1, <4>3
      <4>5. flatten[j] = f[j]
        BY <1>5, <1>10, <4>3, <4>4
      <4> QED BY <4>2, <4>5
    <3>3. Nat \subseteq E
      <4> HIDE DEF E
      <4> QED BY <3>1, <3>2, Induction
    <3> SUFFICES ASSUME NEW i \in 1..n PROVE flatten[i] = f[i]
      OBVIOUS
    <3>4. i - 1 \in Nat /\ i - 1 + 1 = i
      OBVIOUS
    <3> QED BY <3>3, <3>4
  <2>2. flatten = [i \in 1..n |-> flatten[i]]
    BY <1>9
  <2>3. \A i \in 1..n : f[i] \in Seq(S)
    <3> HIDE DEF f
    <3> QED BY <1>4
  <2> HIDE DEF f
  <2> QED BY <2>1, <2>2, <2>3
<1> QED BY <1>7, <1>10, <1>11

\* What is kept by concatenation holds of the whole when it holds of each part.
LEMMA FlattenClosed ==
    ASSUME NEW S, NEW P, P \subseteq Seq(S), <<>> \in P, \A s, t \in P : s \o t \in P,
           NEW ss \in Seq(P)
    PROVE  Flat(ss) \in P
<1>1. CASE ss = <<>>
  BY <1>1 DEF Flat
<1>2. CASE ss # <<>>
  <2>1. ss \in Seq(Seq(S))
    BY SeqMonotonic
  <2>2. PICK f \in [1..Len(ss) -> Seq(S)] :
          /\ f[1] = ss[1] /\ \A i \in 2..Len(ss) : f[i] = f[i - 1] \o ss[i]
          /\ Flat(ss) = f[Len(ss)]
    BY <1>2, <2>1, Flattened
  <2>3. Len(ss) \in Nat /\ Len(ss) >= 1 /\ \A i \in 1..Len(ss) : ss[i] \in P
    BY <1>2, EmptySeq, LenProperties
  <2> DEFINE E == {i \in Nat : i + 1 \in 1..Len(ss) => f[i + 1] \in P}
  <2>4. 0 \in E
    BY <2>2, <2>3
  <2>5. ASSUME NEW i \in Nat, i \in E PROVE i + 1 \in E
    <3> SUFFICES ASSUME i + 1 + 1 \in 1..Len(ss) PROVE f[i + 1 + 1] \in P
      OBVIOUS
    <3>1. PICK j : j = i + 1 + 1
      OBVIOUS
    <3>2. j \in 2..Len(ss) /\ j \in 1..Len(ss) /\ j - 1 = i + 1 /\ i + 1 \in 1..Len(ss)
      BY <2>3, <3>1
    <3>3. f[j - 1] \in P
      BY <2>5, <3>2
    <3>4. f[j] = f[j - 1] \o ss[j] /\ ss[j] \in P
      BY <2>2, <2>3, <3>2
    <3> QED BY <3>1, <3>3, <3>4
  <2>6. Nat \subseteq E
    <3> HIDE DEF E
    <3> QED BY <2>4, <2>5, Induction
  <2>7. Len(ss) - 1 \in E /\ (Len(ss) - 1) + 1 = Len(ss)
    <3>1. Len(ss) - 1 \in Nat
      BY <2>3
    <3> HIDE DEF E
    <3> QED BY <2>3, <2>6, <3>1
  <2>8. f[(Len(ss) - 1) + 1] \in P
    BY <2>3, <2>7
  <2> QED BY <2>2, <2>7, <2>8
<1> QED BY <1>1, <1>2

\* More at the end of the last sequence is more at the end of the whole.
Extends(tt, ss, x, S) ==
    /\ ss \in Seq(Seq(S)) /\ ss # <<>> /\ x \in Seq(S)
    /\ tt \in Seq(Seq(S)) /\ Len(tt) = Len(ss)
    /\ \A i \in 1..(Len(ss) - 1) : tt[i] = ss[i]
    /\ tt[Len(ss)] = ss[Len(ss)] \o x

LEMMA FlattenExtended ==
    ASSUME NEW S, NEW ss, NEW tt, NEW x, Extends(tt, ss, x, S)
    PROVE  Flat(tt) = Flat(ss) \o x
<1>0. \A a, b, c \in Seq(S) : (a \o b) \o c = a \o (b \o c)
  BY ConcatAssociative
<1>a. x \in Seq(S) /\ ss \in Seq(Seq(S)) /\ ss # <<>> /\ tt \in Seq(Seq(S))
  BY DEF Extends
<1>1. PICK n \in Nat :
        /\ n = Len(ss) /\ n >= 1 /\ Len(tt) = n
        /\ (\A i \in 1..(n - 1) : tt[i] = ss[i]) /\ tt[n] = ss[n] \o x
  <2>1. Len(ss) \in Nat
    BY <1>a, LenProperties
  <2>2. Len(ss) # 0
    BY <1>a, EmptySeq
  <2>3. Len(ss) >= 1
    BY <2>1, <2>2
  <2>4. /\ Len(tt) = Len(ss) /\ tt[Len(ss)] = ss[Len(ss)] \o x
        /\ \A i \in 1..(Len(ss) - 1) : tt[i] = ss[i]
    BY Zenon DEF Extends
  <2>5. PICK n \in Nat : n = Len(ss)
    BY <2>1
  <2> QED BY <2>3, <2>4, <2>5, Zenon
<1>2. PICK f \in [1..n -> Seq(S)] :
        /\ f[1] = ss[1] /\ \A i \in 2..n : f[i] = f[i - 1] \o ss[i]
        /\ Flat(ss) = f[n]
  <2>1. PICK f \in [1..Len(ss) -> Seq(S)] :
          /\ f[1] = ss[1] /\ \A i \in 2..Len(ss) : f[i] = f[i - 1] \o ss[i]
          /\ Flat(ss) = f[Len(ss)]
    BY <1>a, Flattened
  <2> QED BY <1>1, <2>1
<1>3. tt # <<>>
  BY <1>1, <1>a, EmptySeq
<1>4. PICK g \in [1..n -> Seq(S)] :
        /\ g[1] = tt[1] /\ \A i \in 2..n : g[i] = g[i - 1] \o tt[i]
        /\ Flat(tt) = g[n]
  <2>1. Len(tt) = n
    BY <1>1
  <2>2. PICK g \in [1..Len(tt) -> Seq(S)] :
          /\ g[1] = tt[1] /\ \A i \in 2..Len(tt) : g[i] = g[i - 1] \o tt[i]
          /\ Flat(tt) = g[Len(tt)]
    BY <1>3, <1>a, Flattened
  <2> QED BY <2>1, <2>2
<1>5. \A i \in 1..(n - 1) : g[i] = f[i]
  <2> DEFINE E == {i \in Nat : i + 1 \in 1..(n - 1) => g[i + 1] = f[i + 1]}
  <2>1. 0 \in E
    BY <1>1, <1>2, <1>4
  <2>2. ASSUME NEW i \in Nat, i \in E PROVE i + 1 \in E
    <3> SUFFICES ASSUME i + 1 + 1 \in 1..(n - 1) PROVE g[i + 1 + 1] = f[i + 1 + 1]
      OBVIOUS
    <3>1. PICK j : j = i + 1 + 1
      OBVIOUS
    <3>2. j \in 2..n /\ j \in 1..(n - 1) /\ j - 1 = i + 1 /\ i + 1 \in 1..(n - 1)
      BY <1>1, <3>1
    <3>3. g[j - 1] = f[j - 1]
      BY <2>2, <3>2
    <3>4. g[j] = f[j]
      BY <1>1, <1>2, <1>4, <3>2, <3>3
    <3> QED BY <3>1, <3>4
  <2>3. Nat \subseteq E
    <3> HIDE DEF E
    <3> QED BY <2>1, <2>2, Induction
  <2> SUFFICES ASSUME NEW i \in 1..(n - 1) PROVE g[i] = f[i]
    OBVIOUS
  <2>4. i - 1 \in Nat /\ i - 1 + 1 = i
    BY <1>1
  <2> QED BY <2>3, <2>4
<1>6. CASE n = 1
  BY <1>1, <1>2, <1>4, <1>6
<1>7. CASE n # 1
  <2>1. n \in 2..n /\ n - 1 \in 1..(n - 1) /\ n - 1 \in 1..n /\ n \in 1..n
    BY <1>1, <1>7
  <2>2. g[n] = f[n - 1] \o (ss[n] \o x) /\ f[n] = f[n - 1] \o ss[n]
    BY <1>1, <1>2, <1>4, <1>5, <2>1
  <2>3. f[n - 1] \in Seq(S) /\ ss[n] \in Seq(S)
    BY <1>1, <1>a, <1>2, <2>1, LenProperties
  <2>4. x \in Seq(S)
    BY <1>a
  <2>5. PICK a \in Seq(S), b \in Seq(S) : a = f[n - 1] /\ b = ss[n]
    BY <2>3
  <2>6. f[n] = a \o b /\ g[n] = a \o (b \o x)
    BY <2>2, <2>5
  <2>7. g[n] = f[n] \o x
    <3>1. (a \o b) \o x = a \o (b \o x)
      BY <1>0, <2>4
    <3> QED BY <2>6, <3>1
  <2> QED BY <1>2, <1>4, <2>7
<1> QED BY <1>6, <1>7

\* One sequence more is as much more as it has.
LEMMA FlattenAppended ==
    ASSUME NEW S, NEW ss \in Seq(Seq(S)), NEW x \in Seq(S)
    PROVE  Flat(Append(ss, x)) = Flat(ss) \o x
<1> DEFINE tt == Append(ss, x)
<1>1. PICK n \in Nat : n = Len(ss)
  BY LenProperties
<1>2. /\ tt \in Seq(Seq(S)) /\ tt # <<>> /\ Len(tt) = n + 1
      /\ \A i \in 1..n : tt[i] = ss[i]
      /\ tt[n + 1] = x
  BY <1>1, AppendProperties
<1> HIDE DEF tt
<1>3. PICK g \in [1..(n + 1) -> Seq(S)] :
        /\ g[1] = tt[1] /\ \A i \in 2..(n + 1) : g[i] = g[i - 1] \o tt[i]
        /\ Flat(tt) = g[n + 1]
  <2>1. PICK g \in [1..Len(tt) -> Seq(S)] :
          /\ g[1] = tt[1] /\ \A i \in 2..Len(tt) : g[i] = g[i - 1] \o tt[i]
          /\ Flat(tt) = g[Len(tt)]
    BY <1>2, Flattened
  <2> QED BY <1>2, <2>1
<1>4. CASE n = 0
  <2>1. ss = <<>> /\ Flat(ss) = <<>>
    BY <1>1, <1>4, EmptySeq DEF Flat
  <2>2. Flat(tt) = x
    BY <1>2, <1>3, <1>4
  <2> QED BY <2>1, <2>2, ConcatEmptySeq DEF tt
<1>5. CASE n # 0
  <2>1. ss # <<>>
    BY <1>1, <1>5, EmptySeq
  <2>2. PICK f \in [1..n -> Seq(S)] :
          /\ f[1] = ss[1] /\ \A i \in 2..n : f[i] = f[i - 1] \o ss[i]
          /\ Flat(ss) = f[n]
    BY <1>1, <2>1, Flattened
  <2>3. \A i \in 1..n : g[i] = f[i]
    <3> DEFINE E == {i \in Nat : i + 1 \in 1..n => g[i + 1] = f[i + 1]}
    <3>1. 0 \in E
      BY <1>2, <1>3, <2>2
    <3>2. ASSUME NEW i \in Nat, i \in E PROVE i + 1 \in E
      <4> SUFFICES ASSUME i + 1 + 1 \in 1..n PROVE g[i + 1 + 1] = f[i + 1 + 1]
        OBVIOUS
      <4>1. PICK j : j = i + 1 + 1
        OBVIOUS
      <4>2. j \in 2..n /\ j \in 2..(n + 1) /\ j \in 1..n /\ j - 1 = i + 1 /\ i + 1 \in 1..n
        BY <4>1
      <4>3. g[j - 1] = f[j - 1]
        BY <3>2, <4>2
      <4>4. g[j] = f[j]
        BY <1>2, <1>3, <2>2, <4>2, <4>3
      <4> QED BY <4>1, <4>4
    <3>3. Nat \subseteq E
      <4> HIDE DEF E
      <4> QED BY <3>1, <3>2, Induction
    <3> SUFFICES ASSUME NEW i \in 1..n PROVE g[i] = f[i]
      OBVIOUS
    <3>4. i - 1 \in Nat /\ i - 1 + 1 = i
      OBVIOUS
    <3> QED BY <3>3, <3>4
  <2>4. n + 1 \in 2..(n + 1) /\ (n + 1) - 1 = n /\ n \in 1..n
    BY <1>5
  <2>5. g[n + 1] = g[n] \o x
    BY <1>2, <1>3, <2>4
  <2> QED BY <1>3, <2>2, <2>3, <2>4, <2>5 DEF tt
<1> QED BY <1>4, <1>5
=============================================================================
