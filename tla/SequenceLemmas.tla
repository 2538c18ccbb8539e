--------------------------- MODULE SequenceLemmas ---------------------------
(***************************************************************************)
(* Facts about sets of natural numbers and about the operators Max and     *)
(* FlattenSeq of the community modules that several proofs rest on.        *)
(*                                                                         *)
(* SetInduction is induction over positions: a proof defines the set of    *)
(* the numbers a statement holds for, a CONSTANT set, and shows that 0 and *)
(* with every number the next one is in it.                                *)
(***************************************************************************)
EXTENDS SequencesExt, Integers, SequenceTheorems, FiniteSetTheorems, WellFoundedInduction, TLAPS

\* A set of natural numbers has a least member.
LEMMA LeastNatural ==
  ASSUME NEW S, S \subseteq Nat, S # {}
  PROVE  \E x \in S : \A y \in S : x <= y
<1>1. PICK x \in S : \A y \in S : ~(<<y, x>> \in OpToRel(<, Nat))
  BY NatLessThanWellFounded, WFMin
<1>2. \A y \in S : ~(y < x)
  BY <1>1 DEF OpToRel
<1> QED
  BY <1>2

\* A set of natural numbers that holds 0 and with every member the next one holds them
\* all: else a least number were missing.
LEMMA SetInduction ==
  ASSUME NEW S \in SUBSET Nat, 0 \in S, \A n \in S : n + 1 \in S
  PROVE  S = Nat
<1> DEFINE missing == Nat \ S
<1>1. CASE missing # {}
  <2>1. PICK n \in missing : \A m \in missing : n <= m
    BY <1>1, LeastNatural
  <2>2. n - 1 \in S
    BY <2>1
  <2> QED
    BY <2>1, <2>2
<1> QED
  BY <1>1

\* A finite set of numbers has a greatest member.
LEMMA MaxOfSet ==
  ASSUME NEW n \in Nat, NEW S \in SUBSET (1 .. n), S # {}
  PROVE  Max(S) \in S /\ \A y \in S : Max(S) >= y
<1> DEFINE T == {n - x : x \in S}
<1>1. T \subseteq Nat /\ T # {}
  <2>1. \A x \in S : n - x \in Nat
    OBVIOUS
  <2> QED
    BY <2>1, Zenon
<1>2. PICK t \in T : \A u \in T : t <= u
  BY <1>1, LeastNatural
<1>3. PICK x \in S : t = n - x
  BY <1>2
<1>4. \A y \in S : x >= y
  <2>1. \A y \in S : n - x <= n - y
    BY <1>2, <1>3
  <2> QED
    BY <2>1
<1> QED
  BY <1>4 DEF Max

-----------------------------------------------------------------------------
\* Joined sequences.

\* FlattenSeq appends one part after another.
LEMMA FlattenUnfolds ==
  ASSUME NEW parts, Len(parts) \in Nat, Len(parts) > 0
  PROVE  \E f : /\ FlattenSeq(parts) = f[Len(parts)]
                /\ f[1] = parts[1]
                /\ \A i \in 1 .. Len(parts) - 1 : f[i + 1] = f[i] \o parts[i + 1]
<1> DEFINE n == Len(parts)
           Step(g, i) == IF i = 1 THEN parts[i] ELSE g[i - 1] \o parts[i]
           Solved(m, g) == \A i \in 1 .. m : g[i] = Step(g, i)
           Done == {m \in Nat : m <= n => \E g : Solved(m, g)}
<1>1. 0 \in Done
  OBVIOUS
<1>2. ASSUME NEW m \in Done PROVE m + 1 \in Done
  <2>1. SUFFICES ASSUME m + 1 <= n PROVE \E g : Solved(m + 1, g)
    OBVIOUS
  <2>2. PICK g : Solved(m, g)
    <3>1. m \in Nat /\ m <= n
      BY <2>1
    <3> QED
      BY <3>1, Zenon
  <2> DEFINE h == [i \in 1 .. m + 1 |-> IF i = m + 1 THEN Step(g, i) ELSE g[i]]
  <2>3. ASSUME NEW i \in 1 .. m + 1 PROVE h[i] = Step(h, i)
    <3>1. h[i] = Step(g, i)
      BY <2>2
    <3>2. i # 1 => h[i - 1] = g[i - 1]
      OBVIOUS
    <3> QED
      BY <3>1, <3>2
  <2> QED
    BY <2>3
<1>3. n \in Done
  BY <1>1, <1>2, SetInduction
<1>4. PICK g : \A i \in 1 .. n : g[i] = Step(g, i)
  BY <1>3
<1> DEFINE h == [i \in 1 .. Len(parts) |-> g[i]]
<1>6. h = [i \in 1 .. Len(parts) |-> Step(h, i)]
  BY <1>4
<1> DEFINE flatten[i \in 1 .. Len(parts)] ==
             IF i = 1 THEN parts[i] ELSE flatten[i - 1] \o parts[i]
<1>7. flatten = [i \in 1 .. Len(parts) |-> Step(flatten, i)]
  BY <1>6, Zenon
<1>8. FlattenSeq(parts) = flatten[n]
  BY DEF FlattenSeq
<1> HIDE DEF flatten
<1>9. \A i \in 1 .. n : flatten[i] = Step(flatten, i)
  BY <1>7
<1>10. flatten[1] = parts[1]
  BY <1>9
<1>11. ASSUME NEW i \in 1 .. n, i # 1 PROVE flatten[i] = flatten[i - 1] \o parts[i]
  BY <1>9, <1>11, Zenon
<1>12. ASSUME NEW i \in 1 .. n - 1 PROVE flatten[i + 1] = flatten[i] \o parts[i + 1]
  <2> DEFINE j == i + 1
  <2>1. j \in 1 .. n /\ j # 1 /\ j - 1 = i
    OBVIOUS
  <2> HIDE DEF j
  <2>2. flatten[j] = flatten[j - 1] \o parts[j]
    BY <1>11, <2>1, Zenon
  <2>3. flatten[j] = flatten[i] \o parts[j]
    BY <2>1, <2>2
  <2> QED
    BY <2>3 DEF j
<1> QED
  BY <1>8, <1>10, <1>12

\* f[i] is what the first i parts make together.
Joins(parts, f, n) ==
  /\ f[0] = <<>>
  /\ \A i \in 0 .. n - 1 : f[i + 1] = f[i] \o parts[i + 1]

\* Joins of texts are texts.
LEMMA JoinsTyped ==
  ASSUME NEW T, NEW n \in Nat, NEW parts \in [1 .. n -> Seq(T)], NEW f, Joins(parts, f, n)
  PROVE  \A i \in 0 .. n : f[i] \in Seq(T)
<1> DEFINE Typed == {m \in Nat : m \in 0 .. n => f[m] \in Seq(T)}
<1>1. ASSUME NEW m \in Typed PROVE m + 1 \in Typed
  <2>1. SUFFICES ASSUME m + 1 <= n PROVE f[m + 1] \in Seq(T)
    OBVIOUS
  <2>2. m \in 0 .. n - 1 /\ m \in 0 .. n /\ m + 1 \in 1 .. n
    BY <2>1
  <2>3. f[m] \in Seq(T) /\ parts[m + 1] \in Seq(T)
    BY <2>2
  <2>4. f[m + 1] = f[m] \o parts[m + 1]
    BY <2>2 DEF Joins
  <2> QED
    BY <2>3, <2>4, ConcatProperties
<1>2. 0 \in Typed
  <2>1. f[0] = <<>> /\ <<>> \in Seq(T)
    BY DEF Joins
  <2>2. f[0] \in Seq(T)
    BY <2>1, Zenon
  <2> QED
    BY <2>2
<1>3. Typed \in SUBSET Nat
  OBVIOUS
<1>4. Typed = Nat
  <2> HIDE DEF Typed
  <2> QED
    BY <1>1, <1>2, <1>3, SetInduction
<1> QED
  BY <1>4

\* FlattenSeq is the last of the joins, also of no parts at all.
LEMMA FlattenJoins ==
  ASSUME NEW T, NEW n \in Nat, NEW parts \in [1 .. n -> Seq(T)]
  PROVE  \E f : Joins(parts, f, n) /\ FlattenSeq(parts) = f[n]
<1>1. Len(parts) = n
  OBVIOUS
<1>2. CASE n = 0
  <2> DEFINE f == [i \in 0 .. 0 |-> <<>>]
  <2>1. FlattenSeq(parts) = <<>>
    BY <1>1, <1>2 DEF FlattenSeq
  <2>2. Joins(parts, f, n) /\ f[n] = <<>>
    BY <1>2 DEF Joins
  <2> QED
    BY <2>1, <2>2
<1>3. CASE n > 0
  <2>1. PICK g : /\ FlattenSeq(parts) = g[Len(parts)]
                 /\ g[1] = parts[1]
                 /\ \A i \in 1 .. Len(parts) - 1 : g[i + 1] = g[i] \o parts[i + 1]
    BY <1>1, <1>3, FlattenUnfolds
  <2> DEFINE f == [i \in 0 .. n |-> IF i = 0 THEN <<>> ELSE g[i]]
  <2>2. f[n] = g[n] /\ f[0] = <<>>
    BY <1>3
  <2>3. ASSUME NEW i \in 0 .. n - 1 PROVE f[i + 1] = f[i] \o parts[i + 1]
    <3>1. f[i + 1] = g[i + 1]
      OBVIOUS
    <3>2. CASE i = 0
      <4>1. parts[1] \in Seq(T)
        BY <1>3
      <4>2. <<>> \o parts[1] = parts[1]
        BY <4>1, ConcatEmptySeq
      <4>3. f[i] = <<>> /\ i + 1 = 1
        BY <3>2
      <4> QED
        BY <2>1, <3>1, <4>2, <4>3
    <3>3. CASE i # 0
      <4>1. f[i] = g[i] /\ i \in 1 .. Len(parts) - 1
        BY <1>1, <3>3
      <4> QED
        BY <2>1, <3>1, <4>1
    <3> QED
      BY <3>2, <3>3
  <2>4. Joins(parts, f, n)
    <3> HIDE DEF f
    <3> QED
      BY <2>2, <2>3 DEF Joins
  <2> HIDE DEF f
  <2> QED
    BY <1>1, <2>1, <2>2, <2>4
<1> QED
  BY <1>2, <1>3

\* Every join is the one before it and its part.
LEMMA JoinsAt ==
  ASSUME NEW parts, NEW f, NEW n, Joins(parts, f, n), NEW i \in 0 .. n - 1
  PROVE  f[i + 1] = f[i] \o parts[i + 1]
BY DEF Joins

\* FlattenSeq begins with its first part.
LEMMA FlattenCons ==
  ASSUME NEW T, NEW n \in Nat, NEW parts \in [1 .. n -> Seq(T)],
         NEW all \in [1 .. n + 1 -> Seq(T)], \A i \in 1 .. n : all[i + 1] = parts[i]
  PROVE  FlattenSeq(all) = all[1] \o FlattenSeq(parts) /\ FlattenSeq(parts) \in Seq(T)
<1>8. \A u, y, z \in Seq(T) : (u \o y) \o z = u \o (y \o z)
  BY ConcatAssociative
<1> DEFINE x == all[1]
<1>9. x \in Seq(T)
  OBVIOUS
<1> HIDE DEF x
<1>1. PICK f : Joins(all, f, n + 1) /\ FlattenSeq(all) = f[n + 1]
  <2>1. n + 1 \in Nat
    OBVIOUS
  <2> QED
    BY <2>1, FlattenJoins, Zenon
<1>2. PICK g : Joins(parts, g, n) /\ FlattenSeq(parts) = g[n]
  BY FlattenJoins
<1>3. \A i \in 0 .. n : g[i] \in Seq(T)
  BY <1>2, JoinsTyped
<1>0. ASSUME NEW i \in 0 .. n PROVE f[i + 1] = f[i] \o all[i + 1]
  <2> DEFINE N == n + 1
  <2>1. i \in 0 .. N - 1
    OBVIOUS
  <2>2. Joins(all, f, N)
    BY <1>1
  <2> HIDE DEF N
  <2> QED
    BY <2>1, <2>2, JoinsAt, Zenon
<1> DEFINE Done == {m \in Nat : m <= n => f[m + 1] = x \o g[m]}
<1>4. 0 \in Done
  <2>1. f[0] = <<>> /\ g[0] = <<>>
    BY <1>1, <1>2, Zenon DEF Joins
  <2>2. 0 \in 0 .. n /\ 1 = 0 + 1
    OBVIOUS
  <2>3. f[1] = <<>> \o x
    <3>1. f[0 + 1] = f[0] \o all[0 + 1]
      BY <1>0, <2>2, Zenon
    <3> QED
      BY <2>1, <2>2, <3>1, Zenon DEF x
  <2>4. <<>> \o x = x /\ x \o <<>> = x
    BY <1>9, ConcatEmptySeq
  <2>5. f[0 + 1] = x \o g[0]
    BY <2>1, <2>2, <2>3, <2>4, Zenon
  <2> QED
    BY <2>5, Zenon
<1>5. ASSUME NEW m \in Done PROVE m + 1 \in Done
  <2>1. SUFFICES ASSUME m + 1 <= n PROVE f[m + 1 + 1] = x \o g[m + 1]
    OBVIOUS
  <2>2. m + 1 \in 0 .. n /\ m \in 0 .. n - 1 /\ m + 1 \in 1 .. n /\ m \in 0 .. n
        /\ m + 1 \in 0 .. n + 1 - 1
    BY <2>1
  <2>3. f[m + 1 + 1] = f[m + 1] \o parts[m + 1]
    <3>1. f[m + 1 + 1] = f[m + 1] \o all[m + 1 + 1]
      BY <1>0, <2>2, Zenon
    <3>2. all[m + 1 + 1] = parts[m + 1]
      BY <2>2, Zenon
    <3> QED
      BY <3>1, <3>2, Zenon
  <2>4. f[m + 1] = x \o g[m]
    BY <2>1
  <2>5. g[m + 1] = g[m] \o parts[m + 1]
    BY <1>2, <2>2, Zenon DEF Joins
  <2>6. g[m] \in Seq(T) /\ parts[m + 1] \in Seq(T)
    BY <1>3, <2>2, Zenon
  <2> QED
    <3> DEFINE y == g[m]
               z == parts[m + 1]
    <3>1. y \in Seq(T) /\ z \in Seq(T)
      BY <2>6
    <3> HIDE DEF y, z
    <3>2. (x \o y) \o z = x \o (y \o z)
      BY <1>8, <1>9, <3>1, Zenon
    <3> QED
      BY <2>3, <2>4, <2>5, <3>2, Zenon DEF y, z
<1>6. n \in Done
  <2>1. Done \in SUBSET Nat
    OBVIOUS
  <2> HIDE DEF Done
  <2> QED
    BY <1>4, <1>5, <2>1, SetInduction
<1> QED
  <2>1. f[n + 1] = x \o g[n] /\ g[n] \in Seq(T)
    BY <1>3, <1>6
  <2> QED
    BY <1>1, <1>2, <2>1, Zenon DEF x
=============================================================================
