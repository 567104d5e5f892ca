---------------------------- MODULE SlicesProofs ----------------------------
(***************************************************************************)
(* What the list expressions of module Slices return, for all lists: the   *)
(* lemmas that the proofs about the service's stores rest on.              *)
(***************************************************************************)
EXTENDS Slices, SequenceTheorems, FiniteSetTheorems, WellFoundedInduction, NaturalsInduction, TLAPS

(* Induction over the numbers, for a set instead of a predicate. *)
LEMMA NatIsInductive ==
  ASSUME NEW S, 0 \in S, \A n \in Nat : n \in S => n + 1 \in S
  PROVE  \A n \in Nat : n \in S
<1>1. IsWellFoundedOn(OpToRel(<, Nat), Nat)
  BY NatLessThanWellFounded
<1> SUFFICES ASSUME NEW m \in Nat, m \notin S PROVE FALSE
  OBVIOUS
<1> DEFINE T == Nat \ S
           R == OpToRel(<, Nat)
<1>2. \E x \in T : \A y \in T : ~(<<y, x>> \in R)
  <2> HIDE DEF R, T
  <2>1. T \subseteq Nat /\ T # {}
    BY DEF T
  <2> QED
    BY <1>1, <2>1, WFMin DEF R
<1>3. PICK x \in T : \A y \in T : ~(<<y, x>> \in R)
  BY <1>2
<1>4. x # 0 /\ x - 1 \in Nat
  OBVIOUS
<1>5. <<x - 1, x>> \in R
  BY <1>4 DEF OpToRel
<1>6. x - 1 \in S
  BY <1>3, <1>4, <1>5
<1> QED
  BY <1>4, <1>6

(* Induction over the lists of a set, for a set instead of a predicate. *)
LEMMA SeqIsInductive ==
  ASSUME NEW R, NEW S, <<>> \in S, \A s \in Seq(R), x \in R : s \in S => Append(s, x) \in S
  PROVE  \A s \in Seq(R) : s \in S
<1> DEFINE N == {n \in Nat : \A s \in Seq(R) : Len(s) = n => s \in S}
<1>1. 0 \in N
  BY EmptySeq
<1>2. ASSUME NEW n \in Nat, n \in N PROVE n + 1 \in N
  <2> SUFFICES ASSUME NEW s \in Seq(R), Len(s) = n + 1 PROVE s \in S
    OBVIOUS
  <2>1. s # <<>>
    BY EmptySeq
  <2>2. PICK t \in Seq(R), x \in R : s = Append(t, x)
    BY <2>1, SequenceEmptyOrAppend
  <2>3. Len(t) = n
    BY <2>2, AppendProperties, LenProperties
  <2> QED
    BY <1>2, <2>2, <2>3
<1>3. \A n \in Nat : n \in N
  <2> HIDE DEF N
  <2> QED
    BY <1>1, <1>2, NatIsInductive
<1> QED
  BY <1>3, LenProperties

(* The comprehension goes through the list once, from left to right: f[n]  *)
(* is what it has collected after n values.                                *)
Collects(f, R, s, T) ==
  /\ f \in [0..Len(s) -> Seq(R)]
  /\ Filter(s, T) = f[Len(s)]
  /\ f[0] = <<>>
  /\ \A n \in 1..Len(s) :
       f[n] = IF s[n] \in T THEN Append(f[n - 1], s[n]) ELSE f[n - 1]

LEMMA FilterSteps ==
  ASSUME NEW R, NEW s \in Seq(R), NEW T
  PROVE  \E f : Collects(f, R, s, T)
<1> DEFINE Value(g, n) == IF n = 0 THEN <<>>
                          ELSE IF s[n] \in T THEN Append(g[n - 1], s[n]) ELSE g[n - 1]
           Done == {m \in Nat : m <= Len(s) => \E g : g = [n \in 0..m |-> Value(g, n)]}
<1>1. 0 \in Done
  <2>1. [n \in 0..0 |-> <<>>] = [n \in 0..0 |-> Value([j \in 0..0 |-> <<>>], n)]
    OBVIOUS
  <2> QED
    BY <2>1
<1>2. \A m \in Nat : m \in Done => m + 1 \in Done
  <2>1. ASSUME NEW m \in Nat, m + 1 <= Len(s),
               NEW g, g = [n \in 0..m |-> Value(g, n)]
        PROVE  \E h : h = [n \in 0..(m + 1) |-> Value(h, n)]
    <3> DEFINE h == [n \in 0..(m + 1) |-> Value(g, n)]
    <3>1. \A n \in 0..m : g[n] = Value(g, n)
      <4> HIDE DEF Value
      <4> QED
        BY <2>1
    <3>2. \A n \in 0..(m + 1) : h[n] = Value(g, n)
      <4> HIDE DEF Value
      <4> QED
        OBVIOUS
    <3>3. \A n \in 0..m : h[n] = g[n]
      <4> HIDE DEF Value, h
      <4> QED
        BY <3>1, <3>2
    <3>4. ASSUME NEW n \in 0..(m + 1)
          PROVE  Value(h, n) = Value(g, n)
      <4>1. CASE n = 0
        BY <4>1
      <4>2. CASE n # 0
        <5>1. n - 1 \in 0..m
          BY <4>2
        <5>2. h[n - 1] = g[n - 1]
          BY <3>3, <5>1
        <5> HIDE DEF h
        <5> QED
          BY <5>2
      <4> QED
        BY <4>1, <4>2
    <3>5. h = [n \in 0..(m + 1) |-> Value(h, n)]
      <4>1. \A n \in 0..(m + 1) : Value(h, n) = Value(g, n)
        BY <3>4
      <4> HIDE DEF Value
      <4> QED
        BY <4>1
    <3> HIDE DEF h
    <3> QED
      BY <3>5
  <2>2. ASSUME NEW m \in Nat, m \in Done, m + 1 <= Len(s)
        PROVE  \E h : h = [n \in 0..(m + 1) |-> Value(h, n)]
    <3>1. Len(s) \in Nat
      BY LenProperties
    <3>2. m <= Len(s)
      BY <2>2, <3>1
    <3>3. PICK g : g = [n \in 0..m |-> Value(g, n)]
      <4> HIDE DEF Value
      <4> QED
        BY <2>2, <3>2
    <3> HIDE DEF Value
    <3> QED
      BY <2>1, <2>2, <3>3
  <2> HIDE DEF Value
  <2> QED
    BY <2>2
<1>3. Len(s) \in Nat
  BY LenProperties
<1>4. Len(s) \in Done
  BY <1>1, <1>2, <1>3, NatIsInductive
<1>5. \E g : g = [n \in 0..Len(s) |-> Value(g, n)]
  BY <1>3, <1>4
<1> DEFINE f == CHOOSE g : g = [n \in 0..Len(s) |-> Value(g, n)]
<1>6. f = [n \in 0..Len(s) |-> Value(f, n)]
  <2> HIDE DEF Value
  <2> QED
    BY <1>5
<1>7. Filter(s, T) = f[Len(s)]
  BY DEF Filter
<1> HIDE DEF f
<1>8. /\ f[0] = <<>>
      /\ \A n \in 1..Len(s) :
           f[n] = IF s[n] \in T THEN Append(f[n - 1], s[n]) ELSE f[n - 1]
  <2>1. \A n \in 0..Len(s) : f[n] = Value(f, n)
    <3> HIDE DEF Value
    <3> QED
      BY <1>6
  <2> QED
    BY <1>3, <2>1
<1>9. f \in [0..Len(s) -> Seq(R)]
  <2> DEFINE Typed == {m \in Nat : m <= Len(s) => f[m] \in Seq(R)}
  <2>1. 0 \in Typed
    BY <1>8, EmptySeq
  <2>2. \A m \in Nat : m \in Typed => m + 1 \in Typed
    <3> SUFFICES ASSUME NEW m \in Nat, m + 1 <= Len(s), f[m] \in Seq(R)
                 PROVE  f[m + 1] \in Seq(R)
      BY <1>3
    <3>1. s[m + 1] \in R
      BY <1>3, ElementOfSeq
    <3>2. m + 1 \in 1..Len(s) /\ (m + 1) - 1 = m
      BY <1>3
    <3>3. f[m + 1] = IF s[m + 1] \in T THEN Append(f[m], s[m + 1]) ELSE f[m]
      BY <1>8, <3>2
    <3> QED
      BY <3>1, <3>3, AppendProperties
  <2>3. \A m \in Nat : m \in Typed
    <3> HIDE DEF Typed
    <3> QED
      BY <2>1, <2>2, NatIsInductive
  <2> QED
    BY <1>3, <1>6, <2>3
<1> QED
  BY <1>7, <1>8, <1>9 DEF Collects

-----------------------------------------------------------------------------
(* t is the list of those of the first m values of s that are in T: e says *)
(* where in s each of them is.                                             *)
Picks(e, t, s, T, m) ==
  /\ e \in [1..Len(t) -> 1..m]
  /\ \A i \in 1..Len(t) : t[i] = s[e[i]]
  /\ \A i, j \in 1..Len(t) : i < j => e[i] < e[j]
  /\ \A j \in 1..m : s[j] \in T <=> \E i \in 1..Len(t) : e[i] = j

LEMMA PicksKeeps ==
  ASSUME NEW R, NEW s \in Seq(R), NEW T, NEW m \in Nat, m + 1 <= Len(s),
         NEW t \in Seq(R), NEW e, Picks(e, t, s, T, m), s[m + 1] \in T
  PROVE  \E d : Picks(d, Append(t, s[m + 1]), s, T, m + 1)
<1> DEFINE u == Append(t, s[m + 1])
           d == [i \in 1..(Len(t) + 1) |-> IF i <= Len(t) THEN e[i] ELSE m + 1]
<1>1. Len(t) \in Nat /\ Len(s) \in Nat
  BY LenProperties
<1>2. s[m + 1] \in R
  BY <1>1, ElementOfSeq
<1>3. /\ Len(u) = Len(t) + 1
      /\ \A i \in 1..Len(t) : u[i] = t[i]
      /\ u[Len(t) + 1] = s[m + 1]
  BY <1>2, AppendProperties
<1>4. /\ \A i \in 1..Len(t) : d[i] = e[i] /\ e[i] \in 1..m
      /\ d[Len(t) + 1] = m + 1
  <2>1. \A i \in 1..Len(t) : e[i] \in 1..m
    BY DEF Picks
  <2>2. \A i \in 1..Len(t) : i \in 1..(Len(t) + 1) /\ i <= Len(t)
    BY <1>1
  <2>3. Len(t) + 1 \in 1..(Len(t) + 1) /\ ~(Len(t) + 1 <= Len(t))
    BY <1>1
  <2> QED
    BY <2>1, <2>2, <2>3
<1>5. \A i \in 1..(Len(t) + 1) : i \in 1..Len(t) \/ i = Len(t) + 1
  BY <1>1
<1>6. d \in [1..(Len(t) + 1) -> 1..(m + 1)]
  <2>1. \A i \in 1..(Len(t) + 1) : d[i] \in 1..(m + 1)
    <3> HIDE DEF d
    <3> QED
      BY <1>4, <1>5
  <2> QED
    BY <2>1
<1> HIDE DEF u, d
<1>7. \A i \in 1..Len(u) : u[i] = s[d[i]]
  BY <1>1, <1>3, <1>4, <1>5 DEF Picks
<1>8. \A i, j \in 1..Len(u) : i < j => d[i] < d[j]
  <2> SUFFICES ASSUME NEW i \in 1..Len(u), NEW j \in 1..Len(u), i < j
               PROVE  d[i] < d[j]
    OBVIOUS
  <2>1. i \in 1..Len(t)
    BY <1>1, <1>3
  <2>2. CASE j \in 1..Len(t)
    BY <1>4, <2>1, <2>2 DEF Picks
  <2>3. CASE j = Len(t) + 1
    BY <1>4, <2>1, <2>3
  <2> QED
    BY <1>3, <1>5, <2>2, <2>3
<1>9. \A j \in 1..(m + 1) : s[j] \in T <=> \E i \in 1..Len(u) : d[i] = j
  <2> SUFFICES ASSUME NEW j \in 1..(m + 1)
               PROVE  s[j] \in T <=> \E i \in 1..Len(u) : d[i] = j
    OBVIOUS
  <2>1. CASE j = m + 1
    BY <1>1, <1>3, <1>4, <2>1
  <2>2. CASE j \in 1..m
    <3>1. s[j] \in T <=> \E i \in 1..Len(t) : e[i] = j
      BY <2>2 DEF Picks
    <3>2. d[Len(t) + 1] # j
      BY <1>4, <2>2
    <3>3. (\E i \in 1..Len(t) : e[i] = j) <=> \E i \in 1..Len(u) : d[i] = j
      BY SMTT(20), <1>1, <1>3, <1>4, <1>5, <3>2
    <3> QED
      BY <3>1, <3>3
  <2> QED
    BY <2>1, <2>2
<1> QED
  BY <1>3, <1>6, <1>7, <1>8, <1>9 DEF Picks, u

(* What the comprehension returns, in full: the values that are in T, each *)
(* as often as it is there, and in the order in which they are there.      *)
LEMMA FilterPicks ==
  ASSUME NEW R, NEW s \in Seq(R), NEW T
  PROVE  /\ Filter(s, T) \in Seq(R)
         /\ Len(Filter(s, T)) <= Len(s)
         /\ (\E i \in 1..Len(s) : s[i] \notin T) => Len(Filter(s, T)) < Len(s)
         /\ \E e : Picks(e, Filter(s, T), s, T, Len(s))
<1>0. PICK f : Collects(f, R, s, T)
  BY FilterSteps
<1>1. /\ f \in [0..Len(s) -> Seq(R)]
      /\ Filter(s, T) = f[Len(s)]
      /\ f[0] = <<>>
      /\ \A n \in 1..Len(s) :
           f[n] = IF s[n] \in T THEN Append(f[n - 1], s[n]) ELSE f[n - 1]
  BY <1>0 DEF Collects
<1>2. Len(s) \in Nat
  BY LenProperties
<1> DEFINE Good(m) == /\ Len(f[m]) <= m
                      /\ (\E i \in 1..m : s[i] \notin T) => Len(f[m]) < m
                      /\ \E e : Picks(e, f[m], s, T, m)
           Done == {m \in Nat : m <= Len(s) => Good(m)}
<1>3. 0 \in Done
  <2>1. Len(f[0]) = 0
    BY <1>1, EmptySeq
  <2>2. Picks([i \in 1..0 |-> 0], f[0], s, T, 0)
    BY <2>1 DEF Picks
  <2>3. 0 \in Nat /\ 1..0 = {}
    OBVIOUS
  <2>4. Good(0)
    <3> HIDE DEF Picks
    <3> QED
      BY <2>1, <2>2, <2>3
  <2> HIDE DEF Good
  <2> QED
    BY <2>3, <2>4
<1>4. ASSUME NEW m \in Nat, m + 1 <= Len(s), Good(m)
      PROVE  Good(m + 1)
  <2>1. f[m] \in Seq(R) /\ m \in 0..Len(s)
    BY <1>1, <1>2, <1>4
  <2>2. Len(f[m]) \in Nat
    BY <2>1, LenProperties
  <2>3. f[m + 1] = IF s[m + 1] \in T THEN Append(f[m], s[m + 1]) ELSE f[m]
    <3>1. m + 1 \in 1..Len(s) /\ (m + 1) - 1 = m
      BY <1>2, <1>4
    <3> QED
      BY <1>1, <3>1
  <2>4. PICK e : Picks(e, f[m], s, T, m)
    BY <1>4
  <2>5. \A i \in 1..(m + 1) : i \in 1..m \/ i = m + 1
    OBVIOUS
  <2>6. CASE s[m + 1] \in T
    <3>1. Len(f[m + 1]) = Len(f[m]) + 1
      <4>1. s[m + 1] \in R
        BY <1>2, <1>4, ElementOfSeq
      <4> QED
        BY <2>1, <2>3, <2>6, <4>1, AppendProperties
    <3>2. \E d : Picks(d, f[m + 1], s, T, m + 1)
      BY <1>4, <2>1, <2>3, <2>4, <2>6, PicksKeeps
    <3> QED
      BY <1>4, <2>2, <2>5, <2>6, <3>1, <3>2
  <2>7. CASE s[m + 1] \notin T
    <3>1. f[m + 1] = f[m]
      BY <2>3, <2>7
    <3>2. Picks(e, f[m], s, T, m + 1)
      <4>1. e \in [1..Len(f[m]) -> 1..(m + 1)]
        BY <2>4 DEF Picks
      <4>2. \A j \in 1..(m + 1) : s[j] \in T <=> \E i \in 1..Len(f[m]) : e[i] = j
        BY <2>4, <2>5, <2>7 DEF Picks
      <4> QED
        BY <2>4, <4>1, <4>2 DEF Picks
    <3> QED
      BY <1>4, <2>2, <3>1, <3>2
  <2> QED
    BY <2>6, <2>7
<1>5. \A m \in Nat : m \in Done => m + 1 \in Done
  <2> HIDE DEF Good
  <2> QED
    BY <1>2, <1>4
<1>6. Good(Len(s))
  <2>1. \A m \in Nat : m \in Done
    <3> HIDE DEF Done
    <3> QED
      BY <1>3, <1>5, NatIsInductive
  <2> HIDE DEF Good
  <2> QED
    BY <1>2, <2>1
<1> QED
  BY <1>1, <1>2, <1>6

(* A comprehension keeps exactly the members that are in T. *)
LEMMA FilterMembers ==
  ASSUME NEW R, NEW s \in Seq(R), NEW T
  PROVE  {Filter(s, T)[i] : i \in 1..Len(Filter(s, T))} = {s[i] : i \in 1..Len(s)} \cap T
<1>1. PICK e : Picks(e, Filter(s, T), s, T, Len(s))
  BY FilterPicks
<1>2. \A i \in 1..Len(Filter(s, T)) :
        /\ e[i] \in 1..Len(s)
        /\ Filter(s, T)[i] = s[e[i]]
        /\ s[e[i]] \in T
  BY <1>1 DEF Picks
<1>3. \A j \in 1..Len(s) : s[j] \in T =>
        \E i \in 1..Len(Filter(s, T)) : e[i] = j
  BY <1>1 DEF Picks
<1> QED
  BY <1>2, <1>3

Distinct(s) == \A i, j \in 1..Len(s) : s[i] = s[j] => i = j

(* What occurs once in the list occurs at most once in the comprehension. *)
LEMMA FilterDistinct ==
  ASSUME NEW R, NEW s \in Seq(R), NEW T, Distinct(s)
  PROVE  Distinct(Filter(s, T))
<1>1. PICK e : Picks(e, Filter(s, T), s, T, Len(s))
  BY FilterPicks
<1>2. Len(Filter(s, T)) \in Nat /\ Len(s) \in Nat
  <2>1. Filter(s, T) \in Seq(R)
    BY FilterPicks
  <2> QED
    BY <2>1, LenProperties
<1> SUFFICES ASSUME NEW i \in 1..Len(Filter(s, T)), NEW j \in 1..Len(Filter(s, T)),
                    Filter(s, T)[i] = Filter(s, T)[j]
             PROVE  i = j
  BY DEF Distinct
<1>3. e[i] \in 1..Len(s) /\ e[j] \in 1..Len(s) /\ s[e[i]] = s[e[j]]
  BY <1>1 DEF Picks
<1>4. e[i] = e[j]
  BY <1>3 DEF Distinct
<1>5. ~(i < j) /\ ~(j < i)
  BY <1>1, <1>2, <1>3, <1>4 DEF Picks
<1> QED
  BY <1>2, <1>5

(* A list without repetitions is as long as the set of its members. *)
LEMMA DistinctLength ==
  ASSUME NEW R, NEW s \in Seq(R), Distinct(s)
  PROVE  /\ IsFiniteSet({s[i] : i \in 1..Len(s)})
         /\ Cardinality({s[i] : i \in 1..Len(s)}) = Len(s)
<1> DEFINE M == {s[i] : i \in 1..Len(s)}
<1>1. Len(s) \in Nat
  BY LenProperties
<1>2. s \in [1..Len(s) -> M]
  BY LenProperties
<1>3. s \in Bijection(1..Len(s), M)
  BY <1>2 DEF Distinct, Bijection, Injection, Surjection, IsInjective
<1>4. ExistsBijection(1..Len(s), M)
  BY <1>3 DEF ExistsBijection
<1>5. IsFiniteSet(1..Len(s))
  BY <1>1, FS_Interval
<1> QED
  BY <1>1, <1>4, <1>5, FS_CountingElements, FS_Bijection

(* Appending a value that is not there yet repeats none. *)
LEMMA AppendDistinct ==
  ASSUME NEW R, NEW s \in Seq(R), Distinct(s), NEW x \in R, x \notin {s[i] : i \in 1..Len(s)}
  PROVE  /\ Append(s, x) \in Seq(R)
         /\ Len(Append(s, x)) = Len(s) + 1
         /\ Distinct(Append(s, x))
         /\ {Append(s, x)[i] : i \in 1..Len(Append(s, x))} = {s[i] : i \in 1..Len(s)} \cup {x}
<1> DEFINE t == Append(s, x)
<1>1. /\ t \in Seq(R) /\ Len(t) = Len(s) + 1 /\ Len(s) \in Nat
      /\ \A i \in 1..Len(s) : t[i] = s[i]
      /\ t[Len(s) + 1] = x
  BY AppendProperties, LenProperties
<1>2. \A i \in 1..(Len(s) + 1) : i \in 1..Len(s) \/ i = Len(s) + 1
  BY <1>1
<1>3. 1..Len(s) \subseteq 1..(Len(s) + 1) /\ Len(s) + 1 \in 1..(Len(s) + 1)
  BY <1>1
<1> HIDE DEF t
<1>4. Distinct(t)
  <2> SUFFICES ASSUME NEW i \in 1..(Len(s) + 1), NEW j \in 1..(Len(s) + 1), t[i] = t[j]
               PROVE  i = j
    BY <1>1 DEF Distinct
  <2>1. CASE i = Len(s) + 1
    BY <1>1, <1>2, <2>1
  <2>2. CASE j = Len(s) + 1
    BY <1>1, <1>2, <2>2
  <2>3. CASE i \in 1..Len(s) /\ j \in 1..Len(s)
    BY <1>1, <2>3 DEF Distinct
  <2> QED
    BY <1>2, <2>1, <2>2, <2>3
<1>5. {t[i] : i \in 1..(Len(s) + 1)} = {s[i] : i \in 1..Len(s)} \cup {x}
  BY <1>1, <1>2, <1>3
<1> QED
  BY <1>1, <1>4, <1>5 DEF t

-----------------------------------------------------------------------------
(* The comprehension of a longer list. *)
LEMMA FilterAppend ==
  ASSUME NEW R, NEW s \in Seq(R), NEW x \in R, NEW T
  PROVE  Filter(Append(s, x), T) =
           IF x \in T THEN Append(Filter(s, T), x) ELSE Filter(s, T)
<1> DEFINE t == Append(s, x)
<1>1. /\ t \in Seq(R) /\ Len(t) = Len(s) + 1 /\ Len(s) \in Nat
      /\ \A i \in 1..Len(s) : t[i] = s[i]
      /\ t[Len(s) + 1] = x
  BY AppendProperties, LenProperties
<1> HIDE DEF t
<1>2. PICK f : Collects(f, R, s, T)
  BY FilterSteps
<1>3. PICK g : Collects(g, R, t, T)
  BY <1>1, FilterSteps
<1> DEFINE Same == {m \in Nat : m <= Len(s) => f[m] = g[m]}
<1>4. 0 \in Same
  BY <1>2, <1>3 DEF Collects
<1>5. \A m \in Nat : m \in Same => m + 1 \in Same
  <2> SUFFICES ASSUME NEW m \in Nat, m \in Same, m + 1 <= Len(s)
               PROVE  f[m + 1] = g[m + 1]
    OBVIOUS
  <2>1. m + 1 \in 1..Len(s) /\ m + 1 \in 1..Len(t) /\ (m + 1) - 1 = m /\ m <= Len(s)
    BY <1>1
  <2>2. f[m] = g[m] /\ t[m + 1] = s[m + 1]
    BY <1>1, <2>1
  <2>3. f[m + 1] = IF s[m + 1] \in T THEN Append(f[m], s[m + 1]) ELSE f[m]
    BY <1>2, <2>1 DEF Collects
  <2>4. g[m + 1] = IF t[m + 1] \in T THEN Append(g[m], t[m + 1]) ELSE g[m]
    BY <1>3, <2>1 DEF Collects
  <2> QED
    BY <2>2, <2>3, <2>4
<1>6. f[Len(s)] = g[Len(s)]
  <2>1. \A m \in Nat : m \in Same
    <3> HIDE DEF Same
    <3> QED
      BY <1>4, <1>5, NatIsInductive
  <2> QED
    BY <1>1, <2>1
<1>7. Len(t) \in 1..Len(t) /\ Len(t) - 1 = Len(s) /\ t[Len(t)] = x
  BY <1>1
<1>8. g[Len(t)] = IF t[Len(t)] \in T THEN Append(g[Len(t) - 1], t[Len(t)]) ELSE g[Len(t) - 1]
  BY <1>3, <1>7 DEF Collects
<1> QED
  BY <1>2, <1>3, <1>6, <1>7, <1>8 DEF t, Collects

(* Nothing is dropped when all values are in T. *)
LEMMA FilterAll ==
  ASSUME NEW R, NEW s \in Seq(R), NEW T, \A i \in 1..Len(s) : s[i] \in T
  PROVE  Filter(s, T) = s
<1>1. PICK f : Collects(f, R, s, T)
  BY FilterSteps
<1>2. /\ f \in [0..Len(s) -> Seq(R)]
      /\ Filter(s, T) = f[Len(s)]
      /\ f[0] = <<>>
      /\ \A n \in 1..Len(s) : f[n] = Append(f[n - 1], s[n])
  BY <1>1 DEF Collects
<1>3. Len(s) \in Nat /\ \A i \in 1..Len(s) : s[i] \in R
  BY LenProperties, ElementOfSeq
<1> DEFINE Good(m) == Len(f[m]) = m /\ \A i \in 1..m : f[m][i] = s[i]
           Done == {m \in Nat : m <= Len(s) => Good(m)}
<1>4. 0 \in Done
  BY <1>2, EmptySeq
<1>5. \A m \in Nat : m \in Done => m + 1 \in Done
  <2> SUFFICES ASSUME NEW m \in Nat, m + 1 <= Len(s), Good(m) PROVE Good(m + 1)
    BY <1>3
  <2>1. f[m] \in Seq(R) /\ f[m + 1] = Append(f[m], s[m + 1]) /\ s[m + 1] \in R
    <3>1. m \in 0..Len(s) /\ m + 1 \in 1..Len(s) /\ (m + 1) - 1 = m
      BY <1>3
    <3> QED
      BY <1>2, <1>3, <3>1
  <2>2. /\ Len(f[m + 1]) = m + 1
        /\ f[m + 1][m + 1] = s[m + 1]
        /\ \A i \in 1..m : f[m + 1][i] = f[m][i]
    BY <2>1, AppendProperties
  <2> QED
    BY <2>2
<1>6. Good(Len(s))
  <2>1. \A m \in Nat : m \in Done
    <3> HIDE DEF Done
    <3> QED
      BY <1>4, <1>5, NatIsInductive
  <2> HIDE DEF Good
  <2> QED
    BY <1>3, <2>1
<1>7. f[Len(s)] \in Seq(R)
  BY <1>2, <1>3
<1> QED
  BY <1>2, <1>6, <1>7, SeqEqual

LEMMA FilterEmpty ==
  ASSUME NEW T
  PROVE  Filter(<<>>, T) = <<>>
<1>1. <<>> \in Seq({}) /\ Len(<<>>) = 0
  BY EmptySeq
<1>2. PICK f : Collects(f, {}, <<>>, T)
  BY <1>1, FilterSteps
<1> QED
  BY <1>1, <1>2 DEF Collects

(* The comprehension of a list and of its tail. *)
LEMMA FilterHead ==
  ASSUME NEW R, NEW s \in Seq(R), s # <<>>, NEW T
  PROVE  Filter(s, T) = IF Head(s) \in T THEN <<Head(s)>> \o Filter(Tail(s), T)
                        ELSE Filter(Tail(s), T)
<1> DEFINE Cons(x, t) == IF x \in T THEN <<x>> \o Filter(t, T) ELSE Filter(t, T)
           Good == {t \in Seq(R) : \A x \in R : Filter(<<x>> \o t, T) = Cons(x, t)}
<1>1. <<>> \in Good
  <2> SUFFICES ASSUME NEW x \in R PROVE Filter(<<x>> \o <<>>, T) = Cons(x, <<>>)
    BY EmptySeq
  <2>1. <<>> \in Seq(R) /\ <<x>> \in Seq(R) /\ <<x>> \o <<>> = Append(<<>>, x) /\ <<x>> = Append(<<>>, x)
    OBVIOUS
  <2>2. Filter(Append(<<>>, x), T) = IF x \in T THEN Append(Filter(<<>>, T), x) ELSE Filter(<<>>, T)
    BY <2>1, FilterAppend
  <2>3. Filter(<<>>, T) = <<>>
    BY FilterEmpty
  <2> QED
    BY <2>1, <2>2, <2>3
<1>2. ASSUME NEW t \in Seq(R), NEW y \in R, t \in Good PROVE Append(t, y) \in Good
  <2>1. Append(t, y) \in Seq(R)
    BY AppendProperties
  <2> SUFFICES ASSUME NEW x \in R PROVE Filter(<<x>> \o Append(t, y), T) = Cons(x, Append(t, y))
    BY <2>1
  <2>2. <<x>> \in Seq(R) /\ <<y>> \in Seq(R) /\ <<x>> \o t \in Seq(R)
    BY ConcatProperties
  <2>3. <<x>> \o Append(t, y) = Append(<<x>> \o t, y)
    BY <2>2, AppendIsConcat, ConcatAssociative
  <2>4. Filter(t, T) \in Seq(R) /\ Filter(Append(t, y), T) = IF y \in T THEN Append(Filter(t, T), y) ELSE Filter(t, T)
    BY FilterAppend, FilterPicks
  <2>5. Filter(Append(<<x>> \o t, y), T) =
          IF y \in T THEN Append(Filter(<<x>> \o t, T), y) ELSE Filter(<<x>> \o t, T)
    BY <2>2, FilterAppend
  <2>6. Filter(<<x>> \o t, T) = Cons(x, t)
    BY <1>2
  <2>7. Append(<<x>> \o Filter(t, T), y) = <<x>> \o Append(Filter(t, T), y)
    <3> DEFINE u == Filter(t, T)
    <3>1. u \in Seq(R)
      BY <2>4
    <3> HIDE DEF u
    <3>2. <<x>> \o u \in Seq(R)
      BY <2>2, <3>1, ConcatProperties
    <3>3. Append(<<x>> \o u, y) = (<<x>> \o u) \o <<y>> /\ Append(u, y) = u \o <<y>>
      BY <3>1, <3>2, AppendIsConcat
    <3>4. Append(<<x>> \o u, y) = <<x>> \o Append(u, y)
      BY <2>2, <3>1, <3>3, ConcatAssociative
    <3> QED
      BY <3>4 DEF u
  <2> QED
    BY <2>3, <2>4, <2>5, <2>6, <2>7
<1>3. \A t \in Seq(R) : t \in Good
  <2> HIDE DEF Good
  <2> QED
    BY <1>1, <1>2, SeqIsInductive
<1>4. /\ Head(s) \in R /\ Tail(s) \in Seq(R) /\ s = <<Head(s)>> \o Tail(s)
  <2>1. Head(s) \in R /\ Tail(s) \in Seq(R) /\ Len(s) \in Nat /\ Len(s) >= 1
    BY HeadTailProperties, EmptySeq
  <2>2. s = SubSeq(s, 1, Len(s)) /\ Tail(s) = SubSeq(s, 2, Len(s)) /\ Head(s) = s[1]
    BY SubSeqFull, TailIsSubSeq
  <2>3. SubSeq(s, 1, Len(s)) = <<s[1]>> \o SubSeq(s, 1 + 1, Len(s))
    BY <2>1, SubSeqRecursiveFirst
  <2> QED
    BY <2>1, <2>2, <2>3
<1> QED
  BY <1>3, <1>4

(* One comprehension after another. *)
LEMMA FilterTwice ==
  ASSUME NEW R, NEW s \in Seq(R), NEW T, NEW U
  PROVE  Filter(Filter(s, T), U) = Filter(s, T \cap U)
<1> DEFINE Good == {t \in Seq(R) : Filter(Filter(t, T), U) = Filter(t, T \cap U)}
<1>1. <<>> \in Good
  BY FilterEmpty, EmptySeq
<1>2. ASSUME NEW t \in Seq(R), NEW x \in R, t \in Good PROVE Append(t, x) \in Good
  <2>1. Append(t, x) \in Seq(R) /\ Filter(t, T) \in Seq(R)
    BY AppendProperties, FilterPicks
  <2>2. /\ Filter(Append(t, x), T) = IF x \in T THEN Append(Filter(t, T), x) ELSE Filter(t, T)
        /\ Filter(Append(t, x), T \cap U) =
             IF x \in T \cap U THEN Append(Filter(t, T \cap U), x) ELSE Filter(t, T \cap U)
    BY FilterAppend
  <2>3. Filter(Append(Filter(t, T), x), U) =
          IF x \in U THEN Append(Filter(Filter(t, T), U), x) ELSE Filter(Filter(t, T), U)
    BY <2>1, FilterAppend
  <2>4. Filter(Filter(t, T), U) = Filter(t, T \cap U)
    BY <1>2
  <2>5. Filter(Filter(Append(t, x), T), U) = Filter(Append(t, x), T \cap U)
    <3>1. CASE x \in T
      <4>1. Filter(Append(t, x), T) = Append(Filter(t, T), x)
        BY <2>2, <3>1
      <4>2. Filter(Append(t, x), T \cap U) = IF x \in U THEN Append(Filter(t, T \cap U), x) ELSE Filter(t, T \cap U)
        BY <2>2, <3>1
      <4> QED
        BY <2>3, <2>4, <4>1, <4>2, Zenon
    <3>2. CASE x \notin T
      BY <2>2, <2>4, <3>2
    <3> QED
      BY <3>1, <3>2
  <2> QED
    BY <2>1, <2>5
<1>3. \A t \in Seq(R) : t \in Good
  <2> HIDE DEF Good
  <2> QED
    BY <1>1, <1>2, SeqIsInductive
<1> QED
  BY <1>3

LEMMA FilterNothing ==
  ASSUME NEW R, NEW s \in Seq(R)
  PROVE  Filter(s, {}) = <<>>
<1> DEFINE Good == {t \in Seq(R) : Filter(t, {}) = <<>>}
<1>1. <<>> \in Good
  BY FilterEmpty, EmptySeq
<1>2. ASSUME NEW t \in Seq(R), NEW x \in R, t \in Good PROVE Append(t, x) \in Good
  BY <1>2, AppendProperties, FilterAppend
<1>3. \A t \in Seq(R) : t \in Good
  <2> HIDE DEF Good
  <2> QED
    BY <1>1, <1>2, SeqIsInductive
<1> QED
  BY <1>3

-----------------------------------------------------------------------------
(* The slices from the end. *)

LEMMA LastNType ==
  ASSUME NEW R, NEW s \in Seq(R), NEW n \in Nat
  PROVE  /\ LastN(s, n) \in Seq(R)
         /\ Len(LastN(s, n)) \in Nat
         /\ Len(LastN(s, n)) <= Len(s)
         /\ n > 0 => Len(LastN(s, n)) <= n
         /\ n = 0 \/ Len(s) <= n => LastN(s, n) = s
         /\ n > 0 /\ Len(s) > n =>
              /\ Len(LastN(s, n)) = n
              /\ \A i \in 1..n : LastN(s, n)[i] = s[Len(s) - n + i]
<1>1. Len(s) \in Nat
  BY LenProperties
<1>2. CASE n = 0 \/ Len(s) <= n
  BY <1>1, <1>2 DEF LastN
<1>3. CASE n > 0 /\ Len(s) > n
  <2> DEFINE t == SubSeq(s, Len(s) - n + 1, Len(s))
  <2>1. LastN(s, n) = t
    BY <1>1, <1>3 DEF LastN
  <2>2. \A i \in (Len(s) - n + 1)..Len(s) : s[i] \in R
    BY <1>1, <1>3, ElementOfSeq
  <2>3. Len(s) - n + 1 \in Int /\ Len(s) \in Int
    BY <1>1
  <2>4. /\ t \in Seq(R)
        /\ Len(t) = n
        /\ \A i \in 1..n : t[i] = s[Len(s) - n + 1 + i - 1]
    <3>1. /\ t \in Seq(R)
          /\ Len(t) = IF Len(s) - n + 1 <= Len(s) THEN Len(s) - (Len(s) - n + 1) + 1 ELSE 0
          /\ \A i \in 1..(Len(s) - (Len(s) - n + 1) + 1) : t[i] = s[Len(s) - n + 1 + i - 1]
      BY <2>2, <2>3, SubSeqProperties
    <3> QED
      BY <1>1, <1>3, <3>1
  <2> HIDE DEF t
  <2>5. \A i \in 1..n : t[i] = s[Len(s) - n + i]
    <3>1. \A i \in 1..n : Len(s) - n + 1 + i - 1 = Len(s) - n + i
      BY <1>1
    <3> QED
      BY <2>4, <3>1
  <2> QED
    BY <1>1, <1>3, <2>1, <2>4, <2>5
<1> QED
  BY <1>1, <1>2, <1>3

LEMMA LastNTwice ==
  ASSUME NEW R, NEW s \in Seq(R), NEW n \in Nat
  PROVE  LastN(LastN(s, n), n) = LastN(s, n)
<1>1. /\ LastN(s, n) \in Seq(R)
      /\ n > 0 => Len(LastN(s, n)) <= n
  BY LastNType
<1> QED
  BY <1>1, LastNType

(* Cutting before an append makes no difference to cutting after it. *)
LEMMA LastNAppend ==
  ASSUME NEW R, NEW s \in Seq(R), NEW n \in Nat, NEW x \in R
  PROVE  LastN(Append(LastN(s, n), x), n) = LastN(Append(s, x), n)
<1>1. Len(s) \in Nat
  BY LenProperties
<1>2. CASE n = 0 \/ Len(s) <= n
  BY <1>2, LastNType
<1>3. CASE n > 0 /\ Len(s) > n
  <2> DEFINE t == LastN(s, n)
             u == Append(t, x)
             v == Append(s, x)
  <2>1. /\ t \in Seq(R) /\ Len(t) = n
        /\ \A i \in 1..n : t[i] = s[Len(s) - n + i]
    BY <1>3, LastNType
  <2>2. /\ u \in Seq(R) /\ Len(u) = n + 1
        /\ \A i \in 1..n : u[i] = t[i]
        /\ u[n + 1] = x
    BY <2>1, AppendProperties
  <2>3. /\ v \in Seq(R) /\ Len(v) = Len(s) + 1
        /\ \A i \in 1..Len(s) : v[i] = s[i]
        /\ v[Len(s) + 1] = x
    BY AppendProperties
  <2> HIDE DEF t, u, v
  <2>4. /\ LastN(u, n) \in Seq(R) /\ Len(LastN(u, n)) = n
        /\ \A i \in 1..n : LastN(u, n)[i] = u[Len(u) - n + i]
    <3>1. n > 0 /\ Len(u) > n
      BY <1>3, <2>2
    <3> QED
      BY <2>2, <3>1, LastNType
  <2>5. /\ LastN(v, n) \in Seq(R) /\ Len(LastN(v, n)) = n
        /\ \A i \in 1..n : LastN(v, n)[i] = v[Len(v) - n + i]
    <3>1. n > 0 /\ Len(v) > n
      BY <1>1, <1>3, <2>3
    <3> QED
      BY <2>3, <3>1, LastNType
  <2>6. ASSUME NEW i \in 1..n
        PROVE  LastN(u, n)[i] = LastN(v, n)[i]
    <3>1. LastN(u, n)[i] = u[i + 1]
      <4>1. Len(u) - n + i = i + 1
        BY <2>2
      <4> QED
        BY <2>4, <4>1
    <3>2. LastN(v, n)[i] = v[Len(s) + 1 - n + i]
      BY <2>3, <2>5
    <3>3. CASE i = n
      <4>1. Len(s) + 1 - n + i = Len(s) + 1
        BY <1>1, <3>3
      <4> QED
        BY <2>2, <2>3, <3>1, <3>2, <3>3, <4>1
    <3>4. CASE i < n
      <4>1. /\ i + 1 \in 1..n
            /\ Len(s) + 1 - n + i \in 1..Len(s)
            /\ Len(s) - n + (i + 1) = Len(s) + 1 - n + i
        BY <1>1, <1>3, <3>4
      <4>2. u[i + 1] = s[Len(s) + 1 - n + i]
        <5>1. t[i + 1] = s[Len(s) - n + (i + 1)]
          BY <2>1, <4>1
        <5> QED
          BY <2>2, <4>1, <5>1
      <4> QED
        BY <2>3, <3>1, <3>2, <4>1, <4>2
    <3> QED
      BY <3>3, <3>4
  <2>7. LastN(u, n) = LastN(v, n)
    BY <2>4, <2>5, <2>6, SeqEqual
  <2> QED
    BY <2>7 DEF t, u, v
<1> QED
  BY <1>1, <1>2, <1>3

-----------------------------------------------------------------------------
(* What a function makes of a list, value by value. *)

Image(s, f) == [i \in 1..Len(s) |-> f[s[i]]]

LEMMA ImageType ==
  ASSUME NEW R, NEW V, NEW s \in Seq(R), NEW f, \A x \in R : f[x] \in V
  PROVE  /\ Image(s, f) \in Seq(V)
         /\ Len(Image(s, f)) = Len(s)
         /\ \A i \in 1..Len(s) : Image(s, f)[i] = f[s[i]]
<1>1. Len(s) \in Nat /\ \A i \in 1..Len(s) : s[i] \in R
  BY LenProperties, ElementOfSeq
<1>2. \A i \in 1..Len(s) : f[s[i]] \in V
  BY <1>1
<1> QED
  BY <1>1, <1>2 DEF Image

LEMMA ImageAppend ==
  ASSUME NEW R, NEW s \in Seq(R), NEW x \in R, NEW f
  PROVE  Image(Append(s, x), f) = Append(Image(s, f), f[x])
<1> DEFINE V == {f[y] : y \in R}
<1>1. /\ Append(s, x) \in Seq(R) /\ Len(Append(s, x)) = Len(s) + 1
      /\ Append(s, x)[Len(s) + 1] = x
      /\ \A i \in 1..Len(s) : Append(s, x)[i] = s[i]
      /\ Len(s) \in Nat
  BY AppendProperties, LenProperties
<1>0. \A t \in Seq(R) : /\ Image(t, f) \in Seq(V) /\ Len(Image(t, f)) = Len(t)
                        /\ \A i \in 1..Len(t) : Image(t, f)[i] = f[t[i]]
  BY ImageType
<1>2. Image(s, f) \in Seq(V) /\ Len(Image(s, f)) = Len(s)
      /\ \A i \in 1..Len(s) : Image(s, f)[i] = f[s[i]]
  BY <1>0
<1>3. /\ Image(Append(s, x), f) \in Seq(V) /\ Len(Image(Append(s, x), f)) = Len(s) + 1
      /\ \A i \in 1..Len(s) + 1 : Image(Append(s, x), f)[i] = f[Append(s, x)[i]]
  BY <1>0, <1>1
<1>4. /\ Append(Image(s, f), f[x]) \in Seq(V) /\ Len(Append(Image(s, f), f[x])) = Len(s) + 1
      /\ Append(Image(s, f), f[x])[Len(s) + 1] = f[x]
      /\ \A i \in 1..Len(s) : Append(Image(s, f), f[x])[i] = f[s[i]]
  BY <1>2, AppendProperties
<1>5. \A i \in 1..Len(s) + 1 : Image(Append(s, x), f)[i] = Append(Image(s, f), f[x])[i]
  BY <1>1, <1>3, <1>4
<1> QED
  BY <1>3, <1>4, <1>5, SeqEqual

(* Choosing among the values of a list, and among what a function makes of *)
(* them, is the same where the sets agree.                                 *)
LEMMA ImageFilter ==
  ASSUME NEW R, NEW f, NEW T, NEW U, \A x \in R : x \in T <=> f[x] \in U
  PROVE  \A s \in Seq(R) : Image(Filter(s, T), f) = Filter(Image(s, f), U)
<1> DEFINE V == {f[x] : x \in R}
           S == {s \in Seq(R) : Image(Filter(s, T), f) = Filter(Image(s, f), U)}
<1>1. <<>> \in S
  <2>1. <<>> \in Seq(R) /\ Image(<<>>, f) = <<>>
    BY DEF Image
  <2> QED
    BY <2>1, FilterEmpty
<1>0. \A t \in Seq(R), y \in R : Image(Append(t, y), f) = Append(Image(t, f), f[y])
  BY ImageAppend
<1>2. ASSUME NEW s \in Seq(R), NEW x \in R, s \in S
      PROVE  Append(s, x) \in S
  <2>1. Append(s, x) \in Seq(R) /\ Filter(s, T) \in Seq(R)
    BY AppendProperties, FilterPicks
  <2>2. Image(s, f) \in Seq(V) /\ f[x] \in V
    BY ImageType
  <2>3. Image(Append(s, x), f) = Append(Image(s, f), f[x])
    BY <1>0
  <2>4. Filter(Append(Image(s, f), f[x]), U) =
          IF f[x] \in U THEN Append(Filter(Image(s, f), U), f[x]) ELSE Filter(Image(s, f), U)
    BY ZenonT(30), <2>2, FilterAppend
  <2>5. Filter(Append(s, x), T) = IF x \in T THEN Append(Filter(s, T), x) ELSE Filter(s, T)
    BY FilterAppend
  <2>6. Image(Append(Filter(s, T), x), f) = Append(Image(Filter(s, T), f), f[x])
    BY <1>0, <2>1
  <2>7. x \in T <=> f[x] \in U
    OBVIOUS
  <2>8. Image(Filter(s, T), f) = Filter(Image(s, f), U)
    BY <1>2
  <2>9. Image(Filter(Append(s, x), T), f) = Filter(Image(Append(s, x), f), U)
    BY <2>3, <2>4, <2>5, <2>6, <2>7, <2>8
  <2> QED
    BY <2>1, <2>9
<1> HIDE DEF S
<1>3. \A s \in Seq(R) : s \in S
  BY <1>1, <1>2, SeqIsInductive
<1> QED
  BY <1>3 DEF S

(* The slices from the end of an image are the images of the slices.       *)
LEMMA ImageLastN ==
  ASSUME NEW R, NEW s \in Seq(R), NEW f, NEW n \in Nat
  PROVE  Image(LastN(s, n), f) = LastN(Image(s, f), n)
<1> DEFINE V == {f[x] : x \in R}
           t == Image(s, f)
           u == LastN(s, n)
<1>0. \A x \in R : f[x] \in V
  OBVIOUS
<1> HIDE DEF V
<1>1. \A r \in Seq(R) : /\ Image(r, f) \in Seq(V) /\ Len(Image(r, f)) = Len(r)
                        /\ \A i \in 1..Len(r) : Image(r, f)[i] = f[r[i]]
  BY <1>0, ImageType
<1>2. t \in Seq(V) /\ Len(t) = Len(s) /\ Len(s) \in Nat /\ \A i \in 1..Len(s) : t[i] = f[s[i]]
  BY <1>1, LenProperties
<1> HIDE DEF t
<1>3. CASE n = 0 \/ Len(s) <= n
  <2>1. u = s
    BY <1>3 DEF LastN
  <2>2. LastN(t, n) = t
    BY <1>2, <1>3 DEF LastN
  <2> QED
    BY <2>1, <2>2 DEF t
<1>4. CASE n > 0 /\ Len(s) > n
  <2>1. u \in Seq(R) /\ Len(u) = n /\ \A i \in 1..n : u[i] = s[Len(s) - n + i]
    BY <1>4, LastNType
  <2>2. Len(t) > n
    BY <1>2, <1>4
  <2>3. /\ LastN(t, n) \in Seq(V) /\ Len(LastN(t, n)) = n
        /\ \A i \in 1..n : LastN(t, n)[i] = t[Len(t) - n + i]
    BY <1>2, <1>4, <2>2, LastNType
  <2> HIDE DEF u
  <2>4. /\ Image(u, f) \in Seq(V) /\ Len(Image(u, f)) = n
        /\ \A i \in 1..n : Image(u, f)[i] = f[u[i]]
    BY <1>1, <2>1
  <2>5. \A i \in 1..n : Len(s) - n + i \in 1..Len(s)
    BY <1>2, <1>4
  <2>6. ASSUME NEW i \in 1..n PROVE Image(u, f)[i] = LastN(t, n)[i]
    <3> DEFINE j == Len(s) - n + i
    <3>1. Image(u, f)[i] = f[u[i]] /\ u[i] = s[j]
      BY <2>1, <2>4
    <3>2. j \in 1..Len(s) /\ LastN(t, n)[i] = t[j]
      BY <1>2, <2>3, <2>5
    <3> HIDE DEF j
    <3>3. t[j] = f[s[j]]
      BY <1>2, <3>2
    <3> QED
      BY <3>1, <3>2, <3>3
  <2>7. Image(u, f) = LastN(t, n)
    BY <2>3, <2>4, <2>6, SeqEqual
  <2> QED
    BY <2>7 DEF t, u
<1> QED
  BY <1>2, <1>3, <1>4

(* Without the value at its head, a list that has it once is its tail.     *)
LEMMA FilterTail ==
  ASSUME NEW R, NEW s \in Seq(R), s # <<>>, Distinct(s), NEW T,
         \A x \in R : x \in T <=> x # Head(s)
  PROVE  Filter(s, T) = Tail(s)
<1>1. /\ Tail(s) \in Seq(R) /\ Len(Tail(s)) = Len(s) - 1 /\ Head(s) = s[1] /\ Head(s) \in R
      /\ \A i \in 1..Len(Tail(s)) : Tail(s)[i] = s[i + 1]
      /\ Len(s) \in Nat /\ Len(s) > 0
  BY HeadTailProperties, LenProperties, EmptySeq
<1>2. \A i \in 1..Len(Tail(s)) : Tail(s)[i] \in T
  <2> SUFFICES ASSUME NEW i \in 1..Len(Tail(s)) PROVE s[i + 1] \in R /\ s[i + 1] # s[1]
    BY <1>1
  <2>1. i + 1 \in 1..Len(s) /\ 1 \in 1..Len(s) /\ i + 1 # 1
    BY <1>1
  <2> QED
    BY <2>1, ElementOfSeq DEF Distinct
<1>3. Filter(s, T) = Filter(Tail(s), T)
  BY <1>1, FilterHead
<1> QED
  BY <1>1, <1>2, <1>3, FilterAll

(* The end of a list that is longer is the end of its tail. *)
LEMMA LastNTail ==
  ASSUME NEW R, NEW s \in Seq(R), NEW n \in Nat \ {0}, Len(s) > n
  PROVE  LastN(Tail(s), n) = LastN(s, n)
<1>0. n \in Nat /\ n > 0
  OBVIOUS
<1>1. Len(s) \in Nat /\ s # <<>>
  BY LenProperties
<1> DEFINE t == Tail(s)
<1>2. /\ t \in Seq(R) /\ Len(t) = Len(s) - 1 /\ Len(t) \in Nat
      /\ \A i \in 1..Len(t) : t[i] = s[i + 1]
  BY <1>1, HeadTailProperties, LenProperties
<1> HIDE DEF t
<1>3. /\ LastN(s, n) \in Seq(R) /\ Len(LastN(s, n)) = n
      /\ \A i \in 1..n : LastN(s, n)[i] = s[Len(s) - n + i]
  BY LastNType
<1>4. /\ LastN(t, n) \in Seq(R) /\ Len(LastN(t, n)) = n
      /\ \A i \in 1..n : LastN(t, n)[i] = t[Len(s) - 1 - n + i]
  <2>1. CASE Len(t) > n
    <3>1. /\ LastN(t, n) \in Seq(R) /\ Len(LastN(t, n)) = n
          /\ \A i \in 1..n : LastN(t, n)[i] = t[Len(t) - n + i]
      BY <1>0, <1>2, <2>1, LastNType
    <3> QED
      BY <1>2, <3>1
  <2>2. CASE ~(Len(t) > n)
    <3>1. Len(t) = n
      BY <1>1, <1>2, <2>2
    <3>2. LastN(t, n) = t
      BY <3>1 DEF LastN
    <3>3. \A i \in 1..n : Len(s) - 1 - n + i = i
      BY <1>1, <1>2, <3>1
    <3> QED
      BY <1>2, <3>1, <3>2, <3>3
  <2> QED
    BY <2>1, <2>2
<1>5. \A i \in 1..n : LastN(t, n)[i] = LastN(s, n)[i]
  <2> SUFFICES ASSUME NEW i \in 1..n PROVE LastN(t, n)[i] = LastN(s, n)[i]
    OBVIOUS
  <2>1. Len(s) - 1 - n + i \in 1..Len(t) /\ Len(s) - 1 - n + i + 1 = Len(s) - n + i
    BY <1>1, <1>2
  <2> QED
    BY <1>2, <1>3, <1>4, <2>1
<1> QED
  BY <1>3, <1>4, <1>5, SeqEqual DEF t
=============================================================================
