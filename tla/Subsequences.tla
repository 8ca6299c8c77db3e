---------------------------- MODULE Subsequences ----------------------------
(***************************************************************************)
(* The part of a sequence that a filter keeps.  Written with ranks instead *)
(* of SelectSeq, whose recursion the provers cannot look into, and with    *)
(* the facts the proofs need of it.                                        *)
(***************************************************************************)
EXTENDS Integers, Sequences, FiniteSets, FiniteSetTheorems, TLAPS

\* How many positions of I are before i.
CountBefore(i, I) == Cardinality({j \in I : j < i})

\* The elements of s at the positions in I, in their order.
Picked(s, I) ==
    LET Nth(k) == CHOOSE i \in I : k = 1 + CountBefore(i, I)
    IN  [k \in 1 .. Cardinality(I) |-> s[Nth(k)]]

\* How many elements of S are below x in the relation R.
Rank(x, S, R) == Cardinality({y \in S : <<y, x>> \in R})

\* In a finite set with a strict total order every rank is taken.
LEMMA EveryRankIsTaken ==
    ASSUME NEW S, IsFiniteSet(S), NEW R,
           \A x \in S : <<x, x>> \notin R,
           \A x, y \in S : x # y => <<x, y>> \in R \/ <<y, x>> \in R,
           \A x, y, z \in S : <<x, y>> \in R /\ <<y, z>> \in R => <<x, z>> \in R,
           NEW k \in 1 .. Cardinality(S)
    PROVE  \E x \in S : k = 1 + Rank(x, S, R)
<1> DEFINE Below(x) == {y \in S : <<y, x>> \in R}
           rank == [x \in S |-> 1 + Cardinality(Below(x))]
           T == 1 .. Cardinality(S)
<1>1. Cardinality(S) \in Nat
    BY FS_CardinalityType
<1>2. \A x \in S : /\ IsFiniteSet(Below(x)) /\ Cardinality(Below(x)) \in Nat
                   /\ Cardinality(Below(x)) < Cardinality(S)
  <2> SUFFICES ASSUME NEW x \in S
               PROVE  /\ IsFiniteSet(Below(x)) /\ Cardinality(Below(x)) \in Nat
                      /\ Cardinality(Below(x)) < Cardinality(S)
      OBVIOUS
  <2>1. Below(x) \in SUBSET S /\ Below(x) # S
      OBVIOUS
  <2>2. IsFiniteSet(Below(x)) /\ Cardinality(Below(x)) <= Cardinality(S)
        /\ Cardinality(S) # Cardinality(Below(x))
      BY <2>1, FS_Subset
  <2>3. Cardinality(Below(x)) \in Nat
      BY <2>2, FS_CardinalityType
  <2> HIDE DEF Below
  <2> QED BY <1>1, <2>2, <2>3
<1>3. ASSUME NEW x \in S, NEW y \in S, <<x, y>> \in R
      PROVE  Cardinality(Below(x)) # Cardinality(Below(y))
  <2>1. Below(x) \in SUBSET Below(y) /\ x \in Below(y) /\ x \notin Below(x)
      BY <1>3
  <2>2. Cardinality(Below(y)) = Cardinality(Below(x)) => Below(y) = Below(x)
      BY <1>2, <2>1, FS_Subset
  <2> QED BY <2>1, <2>2
<1>4. rank \in [S -> T]
  <2> HIDE DEF Below
  <2> QED BY <1>1, <1>2
<1>5. \A x, y \in S : rank[x] = rank[y] => x = y
  <2> HIDE DEF Below
  <2> SUFFICES ASSUME NEW x \in S, NEW y \in S, rank[x] = rank[y], x # y PROVE FALSE
      OBVIOUS
  <2>1. Cardinality(Below(x)) = Cardinality(Below(y))
      BY <1>2
  <2> QED BY <1>3, <2>1
<1>6. rank \in Injection(S, T)
  <2> HIDE DEF rank
  <2> QED BY <1>4, <1>5 DEF Injection, IsInjective
<1>7. IsFiniteSet(T) /\ Cardinality(T) = Cardinality(S)
    BY <1>1, FS_Interval
<1>8. rank \in Surjection(S, T)
  <2> HIDE DEF rank, T
  <2> QED BY <1>6, <1>7, FS_Injection
<1>9. PICK x \in S : rank[x] = k
  <2> HIDE DEF rank
  <2> QED BY <1>8 DEF Surjection
<1> QED BY <1>9 DEF Rank

\* A filter keeps the elements at the positions in I, each once, in their order.
LEMMA PickedPositions ==
    ASSUME NEW T, NEW s \in Seq(T), NEW I \in SUBSET (1 .. Len(s))
    PROVE  /\ Cardinality(I) \in Nat /\ (Cardinality(I) = 0 <=> I = {})
           /\ Picked(s, I) \in Seq(T) /\ Len(Picked(s, I)) = Cardinality(I)
           /\ \E f \in [1 .. Cardinality(I) -> I] :
                /\ \A k \in 1 .. Cardinality(I) : Picked(s, I)[k] = s[f[k]]
                /\ \A k, l \in 1 .. Cardinality(I) : k < l => f[k] < f[l]
                /\ \A i \in I : \E k \in 1 .. Cardinality(I) : f[k] = i
<1> DEFINE Below(i) == {j \in I : j < i}
           Nth(k) == CHOOSE i \in I : k = 1 + CountBefore(i, I)
           R == {p \in I \X I : p[1] < p[2]}
           c == Cardinality(I)
<1>1. Len(s) \in Nat /\ \A i \in I : i \in Int /\ i \in 1 .. Len(s) /\ s[i] \in T
    OBVIOUS
<1>2. IsFiniteSet(I) /\ c \in Nat
  <2>1. IsFiniteSet(1 .. Len(s))
      BY <1>1, FS_Interval
  <2> QED BY <2>1, FS_Subset, FS_CardinalityType
<1>3. ASSUME NEW i \in I PROVE CountBefore(i, I) \in Nat /\ IsFiniteSet(Below(i)) /\ CountBefore(i, I) < c
  <2>1. Below(i) \in SUBSET I /\ i \notin Below(i) /\ CountBefore(i, I) = Cardinality(Below(i))
      BY <1>1 DEF CountBefore
  <2> HIDE DEF Below
  <2>2. IsFiniteSet(Below(i)) /\ CountBefore(i, I) <= c /\ (c = CountBefore(i, I) => I = Below(i))
      BY <1>2, <2>1, FS_Subset
  <2>3. CountBefore(i, I) \in Nat
      BY <2>1, <2>2, FS_CardinalityType
  <2> QED BY <1>2, <2>1, <2>2, <2>3
<1>4. ASSUME NEW i \in I, NEW j \in I, i < j PROVE CountBefore(i, I) < CountBefore(j, I)
  <2>1. /\ Below(i) \in SUBSET Below(j) /\ i \in Below(j) /\ i \notin Below(i)
        /\ CountBefore(i, I) = Cardinality(Below(i)) /\ CountBefore(j, I) = Cardinality(Below(j))
    <3>1. i \in Int /\ j \in Int /\ \A m \in I : m \in Int
        BY <1>1
    <3>2. \A m \in I : m < i => m < j
        BY <1>4, <3>1
    <3>3. ~(i < i)
        BY <3>1
    <3> QED BY <1>4, <3>2, <3>3 DEF CountBefore
  <2> HIDE DEF Below
  <2>2. CountBefore(i, I) <= CountBefore(j, I) /\ (CountBefore(j, I) = CountBefore(i, I) => Below(j) = Below(i))
      BY <1>3, <2>1, FS_Subset
  <2>3. CountBefore(i, I) \in Nat /\ CountBefore(j, I) \in Nat /\ CountBefore(i, I) # CountBefore(j, I)
      BY <1>3, <2>1, <2>2
  <2> QED BY <2>2, <2>3
<1>5. ASSUME NEW k \in 1 .. c PROVE Nth(k) \in I /\ k = 1 + CountBefore(Nth(k), I)
  <2>1. /\ \A x \in I : <<x, x>> \notin R
        /\ \A x, y \in I : x # y => <<x, y>> \in R \/ <<y, x>> \in R
        /\ \A x, y, z \in I : <<x, y>> \in R /\ <<y, z>> \in R => <<x, z>> \in R
      BY <1>1
  <2>2. \A i \in I : {j \in I : <<j, i>> \in R} = {j \in I : j < i}
      OBVIOUS
  <2> HIDE DEF R
  <2>3. PICK i \in I : k = 1 + Rank(i, I, R)
      BY <1>2, <2>1, EveryRankIsTaken
  <2>4. \E i2 \in I : k = 1 + CountBefore(i2, I)
      BY <2>2, <2>3 DEF Rank, CountBefore
  <2> QED BY <2>4
<1> DEFINE f == [k \in 1 .. c |-> Nth(k)]
<1>6. Picked(s, I) = [k \in 1 .. c |-> s[Nth(k)]]
    BY DEF Picked
<1> HIDE DEF Nth
<1>7. f \in [1 .. c -> I] /\ \A k \in 1 .. c : f[k] \in I /\ k = 1 + CountBefore(f[k], I)
    BY <1>5
<1>8. \A k \in 1 .. c : Picked(s, I)[k] = s[f[k]] /\ s[f[k]] \in T
    BY <1>1, <1>6, <1>7
<1>9. Picked(s, I) \in Seq(T) /\ Len(Picked(s, I)) = c
  <2> HIDE DEF f
  <2>1. Picked(s, I) \in [1 .. c -> T]
      BY <1>6, <1>8
  <2> HIDE DEF c
  <2> QED BY <1>2, <2>1
<1> HIDE DEF f, c
<1>10. ASSUME NEW k \in 1 .. c, NEW l \in 1 .. c, k < l PROVE f[k] < f[l]
  <2>1. f[k] \in I /\ f[l] \in I /\ k = 1 + CountBefore(f[k], I) /\ l = 1 + CountBefore(f[l], I)
      BY <1>7
  <2>2. CountBefore(f[k], I) \in Nat /\ CountBefore(f[l], I) \in Nat
      BY <1>3, <2>1
  <2>3. CountBefore(f[k], I) < CountBefore(f[l], I)
      BY <1>10, <2>1, <2>2
  <2> DEFINE a == f[k]
             b == f[l]
  <2>4. a \in I /\ b \in I /\ a \in Int /\ b \in Int
      BY <1>1, <2>1
  <2>5. a # b
      BY <2>2, <2>3
  <2>6. b < a => CountBefore(b, I) < CountBefore(a, I)
      BY <1>4, <2>4
  <2>7. ~(b < a)
      BY <2>2, <2>3, <2>6
  <2> HIDE DEF a, b
  <2>8. a < b
      BY <2>4, <2>5, <2>7
  <2> QED BY <2>8 DEF a, b
<1>11. ASSUME NEW i \in I PROVE \E k \in 1 .. c : f[k] = i
  <2> DEFINE k == 1 + CountBefore(i, I)
  <2>1. CountBefore(i, I) \in Nat /\ CountBefore(i, I) < c
      BY <1>3 DEF c
  <2>2. k \in 1 .. c
      BY <1>2, <2>1 DEF c
  <2>3. f[k] \in I /\ k = 1 + CountBefore(f[k], I)
      BY <1>7, <2>2
  <2>4. CountBefore(f[k], I) \in Nat
      BY <1>3, <2>3
  <2>5. CountBefore(f[k], I) = CountBefore(i, I)
      BY <2>1, <2>3, <2>4
  <2>6. f[k] = i
    <3> HIDE DEF k
    <3> DEFINE a == f[k]
    <3>1. a \in I /\ a \in Int /\ i \in Int
        BY <1>1, <2>3
    <3>2. a < i => CountBefore(a, I) < CountBefore(i, I)
        BY <1>4, <3>1
    <3>3. i < a => CountBefore(i, I) < CountBefore(a, I)
        BY <1>4, <3>1
    <3>4. ~(a < i) /\ ~(i < a)
        BY <2>1, <2>4, <2>5, <3>2, <3>3
    <3> HIDE DEF a
    <3>5. a = i
        BY <3>1, <3>4
    <3> QED BY <3>5 DEF a
  <2> QED BY <2>2, <2>6
<1>12. c = 0 <=> I = {}
    BY <1>2, FS_EmptySet DEF c
<1> QED BY <1>2, <1>7, <1>8, <1>9, <1>10, <1>11, <1>12 DEF c
=============================================================================
