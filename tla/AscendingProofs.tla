---------------------------- MODULE AscendingProofs ----------------------------
(***************************************************************************)
(* Ascending enumerates a finite set of integers without repetition and in *)
(* order, and is the only sequence that does.                              *)
(***************************************************************************)
EXTENDS Ascending, FiniteSetTheorems, FunctionTheorems, SequenceTheorems, TLAPS

LEMMA RankIncreases ==
  ASSUME NEW S \in SUBSET Int, IsFiniteSet(S), NEW x \in S
  PROVE  /\ Rank(S, x) \in 1..Cardinality(S)
         /\ \A y \in S : y < x => Rank(S, y) < Rank(S, x)
<1> DEFINE Below(z) == {y \in S : y <= z}
<1>1. \A z : /\ IsFiniteSet(Below(z))
             /\ Cardinality(Below(z)) \in Nat
             /\ Cardinality(Below(z)) <= Cardinality(S)
  <2> SUFFICES ASSUME NEW z
               PROVE  /\ IsFiniteSet(Below(z))
                      /\ Cardinality(Below(z)) \in Nat
                      /\ Cardinality(Below(z)) <= Cardinality(S)
    OBVIOUS
  <2> Below(z) \in SUBSET S
    OBVIOUS
  <2> QED BY FS_Subset, FS_CardinalityType
<1>2. Cardinality(S) \in Nat
  BY FS_CardinalityType
<1>3. Rank(S, x) # 0
  <2>1. x \in Below(x)
    BY SMT
  <2> QED BY <2>1, <1>1, FS_EmptySet DEF Rank
<1>4. ASSUME NEW y \in S, y < x PROVE Rank(S, y) < Rank(S, x)
  <2>1. x \in Int /\ y \in Int
    OBVIOUS
  <2>2. \A z \in S : z <= y => z <= x
    BY <1>4, <2>1
  <2>3. x \notin Below(y) /\ x \in Below(x)
    BY <1>4, <2>1
  <2>4. Below(y) \in SUBSET Below(x) /\ Below(y) # Below(x)
    BY <2>2, <2>3, Zenon
  <2>5. /\ Cardinality(Below(y)) <= Cardinality(Below(x))
        /\ Cardinality(Below(y)) # Cardinality(Below(x))
    BY <2>4, <1>1, FS_Subset
  <2> QED BY <2>5, <1>1 DEF Rank
<1> QED BY <1>1, <1>2, <1>3, <1>4 DEF Rank

(* Ascending(S) is a bijection from 1..Cardinality(S) that keeps the order, *)
(* and the position of an element is its rank.                              *)
LEMMA AscendingEnumerates ==
  ASSUME NEW S \in SUBSET Int, IsFiniteSet(S)
  PROVE  /\ Cardinality(S) \in Nat
         /\ Ascending(S) \in [1..Cardinality(S) -> S]
         /\ \A x \in S : \E n \in 1..Cardinality(S) : Ascending(S)[n] = x
         /\ \A m, n \in 1..Cardinality(S) : m < n => Ascending(S)[m] < Ascending(S)[n]
<1> DEFINE f == [x \in S |-> Rank(S, x)]
           T == 1..Cardinality(S)
<1>0. Cardinality(S) \in Nat
  BY FS_CardinalityType
<1>1. f \in [S -> T]
  BY RankIncreases
<1>2. ASSUME NEW a \in S, NEW b \in S, f[a] = f[b] PROVE a = b
  <2>1. ~(a < b) /\ ~(b < a)
    BY <1>2, RankIncreases, <1>0
  <2> QED BY <2>1
<1>3. f \in Injection(S, T)
  BY <1>1, <1>2, Fun_IsInj
<1>4. IsFiniteSet(T) /\ Cardinality(T) = Cardinality(S)
  BY <1>0, FS_Interval
<1>5. f \in Surjection(S, T)
  BY <1>3, <1>4, FS_Injection
<1>6. \A n \in T : \E x \in S : f[x] = n
  BY <1>5 DEF Surjection
<1>7. \A n \in T : \E x \in S : Rank(S, x) = n
  BY <1>6
<1>8. ASSUME NEW n \in T
      PROVE  Ascending(S)[n] \in S /\ Rank(S, Ascending(S)[n]) = n
  BY <1>7 DEF Ascending
<1>9. ASSUME NEW x \in S PROVE \E n \in T : Ascending(S)[n] = x
  <2>1. f[x] \in T
    BY <1>1
  <2>2. f[Ascending(S)[f[x]]] = f[x]
    BY <2>1, <1>8
  <2> QED BY <2>1, <2>2, <1>8, <1>2
<1>10. ASSUME NEW m \in T, NEW n \in T, m < n
       PROVE  Ascending(S)[m] < Ascending(S)[n]
  <2> DEFINE a == Ascending(S)[m]
             b == Ascending(S)[n]
  <2>1. a \in S /\ b \in S /\ Rank(S, a) = m /\ Rank(S, b) = n
    BY <1>8
  <2> HIDE DEF a, b
  <2>2. ~(b < a) /\ a # b
    BY <2>1, <1>10, <1>0, RankIncreases
  <2>3. a \in Int /\ b \in Int
    BY <2>1
  <2>4. a < b
    BY <2>2, <2>3
  <2> QED BY <2>4 DEF a, b
<1>11. Ascending(S) \in [T -> S]
  BY <1>8 DEF Ascending
<1> QED BY <1>0, <1>9, <1>10, <1>11

(* A sequence that runs through S in increasing order is Ascending(S). *)
LEMMA AscendingIs ==
  ASSUME NEW S \in SUBSET Int, NEW n \in Nat, NEW g \in [1..n -> S],
         \A i, j \in 1..n : i < j => g[i] < g[j],
         \A x \in S : \E i \in 1..n : g[i] = x
  PROVE  IsFiniteSet(S) /\ Cardinality(S) = n /\ Ascending(S) = g
<1>0. ASSUME NEW i \in 1..n PROVE g[i] \in S /\ g[i] \in Int
  <2>1. g[i] \in S
    OBVIOUS
  <2> QED BY <2>1
<1>1. ASSUME NEW i \in 1..n, NEW j \in 1..n, g[i] <= g[j] PROVE i <= j
  BY <1>0, <1>1
<1>2. ASSUME NEW i \in 1..n, NEW j \in 1..n, g[i] = g[j] PROVE i = j
  BY <1>0, <1>1, <1>2
<1>3. g \in Bijection(1..n, S)
  BY <1>2, Fun_IsBij
<1>4. IsFiniteSet(S) /\ Cardinality(S) = n
  <2>1. ExistsBijection(1..n, S)
    BY <1>3, Fun_ExistsBij
  <2> QED BY <2>1, FS_CountingElements, FS_NatBijection
<1>5. ASSUME NEW i \in 1..n PROVE Rank(S, g[i]) = i
  <2> DEFINE B == {y \in S : y <= g[i]}
             h == [k \in 1..i |-> g[k]]
  <2>1. ASSUME NEW k \in 1..i PROVE g[k] \in B
    <3>1. k \in 1..n /\ (k = i \/ k < i)
      OBVIOUS
    <3> QED BY <3>1, <1>0
  <2>2. ASSUME NEW y \in B PROVE \E k \in 1..i : h[k] = y
    <3>1. PICK k \in 1..n : g[k] = y
      OBVIOUS
    <3>2. g[k] <= g[i]
      BY <3>1
    <3>3. k \in 1..i
      BY <3>1, <3>2, <1>1
    <3> QED BY <3>1, <3>3
  <2>3. h \in [1..i -> B]
    BY <2>1
  <2>4. ASSUME NEW a \in 1..i, NEW b \in 1..i, h[a] = h[b] PROVE a = b
    BY <2>4, <1>2
  <2>5. h \in Bijection(1..i, B)
    BY <2>2, <2>3, <2>4, Fun_IsBij
  <2>6. ExistsBijection(1..i, B)
    BY <2>5, Fun_ExistsBij
  <2>7. i \in Nat
    OBVIOUS
  <2> QED BY <2>6, <2>7, FS_CountingElements DEF Rank
<1>6. ASSUME NEW i \in 1..n PROVE Ascending(S)[i] = g[i]
  <2>1. \A x \in S : Rank(S, x) = i => x = g[i]
    BY <1>5
  <2>2. g[i] \in S /\ Rank(S, g[i]) = i
    BY <1>5
  <2>3. (CHOOSE x \in S : Rank(S, x) = i) = g[i]
    BY <2>1, <2>2
  <2> QED BY <2>3, <1>4 DEF Ascending
<1> QED BY <1>4, <1>6 DEF Ascending

(* What is selected comes from the sequence. *)
LEMMA SelectType ==
  ASSUME NEW T, NEW seq \in Seq(T), NEW S \in SUBSET (1..Len(seq))
  PROVE  /\ IsFiniteSet(S) /\ Cardinality(S) \in Nat
         /\ Select(seq, S) \in Seq(T)
         /\ Len(Select(seq, S)) = Cardinality(S)
         /\ \A n \in 1..Cardinality(S) : Ascending(S)[n] \in S
         /\ \A n \in 1..Cardinality(S) : Select(seq, S)[n] = seq[Ascending(S)[n]]
<1>1. IsFiniteSet(1..Len(seq)) /\ S \in SUBSET Int
  BY FS_Interval
<1>2. IsFiniteSet(S)
  BY <1>1, FS_Subset
<1>3. Cardinality(S) \in Nat /\ Ascending(S) \in [1..Cardinality(S) -> S]
  BY <1>1, <1>2, AscendingEnumerates
<1>4. \A n \in 1..Cardinality(S) : Ascending(S)[n] \in S
  BY <1>3
<1>5. ASSUME NEW n \in 1..Cardinality(S) PROVE seq[Ascending(S)[n]] \in T
  <2>1. Ascending(S)[n] \in 1..Len(seq)
    BY <1>4
  <2> HIDE DEF Ascending
  <2> QED BY <2>1, ElementOfSeq
<1> HIDE DEF Ascending
<1> QED BY <1>2, <1>3, <1>4, <1>5 DEF Select
=============================================================================
