-------------------------- MODULE Positions_proofs --------------------------
(* Ascending lists a finite set of numbers, each once, the lower one first; so *)
(* At keeps the elements of the positions it is given, and their order.        *)
EXTENDS Positions, FiniteSetTheorems, TLAPS

\* The numbers below one of S are fewer than those of S, and grow with it.
LEMMA RankType ==
  ASSUME NEW S \in SUBSET Nat, IsFiniteSet(S), NEW n \in S
  PROVE  /\ Rank(S, n) \in 0..(Cardinality(S) - 1)
         /\ Cardinality(S) \in Nat
<1> DEFINE B == {m \in S : m < n}
<1>1. IsFiniteSet(B) /\ Cardinality(B) <= Cardinality(S) /\ (Cardinality(S) = Cardinality(B) => S = B)
  BY FS_Subset, B \in SUBSET S
<1>2. n \notin B OBVIOUS
<1>3. Cardinality(B) \in Nat /\ Cardinality(S) \in Nat BY <1>1, FS_CardinalityType
<1> QED BY <1>1, <1>2, <1>3 DEF Rank

LEMMA RankGrows ==
  ASSUME NEW S \in SUBSET Nat, IsFiniteSet(S), NEW m \in S, NEW n \in S, m < n
  PROVE  Rank(S, m) < Rank(S, n)
<1> DEFINE B(x) == {y \in S : y < x}
<1>1. IsFiniteSet(B(n)) BY FS_Subset, B(n) \in SUBSET S
<1>2. B(m) \in SUBSET B(n) /\ m \in B(n) /\ m \notin B(m)
  <2>1. \A y \in S : y < m => y < n OBVIOUS
  <2>2. m \in S /\ ~(m < m) OBVIOUS
  <2> QED BY <2>1, <2>2
<1>3. Cardinality(B(m)) <= Cardinality(B(n)) /\ (Cardinality(B(n)) = Cardinality(B(m)) => B(n) = B(m))
  BY <1>1, <1>2, FS_Subset
<1>4. Cardinality(B(m)) \in Nat /\ Cardinality(B(n)) \in Nat
  BY <1>1, <1>2, FS_Subset, FS_CardinalityType
<1> QED BY <1>2, <1>3, <1>4 DEF Rank

\* Every rank is somebody's: ranks are an injection into as many numbers.
LEMMA RankTaken ==
  ASSUME NEW S \in SUBSET Nat, IsFiniteSet(S), NEW i \in 1..Cardinality(S)
  PROVE  \E n \in S : Rank(S, n) = i - 1
<1> DEFINE K == Cardinality(S)
           T == 0..(K - 1)
           f == [n \in S |-> Rank(S, n)]
<1>1. K \in Nat BY FS_CardinalityType
<1>2. IsFiniteSet(T) /\ Cardinality(T) = K
  <2>1. 0 \in Int /\ K - 1 \in Int BY <1>1
  <2>2. IsFiniteSet(0..(K - 1)) /\ Cardinality(0..(K - 1)) = IF 0 > K - 1 THEN 0 ELSE (K - 1) - 0 + 1
    BY <2>1, FS_Interval
  <2> QED BY <1>1, <2>2
<1>3. f \in Injection(S, T)
  <2>1. f \in [S -> T] BY RankType
  <2>2. \A m, n \in S : f[m] = f[n] => m = n
    <3> SUFFICES ASSUME NEW m \in S, NEW n \in S, m # n PROVE f[m] # f[n] OBVIOUS
    <3>1. f[m] \in Nat /\ f[n] \in Nat BY RankType
    <3>2. CASE m < n BY <3>1, <3>2, RankGrows
    <3>3. CASE n < m BY <3>1, <3>3, RankGrows
    <3> QED BY <3>2, <3>3
  <2> QED BY <2>1, <2>2 DEF Injection, IsInjective
<1>4. f \in Surjection(S, T) BY <1>2, <1>3, FS_Injection
<1>5. i - 1 \in T BY <1>1
<1> QED BY <1>4, <1>5 DEF Surjection

\* What Ascending lists.
THEOREM AscendingLists ==
  ASSUME NEW S \in SUBSET Nat, IsFiniteSet(S)
  PROVE  /\ Cardinality(S) \in Nat
         /\ Ascending(S) \in [1..Cardinality(S) -> S]
         /\ \A i, j \in 1..Cardinality(S) : i < j => Ascending(S)[i] < Ascending(S)[j]
         /\ \A n \in S : \E i \in 1..Cardinality(S) : Ascending(S)[i] = n
<1> DEFINE K == Cardinality(S)
           a == Ascending(S)
<1>1. K \in Nat BY FS_CardinalityType
<1>2. \A i \in 1..K : a[i] \in S /\ Rank(S, a[i]) = i - 1
  <2> SUFFICES ASSUME NEW i \in 1..K PROVE a[i] \in S /\ Rank(S, a[i]) = i - 1 OBVIOUS
  <2>1. \E n \in S : Rank(S, n) = i - 1 BY RankTaken
  <2>2. a[i] = CHOOSE n \in S : Rank(S, n) = i - 1 BY DEF Ascending
  <2> QED BY <2>1, <2>2
<1>3. a \in [1..K -> S] BY <1>2 DEF Ascending
<1>4. \A i, j \in 1..K : i < j => a[i] < a[j]
  <2> SUFFICES ASSUME NEW i \in 1..K, NEW j \in 1..K, i < j PROVE a[i] < a[j] OBVIOUS
  <2> DEFINE m == a[i]
             n == a[j]
  <2>1. m \in S /\ n \in S /\ Rank(S, m) = i - 1 /\ Rank(S, n) = j - 1 BY <1>2
  <2> HIDE DEF m, n
  <2>2. Rank(S, m) < Rank(S, n) BY <2>1, <1>1
  <2>3. m # n /\ Rank(S, m) \in Nat /\ Rank(S, n) \in Nat BY <2>1, <2>2, <1>1
  <2>4. ~(n < m)
    <3> SUFFICES ASSUME n < m PROVE FALSE OBVIOUS
    <3>1. Rank(S, n) < Rank(S, m) BY <2>1, RankGrows
    <3> QED BY <2>2, <2>3, <3>1
  <2>5. m \in Nat /\ n \in Nat BY <2>1
  <2>6. m < n BY <2>3, <2>4, <2>5
  <2> QED BY <2>6 DEF m, n
<1>5. \A n \in S : \E i \in 1..K : a[i] = n
  <2> SUFFICES ASSUME NEW n \in S PROVE \E i \in 1..K : a[i] = n OBVIOUS
  <2> DEFINE i == Rank(S, n) + 1
             m == a[i]
  <2>1. i \in 1..K /\ i - 1 = Rank(S, n) BY <1>1, RankType
  <2> HIDE DEF i
  <2>2. m \in S /\ Rank(S, m) = Rank(S, n) BY <1>2, <2>1
  <2> HIDE DEF m
  <2>3. Rank(S, n) \in Nat BY RankType
  <2>4. ~(m < n)
    <3> SUFFICES ASSUME m < n PROVE FALSE OBVIOUS
    <3> QED BY <2>2, <2>3, RankGrows
  <2>5. ~(n < m)
    <3> SUFFICES ASSUME n < m PROVE FALSE OBVIOUS
    <3> QED BY <2>2, <2>3, RankGrows
  <2>6. m \in Nat /\ n \in Nat BY <2>2
  <2>7. m = n BY <2>4, <2>5, <2>6
  <2> QED BY <2>1, <2>7 DEF m
<1> QED BY <1>1, <1>3, <1>4, <1>5

\* What At keeps.
THEOREM AtKeeps ==
  ASSUME NEW T, NEW q \in Seq(T), NEW S \in SUBSET (DOMAIN q)
  PROVE  /\ At(q, S) \in Seq(T)
         /\ \E a \in [DOMAIN At(q, S) -> S] :
              /\ \A i \in DOMAIN At(q, S) : At(q, S)[i] = q[a[i]]
              /\ \A i, j \in DOMAIN At(q, S) : i < j => a[i] < a[j]
              /\ \A n \in S : \E i \in DOMAIN At(q, S) : a[i] = n
<1>1. DOMAIN q = 1..Len(q) /\ Len(q) \in Nat OBVIOUS
<1>2. S \in SUBSET Nat BY <1>1
<1>3. IsFiniteSet(S)
  <2>1. IsFiniteSet(1..Len(q)) BY <1>1, FS_Interval
  <2> QED BY <1>1, <2>1, FS_Subset
<1>4. /\ Cardinality(S) \in Nat
      /\ Ascending(S) \in [1..Cardinality(S) -> S]
      /\ \A i, j \in 1..Cardinality(S) : i < j => Ascending(S)[i] < Ascending(S)[j]
      /\ \A n \in S : \E i \in 1..Cardinality(S) : Ascending(S)[i] = n
  BY <1>2, <1>3, AscendingLists
<1>5. At(q, S) \in [1..Cardinality(S) -> T] BY <1>4 DEF At
<1>6. At(q, S) \in Seq(T) BY <1>4, <1>5
<1>7. /\ DOMAIN At(q, S) = 1..Cardinality(S)
      /\ \A i \in DOMAIN At(q, S) : At(q, S)[i] = q[Ascending(S)[i]]
  BY DEF At
<1>8. /\ Ascending(S) \in [DOMAIN At(q, S) -> S]
      /\ \A i, j \in DOMAIN At(q, S) : i < j => Ascending(S)[i] < Ascending(S)[j]
      /\ \A n \in S : \E i \in DOMAIN At(q, S) : Ascending(S)[i] = n
  BY <1>4, <1>7
<1> QED BY <1>6, <1>7, <1>8, Zenon

=============================================================================
