------------------------- MODULE SubsequencesProofs -------------------------
(***************************************************************************)
(* Facts about ranks and subsequences, for any finite set of positions and *)
(* any sequence.  They replace induction over sequences in the proofs that *)
(* cite them.                                                              *)
(***************************************************************************)
EXTENDS Subsequences, FiniteSetTheorems, FunctionTheorems, WellFoundedInduction, TLAPS

(* A non-empty set of naturals has a least element.                        *)
LEMMA LeastUnder ==
    ASSUME NEW R, IsWellFoundedOn(R, Nat),
           \A x, y \in Nat : y < x => <<y, x>> \in R,
           NEW T \in SUBSET Nat, T # {}
    PROVE  \E x \in T : \A y \in T : x <= y
<1>1. PICK x \in T : \A y \in T : ~(<<y, x>> \in R)
  BY WFMin
<1>2. ASSUME NEW y \in T PROVE x <= y
  <2>1. x \in Nat /\ y \in Nat
    OBVIOUS
  <2>2. ~(<<y, x>> \in R)
    BY <1>1
  <2>3. ~(y < x)
    BY <2>1, <2>2, Zenon
  <2> QED BY <2>1, <2>3
<1> QED BY <1>2

(* Every set of naturals that is not empty has a least element.            *)
LEMMA LeastNatural ==
    \A T \in SUBSET Nat : T # {} => \E x \in T : \A y \in T : x <= y
<1> DEFINE R == OpToRel(<, Nat)
<1>1. IsWellFoundedOn(R, Nat)
  BY NatLessThanWellFounded
<1>2. \A x, y \in Nat : y < x => <<y, x>> \in R
  BY DEF OpToRel
<1> HIDE DEF R
<1> QED BY <1>1, <1>2, LeastUnder, Zenon

(* A loop over 1 .. n that makes a new state of each old one has a run: a  *)
(* function that is defined by recursion on the steps exists.              *)
LEMMA RunsExist ==
    ASSUME NEW V, NEW first \in V, NEW n \in Nat, NEW step \in [1 .. n -> [V -> V]]
    PROVE  \E f \in [0 .. n -> V] :
              f[0] = first /\ \A i \in 1 .. n : f[i] = step[i][f[i - 1]]
<1> DEFINE Run(f, m) == /\ f \in [0 .. m -> V]
                        /\ f[0] = first
                        /\ \A i \in 1 .. m : f[i] = step[i][f[i - 1]]
           T == {m \in 0 .. n : ~\E f : Run(f, m)}
<1>1. Run([i \in 0 .. 0 |-> first], 0)
  OBVIOUS
<1>2. ASSUME NEW m \in 1 .. n, NEW f, Run(f, m - 1) PROVE \E g : Run(g, m)
  <2> DEFINE g == [i \in 0 .. m |-> IF i = m THEN step[m][f[m - 1]] ELSE f[i]]
  <2>1. f[m - 1] \in V
    BY <1>2
  <2>2. step[m][f[m - 1]] \in V
    BY <2>1
  <2>3. g \in [0 .. m -> V] /\ g[0] = first
    BY <1>2, <2>2
  <2>4. ASSUME NEW i \in 1 .. m PROVE g[i] = step[i][g[i - 1]]
    <3>1. g[i - 1] = f[i - 1]
      OBVIOUS
    <3>2. CASE i = m
      BY <3>1, <3>2
    <3>3. CASE i # m
      BY <1>2, <3>1, <3>3
    <3> QED BY <3>2, <3>3
  <2> QED BY <2>3, <2>4
<1>3. T = {}
  <2> SUFFICES ASSUME T # {} PROVE FALSE
    OBVIOUS
  <2>1. T \in SUBSET Nat
    OBVIOUS
  <2>2. PICK m \in T : \A k \in T : m <= k
    <3> HIDE DEF T
    <3> QED BY <2>1, LeastNatural
  <2>3. m # 0 /\ m \in 0 .. n
    BY <1>1
  <2>4. m - 1 \in 0 .. n /\ m \in 1 .. n /\ ~(m <= m - 1)
    BY <2>3
  <2>5. PICK f : Run(f, m - 1)
    <3>1. m - 1 \notin T
      <4> HIDE DEF T
      <4> QED BY <2>2, <2>4
    <3> HIDE DEF Run
    <3> QED BY <2>4, <3>1
  <2> HIDE DEF Run
  <2>6. \E g : Run(g, m)
    BY <1>2, <2>4, <2>5
  <2> QED BY <2>2, <2>6
<1>4. \E f : Run(f, n)
  <2>1. n \in 0 .. n
    OBVIOUS
  <2> HIDE DEF Run
  <2> QED BY <1>3, <2>1
<1> QED BY <1>4

(* A strict total order, given by what is below each element; and what it  *)
(* is to be numbered by how many elements are below.                       *)
Ordering(S, below) ==
    /\ below \in [S -> SUBSET S]
    /\ \A a \in S : a \notin below[a]
    /\ \A a, b \in S : a # b => a \in below[b] \/ b \in below[a]
    /\ \A a, b, c \in S : a \in below[b] /\ b \in below[c] => a \in below[c]

Numbered(S, below) ==
    /\ Cardinality(S) \in Nat
    /\ \A a \in S : Cardinality(below[a]) \in 0 .. Cardinality(S) - 1
    /\ \A a, c \in S : a \in below[c] => Cardinality(below[a]) < Cardinality(below[c])
    /\ \A n \in 0 .. Cardinality(S) - 1 : \E a \in S : Cardinality(below[a]) = n

(* The elements of a finite set in a strict total order are numbered from  *)
(* 0 by how many of the others come before them.                           *)
LEMMA RanksAreNumbers ==
    ASSUME NEW S, IsFiniteSet(S), NEW below, Ordering(S, below)
    PROVE  Numbered(S, below)
<1> DEFINE rank == [a \in S |-> Cardinality(below[a])]
           T == 0 .. Cardinality(S) - 1
<1>0. /\ \A a \in S : below[a] \in SUBSET S /\ a \notin below[a]
      /\ \A a, b \in S : a # b => a \in below[b] \/ b \in below[a]
      /\ \A a, b, c \in S : a \in below[b] /\ b \in below[c] => a \in below[c]
  BY DEF Ordering
<1>1. Cardinality(S) \in Nat
  BY FS_CardinalityType
<1>2. ASSUME NEW a \in S, NEW c \in S, a \in below[c]
      PROVE  Cardinality(below[a]) < Cardinality(below[c])
  <2>1. IsFiniteSet(below[c]) /\ IsFiniteSet(below[a])
    BY <1>0, FS_Subset
  <2>2. below[a] \in SUBSET below[c] /\ a \notin below[a]
    <3> SUFFICES ASSUME NEW b \in below[a] PROVE b \in below[c]
      BY <1>0
    <3>1. b \in S
      BY <1>0
    <3> QED BY <1>0, <1>2, <3>1
  <2>3. Cardinality(below[a]) <= Cardinality(below[c])
        /\ Cardinality(below[a]) # Cardinality(below[c])
    BY <1>2, <2>1, <2>2, FS_Subset
  <2>4. Cardinality(below[a]) \in Nat /\ Cardinality(below[c]) \in Nat
    BY <2>1, FS_CardinalityType
  <2> QED BY <2>3, <2>4
<1>3. ASSUME NEW a \in S PROVE Cardinality(below[a]) \in T
  <2>1. IsFiniteSet(below[a]) /\ Cardinality(below[a]) <= Cardinality(S)
        /\ (Cardinality(S) = Cardinality(below[a]) => S = below[a])
    BY <1>0, FS_Subset
  <2>2. Cardinality(below[a]) \in Nat
    BY <2>1, FS_CardinalityType
  <2>3. S # below[a]
    BY <1>0
  <2> QED BY <1>1, <2>1, <2>2, <2>3
<1>4. rank \in [S -> T]
  <2> HIDE DEF T
  <2> QED BY <1>3
<1>5. \A a, c \in S : rank[a] = rank[c] => a = c
  <2> SUFFICES ASSUME NEW a \in S, NEW c \in S, a # c PROVE rank[a] # rank[c]
    OBVIOUS
  <2>1. Cardinality(below[a]) \in Int /\ Cardinality(below[c]) \in Int
    BY <1>3
  <2>2. \/ Cardinality(below[a]) < Cardinality(below[c])
        \/ Cardinality(below[c]) < Cardinality(below[a])
    BY <1>0, <1>2
  <2> QED BY <2>1, <2>2
<1>6. rank \in Injection(S, T)
  <2> HIDE DEF rank, T
  <2> QED BY <1>4, <1>5 DEF Injection, IsInjective
<1>7. IsFiniteSet(T) /\ Cardinality(T) = Cardinality(S)
  <2>1. 0 \in Int /\ Cardinality(S) - 1 \in Int
    BY <1>1
  <2> QED BY <1>1, <2>1, FS_Interval
<1>8. rank \in Surjection(S, T)
  <2> HIDE DEF rank, T
  <2> QED BY <1>6, <1>7, FS_Injection
<1>9. \A n \in T : \E a \in S : rank[a] = n
  <2> HIDE DEF rank, T
  <2> QED BY <1>8 DEF Surjection
<1> QED BY <1>1, <1>2, <1>3, <1>9 DEF Numbered

(* The positions of a set are numbered by their rank.                      *)
LEMMA RankFacts ==
    ASSUME NEW S \in SUBSET Int, IsFiniteSet(S)
    PROVE  /\ Cardinality(S) \in Nat
           /\ \A i \in S : Rank(S, i) \in 0 .. Cardinality(S) - 1
           /\ \A i, j \in S : i < j => Rank(S, i) < Rank(S, j)
           /\ \A n \in 0 .. Cardinality(S) - 1 : \E i \in S : Rank(S, i) = n
<1> DEFINE below == [i \in S |-> {j \in S : j < i}]
<1>1. below \in [S -> SUBSET S] /\ \A a, b \in S : a \in below[b] <=> a < b
  OBVIOUS
<1>2. \A i \in S : Rank(S, i) = Cardinality(below[i])
  BY DEF Rank
<1> HIDE DEF below
<1>3. Ordering(S, below)
  <2>1. \A a \in S : a \in Int
    OBVIOUS
  <2> QED BY <1>1, <2>1 DEF Ordering
<1>4. Numbered(S, below)
  BY <1>3, RanksAreNumbers
<1> QED BY <1>1, <1>2, <1>4 DEF Numbered

(* Nth enumerates a set of positions from the first to the last.           *)
LEMMA NthFacts ==
    ASSUME NEW S \in SUBSET Int, IsFiniteSet(S)
    PROVE  /\ Cardinality(S) \in Nat
           /\ \A k \in 1 .. Cardinality(S) : Nth(S, k) \in S /\ Rank(S, Nth(S, k)) = k - 1
           /\ \A k, l \in 1 .. Cardinality(S) : k < l => Nth(S, k) < Nth(S, l)
           /\ \A i \in S : \E k \in 1 .. Cardinality(S) : Nth(S, k) = i
<1>1. Cardinality(S) \in Nat
  BY RankFacts
<1>2. ASSUME NEW k \in 1 .. Cardinality(S)
      PROVE  Nth(S, k) \in S /\ Rank(S, Nth(S, k)) = k - 1
  <2>1. k - 1 \in 0 .. Cardinality(S) - 1
    BY <1>1
  <2>2. \E i \in S : Rank(S, i) = k - 1
    BY <2>1, RankFacts
  <2> QED BY <2>2 DEF Nth
<1>3. \A i, j \in S : Rank(S, i) = Rank(S, j) => i = j
  <2> SUFFICES ASSUME NEW i \in S, NEW j \in S, i # j PROVE Rank(S, i) # Rank(S, j)
    OBVIOUS
  <2>1. Rank(S, i) \in Int /\ Rank(S, j) \in Int
    BY RankFacts
  <2>2. i < j \/ j < i
    OBVIOUS
  <2>3. Rank(S, i) < Rank(S, j) \/ Rank(S, j) < Rank(S, i)
    BY <2>2, RankFacts
  <2> QED BY <2>1, <2>3
<1>4. ASSUME NEW k \in 1 .. Cardinality(S), NEW l \in 1 .. Cardinality(S), k < l
      PROVE  Nth(S, k) < Nth(S, l)
  <2>1. Nth(S, k) \in Int /\ Nth(S, l) \in Int
    BY <1>2
  <2>2. Rank(S, Nth(S, k)) < Rank(S, Nth(S, l))
    BY <1>2, <1>4
  <2>3. Rank(S, Nth(S, k)) \in Int /\ Rank(S, Nth(S, l)) \in Int
    BY <1>2
  <2>4. CASE Nth(S, l) < Nth(S, k)
    <3>1. Rank(S, Nth(S, l)) < Rank(S, Nth(S, k))
      BY <1>2, <2>4, RankFacts
    <3> QED BY <2>2, <2>3, <3>1
  <2>5. CASE Nth(S, l) = Nth(S, k)
    BY <2>2, <2>3, <2>5
  <2> QED BY <2>1, <2>4, <2>5
<1>5. ASSUME NEW i \in S PROVE \E k \in 1 .. Cardinality(S) : Nth(S, k) = i
  <2>1. Rank(S, i) \in 0 .. Cardinality(S) - 1
    BY RankFacts
  <2>2. Rank(S, i) + 1 \in 1 .. Cardinality(S) /\ (Rank(S, i) + 1) - 1 = Rank(S, i)
    BY <1>1, <2>1
  <2>3. Nth(S, Rank(S, i) + 1) \in S
        /\ Rank(S, Nth(S, Rank(S, i) + 1)) = Rank(S, i)
    BY <1>2, <2>2
  <2> QED BY <1>3, <2>2, <2>3
<1> QED BY <1>1, <1>2, <1>4, <1>5

(* There is no other way to enumerate it from the first to the last.       *)
LEMMA NthIsTheEnumeration ==
    ASSUME NEW S \in SUBSET Int, NEW n \in Nat, NEW f \in [1 .. n -> S],
           \A k, l \in 1 .. n : k < l => f[k] < f[l],
           \A i \in S : \E k \in 1 .. n : f[k] = i
    PROVE  /\ IsFiniteSet(S) /\ Cardinality(S) = n
           /\ \A k \in 1 .. n : f[k] = Nth(S, k)
<1>1. \A k \in 1 .. n : f[k] \in Int
  OBVIOUS
<1>2. \A k, l \in 1 .. n : f[k] = f[l] => k = l
  <2> SUFFICES ASSUME NEW k \in 1 .. n, NEW l \in 1 .. n, k # l PROVE f[k] # f[l]
    OBVIOUS
  <2>1. f[k] < f[l] \/ f[l] < f[k]
    OBVIOUS
  <2> QED BY <1>1, <2>1
<1>3. f \in Bijection(1 .. n, S)
  BY <1>2 DEF Bijection, Injection, Surjection, IsInjective
<1>4. IsFiniteSet(1 .. n) /\ Cardinality(1 .. n) = n
  BY FS_Interval
<1>5. IsFiniteSet(S) /\ Cardinality(S) = n
  BY <1>3, <1>4, FS_Bijection DEF ExistsBijection
<1>6. ASSUME NEW k \in 1 .. n PROVE Rank(S, f[k]) = k - 1
  <2> DEFINE B == {j \in S : j < f[k]}
             g == [l \in 1 .. k - 1 |-> f[l]]
  <2>1. g \in [1 .. k - 1 -> B]
    OBVIOUS
  <2>2. \A l, m \in 1 .. k - 1 : g[l] = g[m] => l = m
    BY <1>2
  <2>3. \A i \in B : \E l \in 1 .. k - 1 : g[l] = i
    <3> SUFFICES ASSUME NEW i \in B PROVE \E l \in 1 .. k - 1 : f[l] = i
      OBVIOUS
    <3>1. PICK l \in 1 .. n : f[l] = i
      OBVIOUS
    <3>2. l < k
      <4>1. ~(k < l) /\ l # k
        BY <1>1, <3>1
      <4> QED BY <4>1
    <3> QED BY <3>1, <3>2
  <2>4. g \in Bijection(1 .. k - 1, B)
    <3> HIDE DEF g, B
    <3>1. DOMAIN g = 1 .. k - 1
      BY <2>1
    <3> QED BY <2>1, <2>2, <2>3, <3>1 DEF Bijection, Injection, Surjection, IsInjective
  <2>5. 1 \in Int /\ k - 1 \in Int /\ (1 > k - 1 => k - 1 = 0)
    OBVIOUS
  <2>6. IsFiniteSet(1 .. k - 1) /\ Cardinality(1 .. k - 1) = k - 1
    BY <2>5, FS_Interval
  <2>7. Cardinality(B) = k - 1
    <3> HIDE DEF g, B
    <3> QED BY <2>4, <2>6, FS_Bijection DEF ExistsBijection
  <2> QED BY <2>7 DEF Rank
<1>7. ASSUME NEW k \in 1 .. n PROVE f[k] = Nth(S, k)
  <2>1. Nth(S, k) \in S /\ Rank(S, Nth(S, k)) = k - 1
    BY <1>5, NthFacts
  <2>2. PICK l \in 1 .. n : f[l] = Nth(S, k)
    BY <2>1
  <2>3. k - 1 = l - 1
    BY <1>6, <2>1, <2>2
  <2> QED BY <2>2, <2>3
<1> QED BY <1>5, <1>7

(* The positions of a sequence are finitely many.                          *)
LEMMA PositionsAreFinite ==
    ASSUME NEW E, NEW s \in Seq(E), NEW S \in SUBSET DOMAIN s
    PROVE  /\ S \in SUBSET Int /\ IsFiniteSet(S)
           /\ Cardinality(S) \in Nat /\ Cardinality(S) <= Len(s)
           /\ Cardinality(S) = Len(s) => S = DOMAIN s
<1>1. DOMAIN s = 1 .. Len(s) /\ Len(s) \in Nat
  OBVIOUS
<1>2. IsFiniteSet(DOMAIN s) /\ Cardinality(DOMAIN s) = Len(s)
  <2>1. 1 \in Int /\ Len(s) \in Int /\ (1 > Len(s) => Len(s) = 0)
    BY <1>1
  <2> QED BY <1>1, <2>1, FS_Interval
<1> QED BY <1>1, <1>2, FS_Subset, FS_CardinalityType

(* A subsequence holds the elements at its positions and no others.        *)
LEMMA OnlyFacts ==
    ASSUME NEW E, NEW s \in Seq(E), NEW S \in SUBSET DOMAIN s
    PROVE  /\ Only(s, S) \in Seq(E)
           /\ Len(Only(s, S)) = Cardinality(S)
           /\ DOMAIN Only(s, S) = 1 .. Cardinality(S)
           /\ \A k \in 1 .. Cardinality(S) :
                Nth(S, k) \in S /\ Only(s, S)[k] = s[Nth(S, k)]
           /\ \A i \in S : \E k \in 1 .. Cardinality(S) :
                Nth(S, k) = i /\ Only(s, S)[k] = s[i]
<1>1. /\ S \in SUBSET Int /\ IsFiniteSet(S) /\ Cardinality(S) \in Nat
  BY PositionsAreFinite
<1>2. /\ \A k \in 1 .. Cardinality(S) : Nth(S, k) \in S
      /\ \A i \in S : \E k \in 1 .. Cardinality(S) : Nth(S, k) = i
  BY <1>1, NthFacts
<1>3. Only(s, S) \in Seq(E) /\ Len(Only(s, S)) = Cardinality(S)
  <2>1. \A k \in 1 .. Cardinality(S) : s[Nth(S, k)] \in E
    BY <1>2
  <2> QED BY <1>1, <2>1 DEF Only
<1>4. \A k \in 1 .. Cardinality(S) : Only(s, S)[k] = s[Nth(S, k)]
  BY DEF Only
<1>5. DOMAIN Only(s, S) = 1 .. Cardinality(S)
  BY DEF Only
<1> QED BY <1>2, <1>3, <1>4, <1>5

(* Taking every position leaves a sequence as it is.                       *)
LEMMA OnlyAll ==
    ASSUME NEW E, NEW s \in Seq(E)
    PROVE  Only(s, DOMAIN s) = s
<1> DEFINE f == [k \in 1 .. Len(s) |-> k]
<1>1. DOMAIN s = 1 .. Len(s) /\ Len(s) \in Nat /\ DOMAIN s \in SUBSET Int
  OBVIOUS
<1>2. /\ f \in [1 .. Len(s) -> DOMAIN s]
      /\ \A k, l \in 1 .. Len(s) : k < l => f[k] < f[l]
      /\ \A i \in DOMAIN s : \E k \in 1 .. Len(s) : f[k] = i
  BY <1>1
<1>3. Cardinality(DOMAIN s) = Len(s) /\ \A k \in 1 .. Len(s) : f[k] = Nth(DOMAIN s, k)
  <2> HIDE DEF f
  <2> QED BY <1>1, <1>2, NthIsTheEnumeration
<1>4. \A k \in 1 .. Len(s) : Nth(DOMAIN s, k) = k
  BY <1>3
<1> QED BY <1>1, <1>3, <1>4 DEF Only

(* A subsequence of a subsequence is one of the whole.                     *)
LEMMA OnlyOfOnly ==
    ASSUME NEW E, NEW s \in Seq(E), NEW S \in SUBSET DOMAIN s,
           NEW T \in SUBSET (1 .. Cardinality(S)), NEW U, U = {Nth(S, k) : k \in T}
    PROVE  /\ Only(Only(s, S), T) = Only(s, U)
           /\ U \in SUBSET S
<1> DEFINE n == Cardinality(T)
           f == [l \in 1 .. n |-> Nth(S, Nth(T, l))]
<1>1. /\ S \in SUBSET Int /\ IsFiniteSet(S) /\ Cardinality(S) \in Nat
  BY PositionsAreFinite
<1>2. DOMAIN Only(s, S) = 1 .. Cardinality(S) /\ Only(s, S) \in Seq(E)
      /\ \A k \in 1 .. Cardinality(S) : Only(s, S)[k] = s[Nth(S, k)]
  BY OnlyFacts
<1>3. T \in SUBSET Int /\ IsFiniteSet(T) /\ n \in Nat
  <2>1. IsFiniteSet(1 .. Cardinality(S))
    BY <1>1, FS_Interval
  <2>2. IsFiniteSet(T)
    BY <2>1, FS_Subset
  <2>3. T \in SUBSET Int
    OBVIOUS
  <2> QED BY <2>2, <2>3, FS_CardinalityType
<1>4. /\ \A l \in 1 .. n : Nth(T, l) \in T
      /\ \A l, m \in 1 .. n : l < m => Nth(T, l) < Nth(T, m)
      /\ \A k \in T : \E l \in 1 .. n : Nth(T, l) = k
  BY <1>3, NthFacts
<1>5. /\ \A k \in 1 .. Cardinality(S) : Nth(S, k) \in S
      /\ \A k, l \in 1 .. Cardinality(S) : k < l => Nth(S, k) < Nth(S, l)
  BY <1>1, NthFacts
<1>6. U \in SUBSET S
  BY <1>5
<1> HIDE DEF n
<1>7. f \in [1 .. n -> U]
  BY <1>4
<1>8. \A l, m \in 1 .. n : l < m => f[l] < f[m]
  BY <1>4, <1>5
<1>9. \A i \in U : \E l \in 1 .. n : f[l] = i
  <2> SUFFICES ASSUME NEW i \in U PROVE \E l \in 1 .. n : f[l] = i
    OBVIOUS
  <2>1. PICK k \in T : i = Nth(S, k)
    OBVIOUS
  <2>2. PICK l \in 1 .. n : Nth(T, l) = k
    BY <1>4
  <2> QED BY <2>1, <2>2
<1>10. Cardinality(U) = n /\ \A l \in 1 .. n : f[l] = Nth(U, l)
  <2> HIDE DEF f
  <2>1. U \in SUBSET Int
    BY <1>1, <1>6
  <2> QED BY <1>3, <1>7, <1>8, <1>9, <2>1, NthIsTheEnumeration
<1>11. \A l \in 1 .. n : Only(s, S)[Nth(T, l)] = s[Nth(U, l)]
  <2> SUFFICES ASSUME NEW l \in 1 .. n PROVE Only(s, S)[Nth(T, l)] = s[Nth(U, l)]
    OBVIOUS
  <2>1. Nth(T, l) \in 1 .. Cardinality(S)
    BY <1>4
  <2>2. Nth(S, Nth(T, l)) = Nth(U, l)
    BY <1>10
  <2> QED BY <1>2, <2>1, <2>2
<1>12. Only(Only(s, S), T) = Only(s, U)
  BY <1>10, <1>11 DEF Only, n
<1> QED BY <1>6, <1>12
=============================================================================
