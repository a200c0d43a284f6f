------------------------- MODULE ListingRulesProofs -------------------------
(***************************************************************************)
(* Facts about the rules that hold for every configuration, listing and    *)
(* caller: the comparison is a strict total order, the compiled table      *)
(* holds the first named entry of each scope, a stable sort of a set of    *)
(* positions is determined by the snapshot, and what distinct models are   *)
(* served as does not depend on the order they were listed in.             *)
(***************************************************************************)
EXTENDS ListingRules, SubsequencesProofs, TLAPS

-----------------------------------------------------------------------------
(* The comparison.                                                         *)

(* The buckets of an id are numbers of configured patterns.                *)
LEMMA BucketsAreNaturals ==
    ASSUME NEW cfg \in Configs, NEW id
    PROVE  BucketsOf(cfg, id) \in SUBSET Nat
BY DEF BucketsOf, Configs

(* comparer yields a strict total order for every configuration, so the    *)
(* served order never depends on the arbitrary order CPA listed the ids    *)
(* in.  order.go:180-219.                                                  *)
THEOREM LessIsStrictTotalOrder ==
    ASSUME NEW cfg \in Configs, NEW a \in Models, NEW b \in Models, NEW c \in Models
    PROVE  /\ ~Less(cfg, a, a)
           /\ a # b => Less(cfg, a, b) \/ Less(cfg, b, a)
           /\ ~(Less(cfg, a, b) /\ Less(cfg, b, a))
           /\ Less(cfg, a, b) /\ Less(cfg, b, c) => Less(cfg, a, c)
<1> DEFINE A == BucketsOf(cfg, a)
           B == BucketsOf(cfg, b)
           C == BucketsOf(cfg, c)
<1>1. A \in SUBSET Nat /\ B \in SUBSET Nat /\ C \in SUBSET Nat
  BY BucketsAreNaturals
<1>2. cfg.cs \in BOOLEAN
  BY DEF Configs
<1> HIDE DEF A, B, C
<1>3. ~\E i \in A : \A j \in A : i < j
  BY <1>1
<1>4. ~((\E i \in A : \A j \in B : i < j) /\ (\E i \in B : \A j \in A : i < j))
  BY <1>1
<1>5. ~(<<a, b>> \in IdBefore[cfg.cs] /\ <<b, a>> \in IdBefore[cfg.cs])
  BY <1>2, IdBeforeIsStrictTotalOrder
<1>6. ~Less(cfg, a, a)
  BY <1>2, <1>3, IdBeforeIsStrictTotalOrder DEF Less, EarlierBucket, A
<1>7. a # b => Less(cfg, a, b) \/ Less(cfg, b, a)
  BY <1>2, IdBeforeIsStrictTotalOrder DEF Less
<1>8. ~(Less(cfg, a, b) /\ Less(cfg, b, a))
  BY <1>4, <1>5 DEF Less, EarlierBucket, A, B
<1>9. ASSUME Less(cfg, a, b), Less(cfg, b, c) PROVE Less(cfg, a, c)
  <2> DEFINE AB == \E i \in A : \A j \in B : i < j
             BA == \E i \in B : \A j \in A : i < j
             BC == \E i \in B : \A j \in C : i < j
             CB == \E i \in C : \A j \in B : i < j
             AC == \E i \in A : \A j \in C : i < j
             CA == \E i \in C : \A j \in A : i < j
  <2>1. AB \/ (~BA /\ <<a, b>> \in IdBefore[cfg.cs])
    BY <1>9 DEF Less, EarlierBucket, A, B
  <2>2. BC \/ (~CB /\ <<b, c>> \in IdBefore[cfg.cs])
    BY <1>9 DEF Less, EarlierBucket, B, C
  <2>3. AB /\ (BC \/ ~CB) => AC
    BY <1>1
  <2>4. ~BA /\ BC => AC
    BY <1>1
  <2>5. ~BA /\ ~CB => ~CA
    BY <1>1
  <2>6. <<a, b>> \in IdBefore[cfg.cs] /\ <<b, c>> \in IdBefore[cfg.cs]
            => <<a, c>> \in IdBefore[cfg.cs]
    BY <1>2, IdBeforeIsStrictTotalOrder
  <2>7. AC \/ (~CA /\ <<a, c>> \in IdBefore[cfg.cs])
    <3> HIDE DEF AB, BA, BC, CB, AC, CA
    <3> QED BY <2>1, <2>2, <2>3, <2>4, <2>5, <2>6
  <2> QED BY <2>7 DEF Less, EarlierBucket, A, C
<1> QED BY <1>6, <1>7, <1>8, <1>9

-----------------------------------------------------------------------------
(* The compiled access table.                                              *)

RawEntries == [scope : Scopes \cup {NoScope}, allow : SUBSET Patterns,
               deny : SUBSET Patterns, cs : BOOLEAN]

(* The compiled table constrains exactly the scopes the configuration      *)
(* names - never the caller without one - and each by its first entry,     *)
(* whatever the later ones say.  compileAccessPolicies, config.go:105-130. *)
THEOREM FirstEntryWins ==
    ASSUME NEW raw \in Seq(RawEntries)
    PROVE  /\ CompileAccess(raw) \in Tables
           /\ NoScope \notin DOMAIN CompileAccess(raw)
           /\ \A s \in DOMAIN CompileAccess(raw) : \E i \in DOMAIN raw :
                /\ raw[i].scope = s
                /\ \A j \in DOMAIN raw : raw[j].scope = s => i <= j
                /\ CompileAccess(raw)[s] = [allow |-> raw[i].allow,
                                            deny  |-> raw[i].deny,
                                            cs    |-> raw[i].cs]
<1> DEFINE named(s) == {i \in DOMAIN raw : raw[i].scope = s}
           least(s, i) == i \in named(s) /\ \A j \in named(s) : i <= j
           first(s) == CHOOSE i \in named(s) : \A j \in named(s) : i <= j
           D == {raw[i].scope : i \in DOMAIN raw} \ {NoScope}
           T == [s \in D |-> [allow |-> raw[first(s)].allow,
                              deny  |-> raw[first(s)].deny,
                              cs    |-> raw[first(s)].cs]]
<1>1. CompileAccess(raw) = T
  BY DEF CompileAccess
<1>2. \A i \in DOMAIN raw : raw[i] \in RawEntries
  OBVIOUS
<1>3. D \in SUBSET Scopes
  BY <1>2 DEF RawEntries
<1>4. ASSUME NEW s \in D PROVE least(s, first(s))
  <2>1. named(s) \in SUBSET Nat /\ named(s) # {}
    OBVIOUS
  <2>2. \E i \in named(s) : \A j \in named(s) : i <= j
    <3> HIDE DEF named
    <3> QED BY <2>1, LeastNatural
  <2> QED
    <3> HIDE DEF named
    <3> QED BY <2>2
<1>5. ASSUME NEW s \in D PROVE T[s] \in PolicyBodies
  <2>1. first(s) \in DOMAIN raw
    BY <1>4
  <2>2. raw[first(s)] \in RawEntries
    BY <1>2, <2>1
  <2> HIDE DEF first
  <2> QED BY <2>2 DEF RawEntries, PolicyBodies
<1>6. T \in [D -> PolicyBodies]
  <2> HIDE DEF D, T
  <2>1. T = [s \in D |-> T[s]]
    BY DEF T
  <2> QED BY <1>5, <2>1
<1>7. T \in Tables
  <2> HIDE DEF T, D
  <2> QED BY <1>3, <1>6 DEF Tables
<1>8. ASSUME NEW s \in D
      PROVE  \E i \in DOMAIN raw :
                /\ raw[i].scope = s
                /\ \A j \in DOMAIN raw : raw[j].scope = s => i <= j
                /\ T[s] = [allow |-> raw[i].allow, deny |-> raw[i].deny, cs |-> raw[i].cs]
  <2>1. /\ first(s) \in DOMAIN raw
        /\ raw[first(s)].scope = s
        /\ \A j \in DOMAIN raw : raw[j].scope = s => first(s) <= j
    BY <1>4
  <2>2. T[s] = [allow |-> raw[first(s)].allow, deny |-> raw[first(s)].deny,
                cs |-> raw[first(s)].cs]
    OBVIOUS
  <2> HIDE DEF first, T
  <2> QED BY <2>1, <2>2
<1>9. DOMAIN T = D
  OBVIOUS
<1> QED
  <2>1. \A s \in DOMAIN T : s \in D
    BY <1>9
  <2>2. NoScope \notin DOMAIN T
    BY <1>9
  <2> HIDE DEF T, D
  <2> QED BY <1>1, <1>7, <1>8, <2>1, <2>2

(* Every set of positions of a list of models has a stable sort.           *)
LEMMA StableSortsExist ==
    ASSUME NEW cfg \in Configs, NEW list, NEW S \in SUBSET Int, IsFiniteSet(S),
           \A i \in S : list[i].key \in Models
    PROVE  StableSorts(cfg, list, S) # {}
<1> DEFINE key(i) == list[i].key
           Before(i, j) == \/ Less(cfg, key(i), key(j))
                           \/ ~Less(cfg, key(j), key(i)) /\ i < j
           below == [i \in S |-> {j \in S : Before(j, i)}]
           n == Cardinality(S)
           order == [k \in 1 .. n |-> CHOOSE i \in S : Cardinality(below[i]) = k - 1]
<1>1. \A a, b, c \in Models :
         /\ ~Less(cfg, a, a)
         /\ a # b => Less(cfg, a, b) \/ Less(cfg, b, a)
         /\ ~(Less(cfg, a, b) /\ Less(cfg, b, a))
         /\ Less(cfg, a, b) /\ Less(cfg, b, c) => Less(cfg, a, c)
  BY LessIsStrictTotalOrder
<1>2. /\ below \in [S -> SUBSET S]
      /\ \A i, j \in S : i \in below[j] <=> Before(i, j)
  OBVIOUS
<1>3. \A i, j, k \in S : /\ ~Before(i, i)
                         /\ i # j => Before(i, j) \/ Before(j, i)
                         /\ Before(i, j) /\ Before(j, k) => Before(i, k)
  <2> SUFFICES ASSUME NEW i \in S, NEW j \in S, NEW k \in S
               PROVE  /\ ~Before(i, i)
                      /\ i # j => Before(i, j) \/ Before(j, i)
                      /\ Before(i, j) /\ Before(j, k) => Before(i, k)
    OBVIOUS
  <2>1. i \in Int /\ j \in Int /\ k \in Int /\ key(i) \in Models /\ key(j) \in Models
        /\ key(k) \in Models
    OBVIOUS
  <2>2. (~Less(cfg, key(i), key(j)) /\ ~Less(cfg, key(j), key(i))) => key(i) = key(j)
    BY <1>1, <2>1
  <2>3. (~Less(cfg, key(k), key(j)) /\ ~Less(cfg, key(j), key(k))) => key(k) = key(j)
    BY <1>1, <2>1
  <2>4. ~Before(i, i)
    BY <1>1, <2>1
  <2>5. i # j => Before(i, j) \/ Before(j, i)
    BY <2>1
  <2>6. ASSUME Before(i, j), Before(j, k) PROVE Before(i, k)
    <3>1. CASE Less(cfg, key(i), key(j)) /\ Less(cfg, key(j), key(k))
      BY <1>1, <2>1, <3>1
    <3>2. CASE ~Less(cfg, key(i), key(j))
      <4>1. key(i) = key(j) /\ i < j
        BY <2>2, <2>6, <3>2
      <4>2. CASE Less(cfg, key(j), key(k))
        BY <4>1, <4>2
      <4>3. CASE ~Less(cfg, key(j), key(k))
        BY <2>1, <2>6, <4>1, <4>3
      <4> QED BY <4>2, <4>3
    <3>3. CASE ~Less(cfg, key(j), key(k))
      <4>1. key(j) = key(k) /\ j < k
        BY <2>3, <2>6, <3>3
      <4>2. CASE Less(cfg, key(i), key(j))
        BY <4>1, <4>2
      <4> QED BY <3>2, <4>2
    <3> QED BY <3>1, <3>2, <3>3
  <2> QED BY <2>4, <2>5, <2>6
<1> HIDE DEF Before, below
<1>4. /\ n \in Nat
      /\ \A a \in S : Cardinality(below[a]) \in 0 .. n - 1
      /\ \A a, c \in S : a \in below[c] => Cardinality(below[a]) < Cardinality(below[c])
      /\ \A m \in 0 .. n - 1 : \E a \in S : Cardinality(below[a]) = m
  <2>1. Ordering(S, below)
    BY <1>2, <1>3 DEF Ordering
  <2>2. Numbered(S, below)
    BY <2>1, RanksAreNumbers
  <2> QED BY <2>2 DEF Numbered
<1>5. \A k \in 1 .. n : order[k] \in S /\ Cardinality(below[order[k]]) = k - 1
  <2> SUFFICES ASSUME NEW k \in 1 .. n
               PROVE  order[k] \in S /\ Cardinality(below[order[k]]) = k - 1
    OBVIOUS
  <2>1. k - 1 \in 0 .. n - 1
    BY <1>4
  <2>2. \E i \in S : Cardinality(below[i]) = k - 1
    BY <1>4, <2>1
  <2> QED BY <2>2
<1> DEFINE rank(i) == Cardinality(below[i])
<1>6. \A i, j \in S : rank(i) < rank(j) => Before(i, j)
  <2> SUFFICES ASSUME NEW i \in S, NEW j \in S, rank(i) < rank(j), ~Before(i, j)
               PROVE  FALSE
    OBVIOUS
  <2>1. rank(i) \in Int /\ rank(j) \in Int
    BY <1>4
  <2>2. i # j
    BY <2>1
  <2>3. rank(j) < rank(i)
    BY <1>2, <1>3, <1>4, <2>2
  <2> QED BY <2>1, <2>3
<1>7. \A i, j \in S : rank(i) = rank(j) => i = j
  <2> SUFFICES ASSUME NEW i \in S, NEW j \in S, i # j, rank(i) = rank(j)
               PROVE  FALSE
    OBVIOUS
  <2>1. rank(i) \in Int /\ rank(j) \in Int
    BY <1>4
  <2> QED BY <1>2, <1>3, <1>4, <2>1
<1>8. order \in Arrangements(S)
  <2>1. order \in [1 .. n -> S]
    BY <1>5
  <2>2. ASSUME NEW k \in 1 .. n, NEW l \in 1 .. n, order[k] = order[l] PROVE k = l
    BY <1>4, <1>5, <2>2
  <2>3. ASSUME NEW i \in S PROVE \E k \in 1 .. n : order[k] = i
    <3>1. rank(i) \in 0 .. n - 1
      BY <1>4
    <3>2. rank(i) + 1 \in 1 .. n /\ (rank(i) + 1) - 1 = rank(i)
      BY <1>4, <3>1
    <3>3. order[rank(i) + 1] \in S /\ rank(order[rank(i) + 1]) = rank(i)
      BY <1>5, <3>2
    <3> QED BY <1>7, <3>2, <3>3
  <2> HIDE DEF order
  <2> QED BY <2>1, <2>2, <2>3 DEF Arrangements, Bijection, Injection, Surjection, IsInjective
<1>9. StablySorted(cfg, list, order)
  <2>1. DOMAIN order = 1 .. n
    OBVIOUS
  <2> SUFFICES ASSUME NEW p \in 1 .. n, NEW q \in 1 .. n, p < q
               PROVE  /\ ~Less(cfg, key(order[q]), key(order[p]))
                      /\ Less(cfg, key(order[p]), key(order[q])) \/ order[p] < order[q]
    BY <2>1 DEF StablySorted
  <2>2. order[p] \in S /\ order[q] \in S /\ rank(order[p]) < rank(order[q])
    BY <1>4, <1>5
  <2>3. Before(order[p], order[q])
    BY <1>6, <2>2
  <2>4. key(order[p]) \in Models /\ key(order[q]) \in Models
    BY <2>2
  <2> QED BY <1>1, <2>3, <2>4 DEF Before
<1> QED BY <1>8, <1>9 DEF StableSorts

(* There is one way only to arrange the same things by an order that never *)
(* goes both ways.                                                         *)
Rising(f, n, R) == \A p, q \in 1 .. n : p < q => f[p] # f[q] /\ <<f[p], f[q]>> \in R
Holds(f, g, n) == \A p \in 1 .. n : \E q \in 1 .. n : g[p] = f[q]
OneWay(R, X) == \A x, y \in X : ~(<<x, y>> \in R /\ <<y, x>> \in R)

LEMMA ArrangedOnce ==
    ASSUME NEW n \in Nat, NEW X, NEW R, NEW f \in [1 .. n -> X], NEW g \in [1 .. n -> X],
           Rising(f, n, R), Rising(g, n, R), Holds(f, g, n), Holds(g, f, n), OneWay(R, X)
    PROVE  f = g
<1> DEFINE T == {k \in 1 .. n : f[k] # g[k]}
<1> SUFFICES ASSUME T # {} PROVE FALSE
  OBVIOUS
<1>0. /\ \A p, q \in 1 .. n : p < q =>
            /\ f[p] # f[q] /\ <<f[p], f[q]>> \in R
            /\ g[p] # g[q] /\ <<g[p], g[q]>> \in R
      /\ \A p \in 1 .. n : \E q \in 1 .. n : f[p] = g[q]
      /\ \A p \in 1 .. n : \E q \in 1 .. n : g[p] = f[q]
      /\ \A x, y \in X : ~(<<x, y>> \in R /\ <<y, x>> \in R)
  BY DEF Rising, Holds, OneWay
<1>1. T \in SUBSET Nat
  OBVIOUS
<1>2. PICK k \in T : \A j \in T : k <= j
  <2> HIDE DEF T
  <2> QED BY <1>1, LeastNatural
<1>3. k \in 1 .. n /\ f[k] # g[k]
  OBVIOUS
<1>4. \A j \in 1 .. n : j < k => f[j] = g[j]
  <2> SUFFICES ASSUME NEW j \in 1 .. n, j < k PROVE j \notin T
    OBVIOUS
  <2>1. ~(k <= j)
    BY <1>3
  <2> HIDE DEF T
  <2> QED BY <1>2, <2>1
<1>5. PICK l \in 1 .. n : f[k] = g[l]
  BY <1>0, <1>3
<1>6. k < l
  <2>1. l # k
    BY <1>3, <1>5
  <2>2. ~(l < k)
    <3> SUFFICES ASSUME l < k PROVE FALSE
      OBVIOUS
    <3>1. f[l] = g[l]
      BY <1>4
    <3>2. f[l] # f[k]
      BY <1>0, <1>3
    <3> QED BY <1>5, <3>1, <3>2
  <2> QED BY <1>3, <2>1, <2>2
<1>7. PICK m \in 1 .. n : g[k] = f[m]
  BY <1>0, <1>3
<1>8. k < m
  <2>1. m # k
    BY <1>3, <1>7
  <2>2. ~(m < k)
    <3> SUFFICES ASSUME m < k PROVE FALSE
      OBVIOUS
    <3>1. f[m] = g[m]
      BY <1>4
    <3>2. g[m] # g[k]
      BY <1>0, <1>3
    <3> QED BY <1>7, <3>1, <3>2
  <2> QED BY <1>3, <2>1, <2>2
<1>9. <<g[k], g[l]>> \in R /\ <<f[k], f[m]>> \in R
  BY <1>0, <1>3, <1>6, <1>8
<1>10. f[k] \in X /\ g[k] \in X
  BY <1>3
<1> QED BY <1>0, <1>5, <1>7, <1>9, <1>10

(* What a stable sort is, position by position.                            *)
LEMMA SortedFacts ==
    ASSUME NEW cfg \in Configs, NEW list, NEW S \in SUBSET Int, IsFiniteSet(S),
           \A i \in S : list[i].key \in Models,
           NEW order \in StableSorts(cfg, list, S)
    PROVE  /\ Cardinality(S) \in Nat
           /\ order \in [1 .. Cardinality(S) -> S]
           /\ \A i \in S : \E p \in 1 .. Cardinality(S) : order[p] = i
           /\ \A p, q \in 1 .. Cardinality(S) : p < q =>
                 /\ order[p] # order[q]
                 /\ ~Less(cfg, list[order[q]].key, list[order[p]].key)
                 /\ \/ Less(cfg, list[order[p]].key, list[order[q]].key)
                    \/ order[p] < order[q]
<1> DEFINE n == Cardinality(S)
<1>1. n \in Nat
  BY FS_CardinalityType
<1>2. order \in Bijection(1 .. n, S) /\ StablySorted(cfg, list, order)
  BY DEF StableSorts, Arrangements
<1>3. /\ order \in [1 .. n -> S]
      /\ \A p, q \in 1 .. n : order[p] = order[q] => p = q
      /\ \A i \in S : \E p \in 1 .. n : order[p] = i
  <2> HIDE DEF n
  <2> QED BY <1>2 DEF Bijection, Injection, Surjection, IsInjective
<1>4. ASSUME NEW p \in 1 .. n, NEW q \in 1 .. n, p < q
      PROVE  /\ order[p] # order[q]
             /\ ~Less(cfg, list[order[q]].key, list[order[p]].key)
             /\ \/ Less(cfg, list[order[p]].key, list[order[q]].key)
                \/ order[p] < order[q]
  <2>1. DOMAIN order = 1 .. n
    BY <1>3
  <2>2. order[p] # order[q]
    BY <1>1, <1>3, <1>4
  <2> QED BY <1>2, <1>4, <2>1, <2>2 DEF StablySorted
<1> QED BY <1>1, <1>3, <1>4

(* The configuration and the listing decide what is served: a stable sort  *)
(* exists and there is only one, even if an id is listed twice.            *)
(* intercept.go:119-145.                                                   *)
THEOREM SortIsDetermined ==
    ASSUME NEW cfg \in Configs, NEW list, NEW S \in SUBSET Int, IsFiniteSet(S),
           \A i \in S : list[i].key \in Models
    PROVE  \E order : StableSorts(cfg, list, S) = {order}
<1>1. PICK f : f \in StableSorts(cfg, list, S)
  BY StableSortsExist
<1>2. ASSUME NEW g \in StableSorts(cfg, list, S) PROVE f = g
  <2> DEFINE n == Cardinality(S)
             R == {e \in S \X S :
                     /\ ~Less(cfg, list[e[2]].key, list[e[1]].key)
                     /\ Less(cfg, list[e[1]].key, list[e[2]].key) \/ e[1] < e[2]}
  <2>1. /\ n \in Nat /\ f \in [1 .. n -> S] /\ g \in [1 .. n -> S]
        /\ \A i \in S : \E p \in 1 .. n : f[p] = i
        /\ \A i \in S : \E p \in 1 .. n : g[p] = i
    BY <1>1, SortedFacts
  <2>2. \A p, q \in 1 .. n : p < q =>
           /\ f[p] # f[q] /\ <<f[p], f[q]>> \in R
           /\ g[p] # g[q] /\ <<g[p], g[q]>> \in R
    <3> SUFFICES ASSUME NEW p \in 1 .. n, NEW q \in 1 .. n, p < q
                 PROVE  /\ f[p] # f[q] /\ <<f[p], f[q]>> \in R
                        /\ g[p] # g[q] /\ <<g[p], g[q]>> \in R
      OBVIOUS
    <3>1. /\ f[p] # f[q] /\ ~Less(cfg, list[f[q]].key, list[f[p]].key)
          /\ Less(cfg, list[f[p]].key, list[f[q]].key) \/ f[p] < f[q]
      BY <1>1, SortedFacts
    <3>2. /\ g[p] # g[q] /\ ~Less(cfg, list[g[q]].key, list[g[p]].key)
          /\ Less(cfg, list[g[p]].key, list[g[q]].key) \/ g[p] < g[q]
      BY SortedFacts
    <3>3. <<f[p], f[q]>> \in S \X S /\ <<g[p], g[q]>> \in S \X S
      BY <2>1
    <3> QED BY <3>1, <3>2, <3>3
  <2>3. \A x, y \in S : ~(<<x, y>> \in R /\ <<y, x>> \in R)
    <3> SUFFICES ASSUME NEW x \in S, NEW y \in S, <<x, y>> \in R, <<y, x>> \in R PROVE FALSE
      OBVIOUS
    <3>1. x < y /\ y < x
      OBVIOUS
    <3>2. x \in Int /\ y \in Int
      OBVIOUS
    <3> QED BY <3>1, <3>2
  <2>4. /\ \A p \in 1 .. n : \E q \in 1 .. n : f[p] = g[q]
        /\ \A p \in 1 .. n : \E q \in 1 .. n : g[p] = f[q]
    BY <2>1
  <2> HIDE DEF n, R
  <2>5. Rising(f, n, R) /\ Rising(g, n, R) /\ Holds(f, g, n) /\ Holds(g, f, n) /\ OneWay(R, S)
    BY <2>2, <2>3, <2>4 DEF Rising, Holds, OneWay
  <2> QED BY <2>1, <2>5, ArrangedOnce
<1> QED BY <1>1, <1>2

(* The order in which CPA lists different models does not matter: two      *)
(* listings of the same models are served in the same order, whatever      *)
(* Go's random map order made of them.  intercept.go:116-118.              *)
THEOREM ArrivalOrderIsIrrelevant ==
    ASSUME NEW cfg \in Configs,
           NEW list, NEW S \in SUBSET Int, IsFiniteSet(S), \A i \in S : list[i].key \in Models,
           NEW other, NEW T \in SUBSET Int, IsFiniteSet(T), \A i \in T : other[i].key \in Models,
           \A i, j \in S : list[i].key = list[j].key => i = j,
           \A i, j \in T : other[i].key = other[j].key => i = j,
           {list[i].key : i \in S} = {other[i].key : i \in T},
           NEW order \in StableSorts(cfg, list, S), NEW reorder \in StableSorts(cfg, other, T)
    PROVE  [p \in DOMAIN order |-> list[order[p]].key]
              = [p \in DOMAIN reorder |-> other[reorder[p]].key]
<1> DEFINE n == Cardinality(S)
           f == [p \in 1 .. n |-> list[order[p]].key]
           g == [p \in 1 .. n |-> other[reorder[p]].key]
           R == {e \in Models \X Models : Less(cfg, e[1], e[2])}
<1>0. Cardinality(T) = n
  <2> DEFINE h == [i \in S |-> CHOOSE j \in T : other[j].key = list[i].key]
  <2>1. ASSUME NEW i \in S PROVE \E j \in T : other[j].key = list[i].key
    <3>1. list[i].key \in {other[j].key : j \in T}
      BY <2>1
    <3> QED BY <3>1
  <2>2. ASSUME NEW j \in T PROVE \E i \in S : other[j].key = list[i].key
    <3>1. other[j].key \in {list[i].key : i \in S}
      BY <2>2
    <3> QED BY <3>1
  <2>3. \A i \in S : h[i] \in T /\ other[h[i]].key = list[i].key
    BY <2>1
  <2>4. h \in [S -> T]
    BY <2>3
  <2> HIDE DEF h
  <2>5. \A i, j \in S : h[i] = h[j] => i = j
    BY <2>3
  <2>6. ASSUME NEW j \in T PROVE \E i \in S : h[i] = j
    <3>1. PICK i \in S : other[j].key = list[i].key
      BY <2>2
    <3>2. h[i] \in T /\ other[h[i]].key = other[j].key
      BY <2>3, <3>1
    <3> QED BY <3>2
  <2>7. h \in Bijection(S, T)
    BY <2>4, <2>5, <2>6 DEF Bijection, Injection, Surjection, IsInjective
  <2> QED BY <2>7, FS_Bijection DEF ExistsBijection
<1>1. /\ n \in Nat /\ order \in [1 .. n -> S]
      /\ \A i \in S : \E p \in 1 .. n : order[p] = i
      /\ \A p, q \in 1 .. n : p < q =>
            /\ order[p] # order[q]
            /\ ~Less(cfg, list[order[q]].key, list[order[p]].key)
  BY SortedFacts
<1>2. /\ reorder \in [1 .. n -> T]
      /\ \A i \in T : \E p \in 1 .. n : reorder[p] = i
      /\ \A p, q \in 1 .. n : p < q =>
            /\ reorder[p] # reorder[q]
            /\ ~Less(cfg, other[reorder[q]].key, other[reorder[p]].key)
  <2> HIDE DEF n
  <2> QED BY <1>0, SortedFacts
<1>3. DOMAIN order = 1 .. n /\ DOMAIN reorder = 1 .. n
  BY <1>1, <1>2
<1>4. f \in [1 .. n -> Models] /\ g \in [1 .. n -> Models]
  BY <1>1, <1>2
<1>5. \A a, b \in Models : /\ a # b => Less(cfg, a, b) \/ Less(cfg, b, a)
                          /\ ~(Less(cfg, a, b) /\ Less(cfg, b, a))
  BY LessIsStrictTotalOrder
<1>6. \A p, q \in 1 .. n : p < q =>
         /\ f[p] # f[q] /\ <<f[p], f[q]>> \in R
         /\ g[p] # g[q] /\ <<g[p], g[q]>> \in R
  <2> SUFFICES ASSUME NEW p \in 1 .. n, NEW q \in 1 .. n, p < q
               PROVE  /\ f[p] # f[q] /\ <<f[p], f[q]>> \in R
                      /\ g[p] # g[q] /\ <<g[p], g[q]>> \in R
    OBVIOUS
  <2>1. f[p] # f[q] /\ ~Less(cfg, f[q], f[p])
    BY <1>1
  <2>2. g[p] # g[q] /\ ~Less(cfg, g[q], g[p])
    BY <1>2
  <2>3. f[p] \in Models /\ f[q] \in Models /\ g[p] \in Models /\ g[q] \in Models
    BY <1>4
  <2> HIDE DEF f, g
  <2> QED BY <1>5, <2>1, <2>2, <2>3
<1>7. ASSUME NEW p \in 1 .. n PROVE \E q \in 1 .. n : f[p] = g[q]
  <2>1. PICK i \in T : f[p] = other[i].key
    <3>1. f[p] \in {list[i].key : i \in S}
      BY <1>1
    <3>2. f[p] \in {other[i].key : i \in T}
      <4> HIDE DEF f
      <4> QED BY <3>1
    <3> QED BY <3>2
  <2>2. PICK q \in 1 .. n : reorder[q] = i
    BY <1>2
  <2> QED BY <2>1, <2>2
<1>8. ASSUME NEW p \in 1 .. n PROVE \E q \in 1 .. n : g[p] = f[q]
  <2>1. PICK i \in S : g[p] = list[i].key
    <3>1. g[p] \in {other[i].key : i \in T}
      BY <1>2
    <3>2. g[p] \in {list[i].key : i \in S}
      <4> HIDE DEF g
      <4> QED BY <3>1
    <3> QED BY <3>2
  <2>2. PICK q \in 1 .. n : order[q] = i
    BY <1>1
  <2> QED BY <2>1, <2>2
<1>9. \A x, y \in Models : ~(<<x, y>> \in R /\ <<y, x>> \in R)
  BY <1>5
<1>10. f = g
  <2> HIDE DEF n, f, g, R
  <2>1. /\ Rising(f, n, R) /\ Rising(g, n, R)
        /\ Holds(f, g, n) /\ Holds(g, f, n) /\ OneWay(R, Models)
    BY <1>6, <1>7, <1>8, <1>9 DEF Rising, Holds, OneWay
  <2> QED BY <1>1, <1>4, <2>1, ArrangedOnce
<1> QED BY <1>3, <1>10

(* What is left of a stable sort when some positions are taken out is a    *)
(* stable sort of the rest: sorting first and filtering afterwards gives   *)
(* what filtering first and sorting afterwards gives.                      *)
LEMMA FilteredSortIsSort ==
    ASSUME NEW cfg, NEW list, NEW D, NEW n \in Nat, n = Cardinality(D), IsFiniteSet(D),
           NEW order \in StableSorts(cfg, list, D),
           NEW T \in SUBSET (1 .. n), NEW S \in SUBSET D,
           \A p \in 1 .. n : p \in T <=> order[p] \in S
    PROVE  /\ Cardinality(T) = Cardinality(S)
           /\ [k \in 1 .. Cardinality(T) |-> order[Nth(T, k)]] \in StableSorts(cfg, list, S)
<1> DEFINE f == [k \in 1 .. Cardinality(T) |-> order[Nth(T, k)]]
           g == [p \in T |-> order[p]]
<1>1. /\ order \in [1 .. n -> D] /\ StablySorted(cfg, list, order)
      /\ \A p, q \in 1 .. n : order[p] = order[q] => p = q
      /\ \A i \in D : \E p \in 1 .. n : order[p] = i
  <2>1. order \in Bijection(1 .. n, D) /\ StablySorted(cfg, list, order)
    BY DEF StableSorts, Arrangements
  <2> QED BY <2>1 DEF Bijection, Injection, Surjection, IsInjective
<1>2. T \in SUBSET Int /\ IsFiniteSet(T) /\ IsFiniteSet(S)
  <2>1. 1 \in Int /\ n \in Int
    OBVIOUS
  <2>2. IsFiniteSet(1 .. n)
    BY <2>1, FS_Interval
  <2>3. IsFiniteSet(T)
    BY <2>2, FS_Subset
  <2>4. IsFiniteSet(S)
    BY FS_Subset
  <2>5. T \in SUBSET Int
    OBVIOUS
  <2> QED BY <2>3, <2>4, <2>5
<1>3. g \in [T -> S] /\ g \in Bijection(T, S)
  <2>1. g \in [T -> S]
    BY <1>1
  <2>2. \A p, q \in T : g[p] = g[q] => p = q
    BY <1>1
  <2>3. \A i \in S : \E p \in T : g[p] = i
    BY <1>1
  <2> HIDE DEF g
  <2> QED BY <2>1, <2>2, <2>3 DEF Bijection, Injection, Surjection, IsInjective
<1>4. Cardinality(T) = Cardinality(S)
  BY <1>2, <1>3, FS_Bijection DEF ExistsBijection
<1>5. /\ Cardinality(T) \in Nat
      /\ \A k \in 1 .. Cardinality(T) : Nth(T, k) \in T
      /\ \A k, l \in 1 .. Cardinality(T) : k < l => Nth(T, k) < Nth(T, l)
      /\ \A i \in T : \E k \in 1 .. Cardinality(T) : Nth(T, k) = i
  BY <1>2, NthFacts
<1> DEFINE m == Cardinality(T)
<1> HIDE DEF m
<1>6. f \in Bijection(1 .. m, S)
  <2>1. f \in [1 .. m -> S]
    BY <1>1, <1>5 DEF m
  <2>2. ASSUME NEW k \in 1 .. m, NEW l \in 1 .. m, f[k] = f[l] PROVE k = l
    <3>1. Nth(T, k) \in T /\ Nth(T, l) \in T
      BY <1>5 DEF m
    <3>2. order[Nth(T, k)] = order[Nth(T, l)]
      BY <2>2 DEF m
    <3>3. Nth(T, k) = Nth(T, l)
      BY <1>1, <3>1, <3>2
    <3>4. Nth(T, k) \in Int /\ Nth(T, l) \in Int
      BY <1>2, <3>1
    <3> QED BY <1>5, <3>3, <3>4 DEF m
  <2>3. ASSUME NEW i \in S PROVE \E k \in 1 .. m : f[k] = i
    <3>1. PICK p \in T : order[p] = i
      BY <1>1
    <3> QED BY <1>5, <3>1 DEF m
  <2> HIDE DEF f
  <2> QED BY <2>1, <2>2, <2>3 DEF Bijection, Injection, Surjection, IsInjective
<1>7. StablySorted(cfg, list, f)
  <2>1. DOMAIN f = 1 .. m /\ \A k \in 1 .. m : f[k] = order[Nth(T, k)]
    BY DEF m
  <2> HIDE DEF f
  <2> SUFFICES ASSUME NEW p \in 1 .. m, NEW q \in 1 .. m, p < q
               PROVE  /\ ~Less(cfg, list[f[q]].key, list[f[p]].key)
                      /\ Less(cfg, list[f[p]].key, list[f[q]].key) \/ f[p] < f[q]
    BY <2>1 DEF StablySorted
  <2>2. Nth(T, p) \in DOMAIN order /\ Nth(T, q) \in DOMAIN order /\ Nth(T, p) < Nth(T, q)
    BY <1>1, <1>5 DEF m
  <2> QED BY <1>1, <2>1, <2>2 DEF StablySorted
<1> QED BY <1>4, <1>6, <1>7 DEF StableSorts, Arrangements, m
=============================================================================
