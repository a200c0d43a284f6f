------------------------- MODULE PatternMatchProofs -------------------------
(***************************************************************************)
(* The matcher against the denotation, for any pattern and any id: both    *)
(* say that the segments between the wildcards can be placed in the id     *)
(* one after the other, the first at the start and the last at the end.    *)
(***************************************************************************)
EXTENDS PatternMatch, SubsequencesProofs, SequenceTheorems

Symbols == Letters \cup {Star}

-----------------------------------------------------------------------------
(* The segments of a pattern.                                              *)

Parts(p) == Cardinality(Stars(p)) + 1

(* The cuts rise from the first to the last; those in between are at the   *)
(* wildcards, and there is no other wildcard.                              *)
LEMMA CutFacts ==
    ASSUME NEW p \in Seq(Symbols)
    PROVE  /\ Cardinality(Stars(p)) \in Nat
           /\ Len(p) \in Nat /\ Parts(p) \in Nat \ {0}
           /\ Cut(p, 0) = 0 /\ Cut(p, Parts(p)) = Len(p) + 1
           /\ \A k \in 0 .. Parts(p) : Cut(p, k) \in 0 .. Len(p) + 1
           /\ \A k \in 1 .. Parts(p) - 1 : Cut(p, k) \in DOMAIN p /\ p[Cut(p, k)] = Star
           /\ \A k, l \in 0 .. Parts(p) : k < l => Cut(p, k) < Cut(p, l)
           /\ \A i \in DOMAIN p : p[i] = Star => \E k \in 1 .. Parts(p) - 1 : Cut(p, k) = i
<1> DEFINE S == Stars(p)
           n == Cardinality(S)
<1>1. /\ Len(p) \in Nat /\ DOMAIN p = 1 .. Len(p)
      /\ S \in SUBSET DOMAIN p
      /\ \A i \in DOMAIN p : i \in S <=> p[i] = Star
  BY DEF Stars
<1> HIDE DEF S
<1>2. /\ n \in Nat
      /\ \A k \in 1 .. n : Nth(S, k) \in S
      /\ \A k, l \in 1 .. n : k < l => Nth(S, k) < Nth(S, l)
      /\ \A i \in S : \E k \in 1 .. n : Nth(S, k) = i
  <2>1. S \in SUBSET Int /\ IsFiniteSet(S)
    BY <1>1, PositionsAreFinite
  <2> QED BY <2>1, NthFacts
<1> HIDE DEF n
<1>3. Parts(p) = n + 1
  BY DEF Parts, n, S
<1>4. \A k \in 1 .. n : Cut(p, k) = Nth(S, k)
  BY <1>2 DEF Cut, n, S
<1>5. Cut(p, 0) = 0 /\ Cut(p, n + 1) = Len(p) + 1
  BY <1>2 DEF Cut, n, S
<1>6. \A k \in 1 .. n : Cut(p, k) \in 1 .. Len(p) /\ p[Cut(p, k)] = Star
  BY <1>1, <1>2, <1>4
<1>7. ASSUME NEW k \in 0 .. n + 1, NEW l \in 0 .. n + 1, k < l PROVE Cut(p, k) < Cut(p, l)
  <2>1. CASE k = 0 /\ l = n + 1
    BY <1>1, <1>5, <2>1
  <2>2. CASE k = 0 /\ l # n + 1
    <3>1. l \in 1 .. n
      BY <1>2, <1>7, <2>2
    <3> QED BY <1>5, <1>6, <2>2, <3>1
  <2>3. CASE k # 0 /\ l = n + 1
    <3>1. k \in 1 .. n
      BY <1>2, <1>7, <2>3
    <3> QED BY <1>1, <1>5, <1>6, <2>3, <3>1
  <2>4. CASE k # 0 /\ l # n + 1
    <3>1. k \in 1 .. n /\ l \in 1 .. n
      BY <1>2, <1>7, <2>4
    <3> QED BY <1>2, <1>4, <1>7, <3>1
  <2> QED BY <2>1, <2>2, <2>3, <2>4
<1>8. ASSUME NEW k \in 0 .. n + 1 PROVE Cut(p, k) \in 0 .. Len(p) + 1
  <2>1. k = 0 \/ k = n + 1 \/ k \in 1 .. n
    BY <1>2
  <2> QED BY <1>1, <1>5, <1>6, <2>1
<1>9. (n + 1) - 1 = n /\ n + 1 \in Nat \ {0}
  BY <1>2
<1>10. Cardinality(Stars(p)) \in Nat
  BY <1>2 DEF n, S
<1> QED BY <1>1, <1>2, <1>3, <1>4, <1>5, <1>6, <1>7, <1>8, <1>9, <1>10

(* A segment holds what is between two cuts, and no wildcard.              *)
LEMMA SegmentFacts ==
    ASSUME NEW p \in Seq(Symbols), NEW k \in 1 .. Parts(p)
    PROVE  /\ DOMAIN Split(p) = 1 .. Parts(p)
           /\ Split(p)[k] \in Seq(Letters)
           /\ Len(Split(p)[k]) = Cut(p, k) - Cut(p, k - 1) - 1
           /\ \A x \in 1 .. Len(Split(p)[k]) :
                /\ Cut(p, k - 1) + x \in DOMAIN p
                /\ p[Cut(p, k - 1) + x] \in Letters
                /\ Split(p)[k][x] = p[Cut(p, k - 1) + x]
<1> DEFINE a == Cut(p, k - 1)
           b == Cut(p, k)
<1>1. DOMAIN Split(p) = 1 .. Parts(p) /\ Split(p)[k] = SubSeq(p, a + 1, b - 1)
  BY DEF Split, Parts
<1>2. /\ Len(p) \in Nat /\ Parts(p) \in Nat /\ DOMAIN p = 1 .. Len(p)
      /\ k - 1 \in 0 .. Parts(p) /\ k \in 0 .. Parts(p) /\ k - 1 < k
  BY CutFacts
<1>3. a \in 0 .. Len(p) + 1 /\ b \in 0 .. Len(p) + 1 /\ a < b
  BY <1>2, CutFacts
<1>4. \A i \in a + 1 .. b - 1 : i \in DOMAIN p /\ p[i] \in Letters
  <2> SUFFICES ASSUME NEW i \in a + 1 .. b - 1 PROVE i \in DOMAIN p /\ p[i] \in Letters
    OBVIOUS
  <2>1. i \in DOMAIN p
    BY <1>2, <1>3
  <2>2. CASE p[i] = Star
    <3>1. PICK l \in 1 .. Parts(p) - 1 : Cut(p, l) = i
      BY <2>1, <2>2, CutFacts
    <3>2. l \in 0 .. Parts(p) /\ l \in Int
      BY <1>2
    <3>3. CASE l < k - 1
      <4>1. Cut(p, l) < a
        BY <1>2, <3>2, <3>3, CutFacts
      <4> QED BY <1>3, <3>1, <4>1
    <3>4. CASE l = k - 1
      BY <1>3, <3>1, <3>4
    <3>5. CASE l = k
      BY <1>3, <3>1, <3>5
    <3>6. CASE k < l
      <4>1. b < Cut(p, l)
        BY <1>2, <3>2, <3>6, CutFacts
      <4> QED BY <1>3, <3>1, <4>1
    <3> QED BY <1>2, <3>2, <3>3, <3>4, <3>5, <3>6
  <2>3. p[i] \in Symbols
    BY <2>1
  <2> QED BY <2>1, <2>2, <2>3 DEF Symbols
<1> HIDE DEF a, b
<1>5. a + 1 \in Int /\ b - 1 \in Int
  BY <1>3
<1>6. /\ SubSeq(p, a + 1, b - 1) \in Seq(Letters)
      /\ Len(SubSeq(p, a + 1, b - 1)) = IF a + 1 <= b - 1 THEN b - 1 - (a + 1) + 1 ELSE 0
      /\ \A x \in 1 .. b - 1 - (a + 1) + 1 :
           SubSeq(p, a + 1, b - 1)[x] = p[a + 1 + x - 1]
  BY <1>4, <1>5, SubSeqProperties
<1>7. Len(SubSeq(p, a + 1, b - 1)) = b - a - 1
  BY <1>3, <1>6
<1>8. \A x \in 1 .. b - a - 1 : a + x \in a + 1 .. b - 1 /\ a + 1 + x - 1 = a + x
  BY <1>3
<1>9. b - 1 - (a + 1) + 1 = b - a - 1
  BY <1>3
<1> QED BY <1>1, <1>4, <1>6, <1>7, <1>8, <1>9 DEF a, b

(* Every position belongs to the segment it or the cut before it starts.   *)
LEMMA BlocksExist ==
    ASSUME NEW p \in Seq(Symbols)
    PROVE  \E blk \in [0 .. Len(p) -> 1 .. Parts(p)] :
              \A i \in 0 .. Len(p) : Cut(p, blk[i] - 1) <= i /\ i < Cut(p, blk[i])
<1>1. Len(p) \in Nat /\ Parts(p) \in Nat \ {0}
  BY CutFacts
<1>2. ASSUME NEW i \in 0 .. Len(p)
      PROVE  \E k \in 1 .. Parts(p) : Cut(p, k - 1) <= i /\ i < Cut(p, k)
  <2> DEFINE T == {k \in 0 .. Parts(p) : i < Cut(p, k)}
  <2>1. T \in SUBSET Nat /\ T # {}
    <3>1. Parts(p) \in T
      BY <1>1, CutFacts
    <3> QED BY <3>1
  <2>2. PICK k \in T : \A l \in T : k <= l
    <3> HIDE DEF T
    <3> QED BY <2>1, LeastNatural
  <2>3. k \in 0 .. Parts(p) /\ i < Cut(p, k) /\ k # 0
    BY CutFacts
  <2>4. k - 1 \in 0 .. Parts(p) /\ ~(k <= k - 1) /\ k \in 1 .. Parts(p)
    BY <1>1, <2>3
  <2>5. k - 1 \notin T
    <3> HIDE DEF T
    <3> QED BY <2>2, <2>4
  <2>6. Cut(p, k - 1) \in Int
    BY <2>4, CutFacts
  <2>7. Cut(p, k - 1) <= i
    BY <1>1, <2>4, <2>5, <2>6
  <2> QED BY <2>3, <2>4, <2>7
<1> DEFINE blk == [i \in 0 .. Len(p) |->
                     CHOOSE k \in 1 .. Parts(p) : Cut(p, k - 1) <= i /\ i < Cut(p, k)]
<1>3. \A i \in 0 .. Len(p) : /\ blk[i] \in 1 .. Parts(p)
                             /\ Cut(p, blk[i] - 1) <= i /\ i < Cut(p, blk[i])
  BY <1>2
<1>4. blk \in [0 .. Len(p) -> 1 .. Parts(p)]
  BY <1>3
<1> HIDE DEF blk
<1> QED BY <1>3, <1>4

-----------------------------------------------------------------------------
(* Occurrences.                                                            *)

(* A segment occurs where its letters are.                                 *)
LEMMA OccurrenceFacts ==
    ASSUME NEW seg \in Seq(Letters), NEW w \in Seq(Letters), NEW from \in Nat, NEW at \in Nat
    PROVE  at \in Occurrences(seg, w, from) <=>
              /\ from <= at /\ at + Len(seg) <= Len(w)
              /\ \A x \in 1 .. Len(seg) : w[at + x] = seg[x]
<1> DEFINE sub == SubSeq(w, at + 1, at + Len(seg))
<1>1. Len(seg) \in Nat /\ Len(w) \in Nat /\ DOMAIN w = 1 .. Len(w)
  OBVIOUS
<1>2. at \in Occurrences(seg, w, from) <=>
         from <= at /\ at + Len(seg) <= Len(w) /\ sub = seg
  BY <1>1 DEF Occurrences
<1>3. ASSUME at + Len(seg) <= Len(w)
      PROVE  sub = seg <=> \A x \in 1 .. Len(seg) : w[at + x] = seg[x]
  <2>1. at + 1 \in Int /\ at + Len(seg) \in Int
    BY <1>1
  <2>2. \A i \in at + 1 .. at + Len(seg) : w[i] \in Letters
    BY <1>1, <1>3
  <2>3. /\ sub \in Seq(Letters)
        /\ Len(sub) = IF at + 1 <= at + Len(seg) THEN at + Len(seg) - (at + 1) + 1 ELSE 0
        /\ \A x \in 1 .. at + Len(seg) - (at + 1) + 1 : sub[x] = w[at + 1 + x - 1]
    BY <2>1, <2>2, SubSeqProperties
  <2> HIDE DEF sub
  <2>4. Len(sub) = Len(seg) /\ \A x \in 1 .. Len(seg) : sub[x] = w[at + x]
    <3>1. at + Len(seg) - (at + 1) + 1 = Len(seg)
      BY <1>1
    <3>2. \A x \in 1 .. Len(seg) : at + 1 + x - 1 = at + x
      OBVIOUS
    <3> QED BY <1>1, <2>3, <3>1, <3>2
  <2>5. (\A x \in 1 .. Len(seg) : sub[x] = seg[x]) => sub = seg
    BY <2>3, <2>4, SeqEqual
  <2> QED BY <2>4, <2>5
<1> QED BY <1>2, <1>3

(* The index of a segment is its first occurrence.                         *)
LEMMA IndexFacts ==
    ASSUME NEW seg \in Seq(Letters), NEW w \in Seq(Letters), NEW from \in Nat
    PROVE  /\ Index(seg, w, from) = Lost <=> Occurrences(seg, w, from) = {}
           /\ Index(seg, w, from) # Lost =>
                /\ Index(seg, w, from) \in Occurrences(seg, w, from)
                /\ Index(seg, w, from) \in Nat
                /\ \A at \in Occurrences(seg, w, from) : Index(seg, w, from) <= at
<1> DEFINE T == Occurrences(seg, w, from)
<1>1. T \in SUBSET Nat
  BY DEF Occurrences
<1> HIDE DEF T
<1>2. T # {} => /\ Min(T) \in T
                /\ \A at \in T : Min(T) <= at
  BY <1>1, LeastNatural DEF Min
<1>3. Index(seg, w, from) = IF T = {} THEN Lost ELSE Min(T)
  BY DEF Index, T
<1>4. Lost \notin Nat
  BY DEF Lost
<1> QED BY <1>1, <1>2, <1>3, <1>4 DEF T

-----------------------------------------------------------------------------
(* Placements: where the segments of a pattern can be in an id.            *)

Placement(p, w, start) ==
    LET segs == Split(p)  n == Parts(p)
    IN  /\ start \in [1 .. n -> Nat]
        /\ start[1] = 0
        /\ start[n] + Len(segs[n]) = Len(w)
        /\ \A k \in 1 .. n : start[k] \in Occurrences(segs[k], w, 0)
        /\ \A k \in 2 .. n : start[k - 1] + Len(segs[k - 1]) <= start[k]

(* How much of the id each prefix of the pattern stands for.               *)
Cuts(p, w, cut) ==
    /\ cut \in [0 .. Len(p) -> 0 .. Len(w)]
    /\ cut[0] = 0
    /\ cut[Len(p)] = Len(w)
    /\ \A i \in 1 .. Len(p) :
         IF p[i] = Star THEN cut[i - 1] <= cut[i]
         ELSE cut[i] = cut[i - 1] + 1 /\ w[cut[i]] = p[i]

(* Within a segment the prefixes grow letter by letter.                    *)
LEMMA SegmentRuns ==
    ASSUME NEW p \in Seq(Symbols), NEW w \in Seq(Letters), NEW cut, Cuts(p, w, cut),
           NEW k \in 1 .. Parts(p)
    PROVE  /\ Cut(p, k - 1) \in 0 .. Len(p)
           /\ \A x \in 0 .. Len(Split(p)[k]) :
                cut[Cut(p, k - 1) + x] = cut[Cut(p, k - 1)] + x
           /\ cut[Cut(p, k - 1)] \in Occurrences(Split(p)[k], w, 0)
<1> DEFINE a == Cut(p, k - 1)
           seg == Split(p)[k]
           n == Len(seg)
           T == {x \in 0 .. n : cut[a + x] # cut[a] + x}
<1>0. /\ \A i \in 0 .. Len(p) : cut[i] \in 0 .. Len(w)
      /\ \A i \in 1 .. Len(p) : p[i] # Star =>
            cut[i] = cut[i - 1] + 1 /\ w[cut[i]] = p[i]
  BY DEF Cuts
<1>1. /\ Len(p) \in Nat /\ Len(w) \in Nat /\ Parts(p) \in Nat
      /\ k - 1 \in 0 .. Parts(p) /\ k \in 0 .. Parts(p) /\ k - 1 < k
  BY CutFacts
<1>2. a \in 0 .. Len(p) + 1 /\ Cut(p, k) \in 0 .. Len(p) + 1 /\ a < Cut(p, k)
  BY <1>1, CutFacts
<1>3. /\ seg \in Seq(Letters) /\ n \in Nat /\ n = Cut(p, k) - a - 1
      /\ \A x \in 1 .. n : a + x \in DOMAIN p /\ p[a + x] \in Letters /\ seg[x] = p[a + x]
  BY SegmentFacts
<1>4. a \in 0 .. Len(p) /\ a + n <= Len(p)
  BY <1>1, <1>2, <1>3
<1> HIDE DEF a, seg, n
<1>5. ASSUME NEW x \in 1 .. n
      PROVE  cut[a + x] = cut[a + x - 1] + 1 /\ w[cut[a + x]] = seg[x]
  <2>1. a + x \in 1 .. Len(p) /\ p[a + x] # Star /\ seg[x] = p[a + x]
    BY <1>3, <1>4, MatchConstants
  <2>2. PICK i \in 1 .. Len(p) : i = a + x
    BY <2>1
  <2>3. p[i] # Star /\ seg[x] = p[i]
    BY <2>1, <2>2
  <2>4. cut[i] = cut[i - 1] + 1 /\ w[cut[i]] = p[i]
    BY <1>0, <2>3
  <2>5. a \in Int /\ x \in Int /\ i \in Int
    BY <1>3, <1>4
  <2>6. i - 1 = a + x - 1
    BY <2>2, <2>5
  <2> QED BY <2>2, <2>3, <2>4, <2>6, Zenon
<1>6. T = {}
  <2> SUFFICES ASSUME T # {} PROVE FALSE
    OBVIOUS
  <2>1. T \in SUBSET Nat
    OBVIOUS
  <2>2. PICK x \in T : \A y \in T : x <= y
    <3> HIDE DEF T
    <3> QED BY <2>1, LeastNatural
  <2>3. cut[a] \in Int
    BY <1>0, <1>4
  <2>4. x # 0 /\ x \in 1 .. n
    <3>1. a + 0 = a /\ cut[a] + 0 = cut[a]
      BY <1>4, <2>3
    <3>2. 0 \notin T
      BY <3>1
    <3>3. x \in 0 .. n
      OBVIOUS
    <3> HIDE DEF T
    <3> QED BY <1>3, <3>2, <3>3
  <2>5. x - 1 \in 0 .. n /\ ~(x <= x - 1)
    BY <1>3, <2>4
  <2>6. x - 1 \notin T
    <3> HIDE DEF T
    <3> QED BY <2>2, <2>5
  <2>7. cut[a + (x - 1)] = cut[a] + (x - 1)
    BY <2>5, <2>6
  <2>8. a + (x - 1) = a + x - 1
    BY <1>4, <2>4
  <2>9. cut[a + x] = cut[a] + x
    BY <1>5, <2>3, <2>4, <2>7, <2>8
  <2> QED BY <2>9
<1>7. \A x \in 0 .. n : cut[a + x] = cut[a] + x
  BY <1>6
<1>8. cut[a] \in Occurrences(seg, w, 0)
  <2>1. cut[a] \in Nat /\ a + n \in 0 .. Len(p)
    <3>1. cut[a] \in 0 .. Len(w)
      BY <1>0, <1>4
    <3> QED BY <1>1, <1>3, <1>4, <3>1
  <2>2. cut[a + n] = cut[a] + n /\ cut[a + n] <= Len(w)
    <3>1. n \in 0 .. n
      BY <1>3
    <3>2. cut[a + n] \in 0 .. Len(w)
      BY <1>0, <2>1
    <3> QED BY <1>1, <1>7, <3>1, <3>2
  <2>3. \A x \in 1 .. n : w[cut[a] + x] = seg[x]
    BY <1>5, <1>7
  <2>4. 0 \in Nat /\ 0 <= cut[a] /\ cut[a] + n <= Len(w)
    BY <2>1, <2>2
  <2> QED BY <1>3, <2>1, <2>3, <2>4, OccurrenceFacts DEF n
<1> QED BY <1>4, <1>7, <1>8 DEF a, n, seg

(* Prefixes of the id give a placement of the segments.                    *)
LEMMA CutsArePlaced ==
    ASSUME NEW p \in Seq(Symbols), NEW w \in Seq(Letters), NEW cut, Cuts(p, w, cut)
    PROVE  Placement(p, w, [k \in 1 .. Parts(p) |-> cut[Cut(p, k - 1)]])
<1> DEFINE n == Parts(p)
           segs == Split(p)
           start == [k \in 1 .. n |-> cut[Cut(p, k - 1)]]
<1>1. /\ Len(p) \in Nat /\ Len(w) \in Nat /\ n \in Nat \ {0}
      /\ Cut(p, 0) = 0 /\ Cut(p, n) = Len(p) + 1
  BY CutFacts
<1>2. \A k \in 1 .. n : /\ Cut(p, k - 1) \in 0 .. Len(p)
                        /\ start[k] \in Occurrences(segs[k], w, 0)
                        /\ \A x \in 0 .. Len(segs[k]) : cut[Cut(p, k - 1) + x] = start[k] + x
  BY SegmentRuns
<1>3. \A k \in 1 .. n : start[k] \in 0 .. Len(w)
  <2>1. \A i \in 0 .. Len(p) : cut[i] \in 0 .. Len(w)
    BY DEF Cuts
  <2> QED BY <1>2, <2>1
<1>4. \A k \in 1 .. n : /\ Len(segs[k]) \in Nat
                        /\ Len(segs[k]) = Cut(p, k) - Cut(p, k - 1) - 1
  BY SegmentFacts
<1>5. start[1] = 0
  BY <1>1 DEF Cuts
<1>6. start[n] + Len(segs[n]) = Len(w)
  <2>1. n \in 1 .. n /\ Len(segs[n]) \in 0 .. Len(segs[n])
    BY <1>1, <1>4
  <2>2. cut[Cut(p, n - 1) + Len(segs[n])] = start[n] + Len(segs[n])
    BY <1>2, <2>1
  <2>3. Cut(p, n - 1) + Len(segs[n]) = Len(p)
    <3>1. Cut(p, n - 1) \in 0 .. Len(p)
      BY <1>2, <2>1
    <3>2. Len(segs[n]) = Cut(p, n) - Cut(p, n - 1) - 1
      BY <1>4, <2>1
    <3> QED BY <1>1, <3>1, <3>2
  <2> QED BY <2>2, <2>3 DEF Cuts
<1>7. ASSUME NEW k \in 2 .. n PROVE start[k - 1] + Len(segs[k - 1]) <= start[k]
  <2> DEFINE i == Cut(p, k - 1)
  <2>1. k - 1 \in 1 .. n /\ k - 1 \in 1 .. n - 1 /\ k \in 1 .. n /\ n \in Nat
    BY <1>1
  <2>2. i \in DOMAIN p /\ p[i] = Star
    BY <2>1, CutFacts
  <2>3. i \in 1 .. Len(p)
    BY <2>2
  <2>4. cut[i - 1] <= cut[i]
    BY <2>2, <2>3 DEF Cuts
  <2>5. Cut(p, k - 1 - 1) + Len(segs[k - 1]) = i - 1
    <3>1. Cut(p, k - 1 - 1) \in Int
      BY <1>2, <2>1
    <3> QED BY <1>4, <2>1, <2>3, <3>1
  <2>6. cut[i - 1] = start[k - 1] + Len(segs[k - 1])
    <3>1. Len(segs[k - 1]) \in 0 .. Len(segs[k - 1])
      BY <1>4, <2>1
    <3> QED BY <1>2, <2>1, <2>5, <3>1
  <2>7. start[k] = cut[i]
    BY <2>1
  <2> QED BY <2>4, <2>6, <2>7
<1>8. start \in [1 .. n -> Nat]
  BY <1>1, <1>3
<1> HIDE DEF start
<1> QED BY <1>2, <1>5, <1>6, <1>7, <1>8 DEF Placement, start

(* A position belongs to one segment only.                                 *)
LEMMA BlockIsUnique ==
    ASSUME NEW p \in Seq(Symbols), NEW i \in Int,
           NEW k \in 1 .. Parts(p), Cut(p, k - 1) <= i, i < Cut(p, k),
           NEW l \in 1 .. Parts(p), Cut(p, l - 1) <= i, i < Cut(p, l)
    PROVE  k = l
<1>1. /\ Parts(p) \in Nat
      /\ k \in 0 .. Parts(p) /\ k - 1 \in 0 .. Parts(p)
      /\ l \in 0 .. Parts(p) /\ l - 1 \in 0 .. Parts(p)
  BY CutFacts
<1>2. /\ Cut(p, k) \in Int /\ Cut(p, l) \in Int
      /\ Cut(p, k - 1) \in Int /\ Cut(p, l - 1) \in Int
  BY <1>1, CutFacts
<1>3. \A a, b \in 0 .. Parts(p) : a < b => Cut(p, a) < Cut(p, b)
  BY CutFacts
<1>4. CASE k < l
  <2>1. k = l - 1 \/ k < l - 1
    BY <1>1, <1>4
  <2>2. Cut(p, k) <= Cut(p, l - 1)
    BY <1>1, <1>2, <1>3, <2>1
  <2> QED BY <1>2, <2>2
<1>5. CASE l < k
  <2>1. l = k - 1 \/ l < k - 1
    BY <1>1, <1>5
  <2>2. Cut(p, l) <= Cut(p, k - 1)
    BY <1>1, <1>2, <1>3, <2>1
  <2> QED BY <1>2, <2>2
<1> QED BY <1>1, <1>4, <1>5

(* A placement of the segments gives prefixes of the id.                   *)
LEMMA PlacedAreCuts ==
    ASSUME NEW p \in Seq(Symbols), NEW w \in Seq(Letters), NEW start, Placement(p, w, start)
    PROVE  \E cut : Cuts(p, w, cut)
<1> DEFINE n == Parts(p)
           segs == Split(p)
<1>1. /\ Len(p) \in Nat /\ DOMAIN p = 1 .. Len(p) /\ Len(w) \in Nat /\ n \in Nat \ {0}
      /\ Cut(p, 0) = 0 /\ Cut(p, n) = Len(p) + 1
      /\ \A k \in 0 .. n : Cut(p, k) \in 0 .. Len(p) + 1
      /\ \A k \in 1 .. n - 1 : p[Cut(p, k)] = Star
      /\ \A k, l \in 0 .. n : k < l => Cut(p, k) < Cut(p, l)
      /\ \A i \in DOMAIN p : p[i] = Star => \E k \in 1 .. n - 1 : Cut(p, k) = i
  BY CutFacts
<1>2. \A k \in 1 .. n : /\ segs[k] \in Seq(Letters)
                        /\ Len(segs[k]) \in Nat
                        /\ Len(segs[k]) = Cut(p, k) - Cut(p, k - 1) - 1
                        /\ \A x \in 1 .. Len(segs[k]) : segs[k][x] = p[Cut(p, k - 1) + x]
  <2> SUFFICES ASSUME NEW k \in 1 .. n
               PROVE  /\ segs[k] \in Seq(Letters)
                      /\ Len(segs[k]) \in Nat
                      /\ Len(segs[k]) = Cut(p, k) - Cut(p, k - 1) - 1
                      /\ \A x \in 1 .. Len(segs[k]) : segs[k][x] = p[Cut(p, k - 1) + x]
    OBVIOUS
  <2>1. /\ segs[k] \in Seq(Letters)
        /\ Len(segs[k]) = Cut(p, k) - Cut(p, k - 1) - 1
        /\ \A x \in 1 .. Len(segs[k]) : segs[k][x] = p[Cut(p, k - 1) + x]
    BY SegmentFacts
  <2> QED BY <2>1
<1>3. /\ start \in [1 .. n -> Nat]
      /\ start[1] = 0
      /\ start[n] + Len(segs[n]) = Len(w)
      /\ \A k \in 2 .. n : start[k - 1] + Len(segs[k - 1]) <= start[k]
  BY DEF Placement
<1>4. ASSUME NEW k \in 1 .. n
      PROVE  /\ start[k] \in Nat /\ start[k] + Len(segs[k]) <= Len(w)
             /\ \A x \in 1 .. Len(segs[k]) : w[start[k] + x] = segs[k][x]
  <2>1. start[k] \in Nat /\ start[k] \in Occurrences(segs[k], w, 0)
    BY <1>3 DEF Placement
  <2>2. 0 \in Nat /\ segs[k] \in Seq(Letters)
    BY <1>2
  <2> QED BY <2>1, <2>2, OccurrenceFacts
<1>5. PICK blk \in [0 .. Len(p) -> 1 .. n] :
         \A i \in 0 .. Len(p) : Cut(p, blk[i] - 1) <= i /\ i < Cut(p, blk[i])
  BY BlocksExist
<1>6. \A i \in 0 .. Len(p), k \in 1 .. n :
         Cut(p, k - 1) <= i /\ i < Cut(p, k) => blk[i] = k
  <2> SUFFICES ASSUME NEW i \in 0 .. Len(p), NEW k \in 1 .. n,
                      Cut(p, k - 1) <= i, i < Cut(p, k)
               PROVE  blk[i] = k
    OBVIOUS
  <2>1. i \in Int /\ blk[i] \in 1 .. n /\ Cut(p, blk[i] - 1) <= i /\ i < Cut(p, blk[i])
    BY <1>5
  <2> QED BY <2>1, BlockIsUnique
<1> DEFINE from(i) == Cut(p, blk[i] - 1)
           cut == [i \in 0 .. Len(p) |-> start[blk[i]] + (i - from(i))]
<1>7. \A i \in 0 .. Len(p) : /\ blk[i] \in 1 .. n
                             /\ from(i) \in Nat
                             /\ i - from(i) \in 0 .. Len(segs[blk[i]])
  <2> SUFFICES ASSUME NEW i \in 0 .. Len(p)
               PROVE  /\ blk[i] \in 1 .. n
                      /\ from(i) \in Nat
                      /\ i - from(i) \in 0 .. Len(segs[blk[i]])
    OBVIOUS
  <2>1. blk[i] \in 1 .. n /\ from(i) <= i /\ i < Cut(p, blk[i])
    BY <1>5
  <2>2. blk[i] - 1 \in 0 .. n /\ blk[i] \in 0 .. n
    BY <1>1, <2>1
  <2>3. from(i) \in 0 .. Len(p) + 1 /\ Cut(p, blk[i]) \in 0 .. Len(p) + 1
    BY <1>1, <2>2
  <2>4. Len(segs[blk[i]]) = Cut(p, blk[i]) - from(i) - 1
    BY <1>2, <2>1
  <2> DEFINE lo == from(i)
             hi == Cut(p, blk[i])
  <2>5. lo \in Int /\ hi \in Int /\ i \in Int /\ lo >= 0 /\ lo <= i /\ i < hi
    BY <1>1, <2>1, <2>3
  <2> HIDE DEF lo, hi
  <2>6. i - lo \in 0 .. hi - lo - 1 /\ lo \in Nat
    BY <2>5
  <2> QED BY <2>1, <2>4, <2>6 DEF lo, hi
<1>8. cut \in [0 .. Len(p) -> 0 .. Len(w)]
  <2> SUFFICES ASSUME NEW i \in 0 .. Len(p)
               PROVE  start[blk[i]] + (i - from(i)) \in 0 .. Len(w)
    OBVIOUS
  <2> HIDE DEF from, segs, n
  <2>1. /\ i - from(i) \in 0 .. Len(segs[blk[i]]) /\ Len(segs[blk[i]]) \in Nat
        /\ start[blk[i]] \in Nat /\ start[blk[i]] + Len(segs[blk[i]]) <= Len(w)
    BY <1>2, <1>4, <1>7
  <2>2. \A x, y, z, l \in Int :
           x >= 0 /\ y \in 0 .. z /\ x + z <= l => x + y \in 0 .. l
    OBVIOUS
  <2>3. /\ start[blk[i]] \in Int /\ start[blk[i]] >= 0 /\ i - from(i) \in Int
        /\ Len(segs[blk[i]]) \in Int /\ Len(w) \in Int
    BY <1>1, <2>1
  <2> QED BY <2>1, <2>2, <2>3
<1>9. cut[0] = 0
  <2>1. 1 \in 1 .. n /\ 0 \in 0 .. n /\ 1 \in 0 .. n /\ 1 - 1 = 0 /\ 0 \in 0 .. Len(p)
    BY <1>1
  <2>2. Cut(p, 0) < Cut(p, 1)
    BY <1>1, <2>1
  <2>3. blk[0] = 1
    BY <1>1, <1>6, <2>1, <2>2
  <2> QED BY <1>1, <1>3, <2>1, <2>3
<1>10. cut[Len(p)] = Len(w)
  <2>1. n \in 1 .. n /\ n - 1 \in 0 .. n /\ n \in 0 .. n /\ n - 1 < n /\ Len(p) \in 0 .. Len(p)
    BY <1>1
  <2>2. Cut(p, n - 1) < Cut(p, n) /\ Cut(p, n - 1) \in 0 .. Len(p) + 1
    BY <1>1, <2>1
  <2>3. blk[Len(p)] = n
    BY <1>1, <1>6, <2>1, <2>2
  <2>4. Len(segs[n]) = Len(p) - Cut(p, n - 1)
    <3>1. Len(segs[n]) = Cut(p, n) - Cut(p, n - 1) - 1 /\ Cut(p, n) = Len(p) + 1
      BY <1>1, <1>2, <2>1
    <3> QED BY <1>1, <2>2, <3>1
  <2>5. cut[Len(p)] = start[n] + (Len(p) - Cut(p, n - 1))
    BY <2>1, <2>3
  <2> QED BY <1>3, <2>4, <2>5
<1>11. ASSUME NEW i \in 1 .. Len(p), p[i] = Star PROVE cut[i - 1] <= cut[i]
  <2>1. PICK l \in 1 .. n - 1 : Cut(p, l) = i
    BY <1>1, <1>11
  <2>2. /\ l \in 1 .. n /\ l + 1 \in 1 .. n /\ l + 1 \in 2 .. n
        /\ l - 1 \in 0 .. n /\ l \in 0 .. n /\ l + 1 \in 0 .. n
        /\ l - 1 < l /\ l < l + 1 /\ (l + 1) - 1 = l
    BY <1>1
  <2>3. Cut(p, l - 1) < i /\ i < Cut(p, l + 1) /\ Cut(p, l - 1) \in 0 .. Len(p) + 1
    BY <1>1, <2>1, <2>2
  <2>4. i \in 0 .. Len(p) /\ i - 1 \in 0 .. Len(p) /\ Cut(p, l - 1) <= i - 1 /\ i - 1 < i
    BY <1>1, <2>3
  <2>5. blk[i] = l + 1
    BY <1>6, <2>1, <2>2, <2>3, <2>4
  <2>6. blk[i - 1] = l
    BY <1>6, <2>1, <2>2, <2>4
  <2>7. cut[i] = start[l + 1] + (i - i)
    BY <2>1, <2>2, <2>4, <2>5
  <2>8. cut[i - 1] = start[l] + (i - 1 - Cut(p, l - 1))
    BY <2>4, <2>6
  <2>9. Len(segs[l]) = i - Cut(p, l - 1) - 1
    BY <1>2, <2>1, <2>2
  <2>10. start[l] + Len(segs[l]) <= start[l + 1] /\ start[l] \in Nat /\ start[l + 1] \in Nat
    <3>1. start[l + 1 - 1] + Len(segs[l + 1 - 1]) <= start[l + 1]
      BY <1>3, <2>2
    <3> QED BY <1>3, <2>2, <3>1
  <2> HIDE DEF cut
  <2> QED BY <2>3, <2>7, <2>8, <2>9, <2>10
<1>12. ASSUME NEW i \in 1 .. Len(p), p[i] # Star
       PROVE  cut[i] = cut[i - 1] + 1 /\ w[cut[i]] = p[i]
  <2> DEFINE k == blk[i]
  <2>1. i \in 0 .. Len(p) /\ i - 1 \in 0 .. Len(p)
    BY <1>1
  <2>2. /\ k \in 1 .. n /\ Cut(p, k - 1) <= i /\ i < Cut(p, k)
        /\ i - Cut(p, k - 1) \in 0 .. Len(segs[k]) /\ Cut(p, k - 1) \in Nat
    BY <1>5, <1>7, <2>1
  <2> HIDE DEF k
  <2>3. Cut(p, k - 1) # i
    <3>1. CASE k = 1
      BY <1>1, <3>1
    <3>2. CASE k # 1
      <4>1. k - 1 \in 1 .. n - 1
        BY <1>1, <2>2, <3>2
      <4> QED BY <1>1, <1>12, <4>1
    <3> QED BY <3>1, <3>2
  <2>4. k \in 0 .. n
    BY <1>1, <2>2
  <2>5. Cut(p, k) \in Int
    BY <1>1, <2>4
  <2>6. Cut(p, k - 1) <= i - 1 /\ i - 1 < Cut(p, k)
    BY <2>2, <2>3, <2>5
  <2>7. blk[i - 1] = k
    BY <1>6, <2>1, <2>2, <2>6
  <2>8. /\ cut[i] = start[k] + (i - Cut(p, k - 1))
        /\ cut[i - 1] = start[k] + (i - 1 - Cut(p, k - 1))
    BY <2>1, <2>7 DEF k
  <2> DEFINE x == i - Cut(p, k - 1)
  <2>9. x \in 1 .. Len(segs[k]) /\ Cut(p, k - 1) + x = i
    <3>1. Len(segs[k]) \in Nat
      BY <1>2, <2>2
    <3> QED BY <2>2, <2>3, <3>1
  <2>10. w[start[k] + x] = p[i]
    <3> HIDE DEF x, segs
    <3>1. w[start[k] + x] = segs[k][x] /\ segs[k][x] = p[Cut(p, k - 1) + x]
      BY <1>2, <1>4, <2>2, <2>9
    <3> QED BY <2>9, <3>1
  <2>11. start[k] \in Nat
    BY <1>3, <2>2
  <2> HIDE DEF cut
  <2> QED BY <2>2, <2>8, <2>10, <2>11
<1> HIDE DEF cut
<1> QED BY <1>8, <1>9, <1>10, <1>11, <1>12 DEF Cuts

-----------------------------------------------------------------------------
(* The denotation.                                                         *)

(* One symbol more, for an id of m letters.                                *)
Covering(p, w, m, i, lengths) ==
    IF p[i] = Star
    THEN {j \in 0 .. m : \E k \in lengths : k <= j}
    ELSE {j \in 1 .. m : p[i] = w[j] /\ j - 1 \in lengths}

Covers(f, p, w, n, m) ==
    /\ f \in [0 .. n -> SUBSET (0 .. m)]
    /\ f[0] = {0}
    /\ \A i \in 1 .. n : f[i] = Covering(p, w, m, i, f[i - 1])

(* The recursion has a solution.                                           *)
LEMMA CoversExist ==
    ASSUME NEW p, NEW w, NEW n \in Nat, NEW m \in Nat
    PROVE  \E f : Covers(f, p, w, n, m)
<1> DEFINE V == SUBSET (0 .. m)
           first == {0}
           step == [i \in 1 .. n |-> [lengths \in V |-> Covering(p, w, m, i, lengths)]]
<1>1. first \in V
  OBVIOUS
<1>2. step \in [1 .. n -> [V -> V]]
  <2> SUFFICES ASSUME NEW i \in 1 .. n, NEW lengths \in V
               PROVE  Covering(p, w, m, i, lengths) \in V
    OBVIOUS
  <2> QED BY DEF Covering
<1>3. PICK f \in [0 .. n -> V] :
         f[0] = first /\ \A i \in 1 .. n : f[i] = step[i][f[i - 1]]
  <2> HIDE DEF V, first, step
  <2> QED BY <1>1, <1>2, RunsExist
<1>4. \A i \in 1 .. n : f[i] = Covering(p, w, m, i, f[i - 1])
  <2> SUFFICES ASSUME NEW i \in 1 .. n PROVE f[i] = Covering(p, w, m, i, f[i - 1])
    OBVIOUS
  <2>1. i - 1 \in 0 .. n
    OBVIOUS
  <2>2. f[i - 1] \in V
    BY <2>1
  <2> QED BY <1>3, <2>2
<1> QED BY <1>3, <1>4 DEF Covers

(* Covered is what its recursion says.                                     *)
LEMMA CoveredFacts ==
    ASSUME NEW p \in Seq(Symbols), NEW w \in Seq(Letters)
    PROVE  /\ Covered(p, w) \in [0 .. Len(p) -> SUBSET (0 .. Len(w))]
           /\ Covered(p, w)[0] = {0}
           /\ \A i \in 1 .. Len(p) :
                Covered(p, w)[i] = Covering(p, w, Len(w), i, Covered(p, w)[i - 1])
<1> DEFINE n == Len(p)
           m == Len(w)
           V == SUBSET (0 .. m)
           Row(f) == [i \in 0 .. n |->
                        IF i = 0 THEN {0}
                        ELSE IF p[i] = Star
                             THEN {j \in 0 .. m : \E k \in f[i - 1] : k <= j}
                             ELSE {j \in 1 .. m : p[i] = w[j] /\ j - 1 \in f[i - 1]}]
<1>1. n \in Nat /\ m \in Nat
  OBVIOUS
<1>2. PICK f : Covers(f, p, w, n, m)
  BY <1>1, CoversExist
<1>3. f = Row(f)
  <2>1. \A i \in 0 .. n :
           f[i] = IF i = 0 THEN {0} ELSE Covering(p, w, m, i, f[i - 1])
    BY <1>1, <1>2 DEF Covers
  <2>2. f = [i \in 0 .. n |-> f[i]]
    BY <1>2 DEF Covers
  <2> QED BY <2>1, <2>2 DEF Covering
<1>4. Covered(p, w) = CHOOSE g : g = Row(g)
  BY DEF Covered
<1>5. Covered(p, w) = Row(Covered(p, w))
  <2> HIDE DEF Row
  <2> QED BY <1>3, <1>4
<1> DEFINE c == Covered(p, w)
<1>6. /\ c = [i \in 0 .. n |-> c[i]]
      /\ \A i \in 0 .. n : c[i] = IF i = 0 THEN {0} ELSE Covering(p, w, m, i, c[i - 1])
  BY <1>5 DEF Covering
<1> HIDE DEF c
<1>7. \A i \in 0 .. n : c[i] \in V
  <2> SUFFICES ASSUME NEW i \in 0 .. n PROVE c[i] \in V
    OBVIOUS
  <2>1. {0} \in V
    BY <1>1
  <2>2. Covering(p, w, m, i, c[i - 1]) \in V
    BY <1>1 DEF Covering
  <2> QED BY <1>6, <2>1, <2>2
<1>8. c \in [0 .. n -> V]
  BY <1>6, <1>7
<1>9. c[0] = {0} /\ \A i \in 1 .. n : c[i] = Covering(p, w, m, i, c[i - 1])
  BY <1>1, <1>6
<1> QED BY <1>8, <1>9 DEF c

(* The pattern denotes the id when its prefixes stand for prefixes of it.  *)
LEMMA DenotesByCuts ==
    ASSUME NEW p \in Seq(Symbols), NEW w \in Seq(Letters)
    PROVE  Denotes(p, w) <=> \E cut : Cuts(p, w, cut)
<1> DEFINE n == Len(p)
           c == Covered(p, w)
           Follows(f, i) == IF p[i] = Star THEN f[i - 1] <= f[i]
                            ELSE f[i] = f[i - 1] + 1 /\ w[f[i]] = p[i]
<1>1. n \in Nat /\ Len(w) \in Nat
  OBVIOUS
<1>2. /\ c \in [0 .. n -> SUBSET (0 .. Len(w))]
      /\ c[0] = {0}
      /\ \A i \in 1 .. n : c[i] = Covering(p, w, Len(w), i, c[i - 1])
  BY CoveredFacts
<1>3. Denotes(p, w) <=> Len(w) \in c[n]
  BY DEF Denotes
<1> HIDE DEF c
<1>4. ASSUME NEW cut, Cuts(p, w, cut) PROVE Denotes(p, w)
  <2> DEFINE T == {i \in 0 .. n : cut[i] \notin c[i]}
  <2>1. /\ cut \in [0 .. n -> 0 .. Len(w)] /\ cut[0] = 0 /\ cut[n] = Len(w)
        /\ \A i \in 1 .. n : Follows(cut, i)
    BY <1>4 DEF Cuts
  <2>2. T = {}
    <3> SUFFICES ASSUME T # {} PROVE FALSE
      OBVIOUS
    <3>1. T \in SUBSET Nat
      OBVIOUS
    <3>2. PICK i \in T : \A j \in T : i <= j
      <4> HIDE DEF T
      <4> QED BY <3>1, LeastNatural
    <3>3. i # 0
      BY <1>2, <2>1
    <3>4. i \in 1 .. n /\ i - 1 \in 0 .. n /\ ~(i <= i - 1)
      BY <1>1, <3>3
    <3>5. i - 1 \notin T
      <4> HIDE DEF T
      <4> QED BY <3>2, <3>4
    <3>6. cut[i - 1] \in c[i - 1] /\ cut[i - 1] \in 0 .. Len(w) /\ cut[i] \in 0 .. Len(w)
      BY <2>1, <3>4, <3>5
    <3>7. c[i] = Covering(p, w, Len(w), i, c[i - 1]) /\ Follows(cut, i)
      BY <1>2, <2>1, <3>4
    <3>8. cut[i] \in c[i]
      <4>1. CASE p[i] = Star
        BY <3>6, <3>7, <4>1 DEF Covering
      <4>2. CASE p[i] # Star
        <5>1. cut[i] \in 1 .. Len(w) /\ cut[i] - 1 = cut[i - 1] /\ p[i] = w[cut[i]]
          BY <1>1, <3>6, <3>7, <4>2
        <5> QED BY <3>6, <3>7, <4>2, <5>1 DEF Covering
      <4> QED BY <4>1, <4>2
    <3> QED BY <3>8
  <2>3. n \in 0 .. n
    BY <1>1
  <2> QED BY <1>3, <2>1, <2>2, <2>3
<1> DEFINE Reaches(f, i, j) == /\ f \in [0 .. i -> 0 .. Len(w)]
                               /\ f[0] = 0 /\ f[i] = j
                               /\ \A k \in 1 .. i : Follows(f, k)
<1>5. ASSUME NEW i \in 1 .. n, NEW j \in c[i],
             \A k \in c[i - 1] : \E f : Reaches(f, i - 1, k)
      PROVE  \E g : Reaches(g, i, j)
  <2>1. j \in 0 .. Len(w) /\ i \in 0 .. n /\ i - 1 \in 0 .. n
    <3>1. i \in 0 .. n /\ i - 1 \in 0 .. n
      BY <1>1
    <3>2. c[i] \in SUBSET (0 .. Len(w))
      BY <1>2, <3>1
    <3> QED BY <3>1, <3>2
  <2>2. PICK k \in c[i - 1] : IF p[i] = Star THEN k <= j ELSE j = k + 1 /\ w[j] = p[i]
    <3>1. j \in Covering(p, w, Len(w), i, c[i - 1])
      BY <1>2
    <3>2. CASE p[i] = Star
      BY <3>1, <3>2 DEF Covering
    <3>3. CASE p[i] # Star
      <4>1. j - 1 \in c[i - 1] /\ w[j] = p[i]
        BY <3>1, <3>3 DEF Covering
      <4>2. j = (j - 1) + 1
        BY <2>1
      <4> QED BY <3>3, <4>1, <4>2
    <3> QED BY <3>2, <3>3
  <2>3. PICK f : Reaches(f, i - 1, k)
    BY <1>5
  <2> DEFINE g == [l \in 0 .. i |-> IF l = i THEN j ELSE f[l]]
  <2>4. g \in [0 .. i -> 0 .. Len(w)] /\ g[0] = 0 /\ g[i] = j /\ g[i - 1] = k
    BY <2>1, <2>3
  <2>5. ASSUME NEW l \in 1 .. i PROVE Follows(g, l)
    <3>1. CASE l = i
      BY <2>2, <2>4, <3>1
    <3>2. CASE l # i
      <4>1. l \in 1 .. i - 1 /\ g[l] = f[l] /\ g[l - 1] = f[l - 1]
        BY <3>2
      <4>2. Follows(f, l)
        BY <2>3, <4>1
      <4> QED BY <4>1, <4>2
    <3> QED BY <3>1, <3>2
  <2> HIDE DEF g
  <2>6. Reaches(g, i, j)
    BY <2>4, <2>5
  <2> QED BY <2>6
<1>6. \A i \in 0 .. n : \A j \in c[i] : \E f : Reaches(f, i, j)
  <2> DEFINE T == {i \in 0 .. n : ~\A j \in c[i] : \E f : Reaches(f, i, j)}
  <2>0. Reaches([l \in 0 .. 0 |-> 0], 0, 0)
    BY <1>1
  <2> HIDE DEF Reaches
  <2> SUFFICES ASSUME T # {} PROVE FALSE
    OBVIOUS
  <2>1. T \in SUBSET Nat
    OBVIOUS
  <2>2. PICK i \in T : \A j \in T : i <= j
    <3> HIDE DEF T
    <3> QED BY <2>1, LeastNatural
  <2>3. i # 0
    BY <1>2, <2>0
  <2>4. i \in 1 .. n /\ i - 1 \in 0 .. n /\ ~(i <= i - 1)
    BY <1>1, <2>3
  <2>5. i - 1 \notin T
    <3> HIDE DEF T
    <3> QED BY <2>2, <2>4
  <2>6. \A k \in c[i - 1] : \E f : Reaches(f, i - 1, k)
    BY <2>4, <2>5
  <2>7. \A j \in c[i] : \E g : Reaches(g, i, j)
    BY <1>5, <2>4, <2>6
  <2> QED BY <2>7
<1>7. ASSUME Denotes(p, w) PROVE \E cut : Cuts(p, w, cut)
  <2>1. n \in 0 .. n /\ Len(w) \in c[n]
    BY <1>1, <1>3, <1>7
  <2>2. PICK f : Reaches(f, n, Len(w))
    <3> HIDE DEF Reaches
    <3> QED BY <1>6, <2>1
  <2>3. Cuts(p, w, f)
    BY <2>2 DEF Cuts
  <2> QED BY <2>3
<1> QED BY <1>4, <1>7

(* Or, which is the same, when its segments can be placed in it.           *)
THEOREM DenotesByPlacement ==
    ASSUME NEW p \in Seq(Symbols), NEW w \in Seq(Letters)
    PROVE  Denotes(p, w) <=> \E start : Placement(p, w, start)
BY DenotesByCuts, CutsArePlaced, PlacedAreCuts

-----------------------------------------------------------------------------
(* The shortcuts.                                                          *)

Size(p, k) == Cut(p, k) - Cut(p, k - 1) - 1

(* A placement of n segments, in terms of the pattern.                     *)
Placed(p, w, start, n) ==
    /\ start[1] = 0
    /\ start[n] + Size(p, n) = Len(w)
    /\ \A k \in 1 .. n :
          /\ start[k] + Size(p, k) <= Len(w)
          /\ \A x \in 1 .. Size(p, k) : w[start[k] + x] = p[Cut(p, k - 1) + x]
    /\ \A k \in 2 .. n : start[k - 1] + Size(p, k - 1) <= start[k]

LEMMA PlacementFacts ==
    ASSUME NEW p \in Seq(Symbols), NEW w \in Seq(Letters), NEW start \in [1 .. Parts(p) -> Nat]
    PROVE  Placement(p, w, start) <=> Placed(p, w, start, Parts(p))
<1>1. Parts(p) \in Nat \ {0}
  BY CutFacts
<1>2. ASSUME NEW k \in 1 .. Parts(p)
      PROVE  /\ Len(Split(p)[k]) = Size(p, k)
             /\ start[k] \in Occurrences(Split(p)[k], w, 0) <=>
                   /\ start[k] + Size(p, k) <= Len(w)
                   /\ \A x \in 1 .. Size(p, k) : w[start[k] + x] = p[Cut(p, k - 1) + x]
  <2>1. /\ Split(p)[k] \in Seq(Letters)
        /\ Len(Split(p)[k]) = Size(p, k)
        /\ \A x \in 1 .. Len(Split(p)[k]) : Split(p)[k][x] = p[Cut(p, k - 1) + x]
    BY SegmentFacts DEF Size
  <2>2. start[k] \in Nat /\ 0 \in Nat /\ 0 <= start[k]
    OBVIOUS
  <2> DEFINE at == start[k]
             seg == Split(p)[k]
  <2>3. at \in Occurrences(seg, w, 0) <=>
              /\ 0 <= at /\ at + Len(seg) <= Len(w)
              /\ \A x \in 1 .. Len(seg) : w[at + x] = seg[x]
    <3>1. seg \in Seq(Letters) /\ at \in Nat /\ 0 \in Nat
      BY <2>1, <2>2
    <3> HIDE DEF at, seg
    <3> QED BY <3>1, OccurrenceFacts
  <2> QED BY <2>1, <2>2, <2>3
<1>3. \A k \in 2 .. Parts(p) : k - 1 \in 1 .. Parts(p)
  BY <1>1
<1>4. Parts(p) \in 1 .. Parts(p)
  BY <1>1
<1> QED BY <1>2, <1>3, <1>4 DEF Placement, Placed

(* A sequence is a prefix or a suffix of another when its elements agree   *)
(* with the other's there.                                                 *)
LEMMA PrefixFacts ==
    ASSUME NEW E, NEW s \in Seq(E), NEW t \in Seq(E)
    PROVE  IsPrefix(s, t) <=> Len(s) <= Len(t) /\ \A x \in 1 .. Len(s) : s[x] = t[x]
<1>1. Len(s) \in Nat /\ Len(t) \in Nat
  OBVIOUS
<1>2. ASSUME Len(s) <= Len(t)
      PROVE  SubSeq(s, 1, Len(s)) = SubSeq(t, 1, Len(s)) <=> \A x \in 1 .. Len(s) : s[x] = t[x]
  <2> DEFINE a == SubSeq(s, 1, Len(s))
             b == SubSeq(t, 1, Len(s))
  <2>1. /\ 1 \in Int /\ Len(s) \in Int
        /\ \A i \in 1 .. Len(s) : s[i] \in E
        /\ \A i \in 1 .. Len(s) : t[i] \in E
    BY <1>1, <1>2
  <2>2. /\ a \in Seq(E) /\ b \in Seq(E)
        /\ Len(a) = IF 1 <= Len(s) THEN Len(s) - 1 + 1 ELSE 0
        /\ Len(b) = IF 1 <= Len(s) THEN Len(s) - 1 + 1 ELSE 0
        /\ \A i \in 1 .. Len(s) - 1 + 1 : a[i] = s[1 + i - 1]
        /\ \A i \in 1 .. Len(s) - 1 + 1 : b[i] = t[1 + i - 1]
    BY <2>1, SubSeqProperties
  <2> HIDE DEF a, b
  <2>3. Len(s) - 1 + 1 = Len(s) /\ \A i \in 1 .. Len(s) : 1 + i - 1 = i
    BY <1>1
  <2>4. /\ Len(a) = Len(s) /\ Len(b) = Len(s)
        /\ \A i \in 1 .. Len(s) : a[i] = s[i] /\ b[i] = t[i]
    BY <1>1, <2>2, <2>3
  <2>5. (\A x \in 1 .. Len(a) : a[x] = b[x]) => a = b
    BY <2>2, <2>4, SeqEqual
  <2>6. a = b <=> \A x \in 1 .. Len(s) : s[x] = t[x]
    BY <2>4, <2>5
  <2> QED BY <2>6 DEF a, b
<1> QED BY <1>2 DEF IsPrefix

LEMMA ReverseFacts ==
    ASSUME NEW E, NEW s \in Seq(E)
    PROVE  /\ Reverse(s) \in Seq(E)
           /\ Len(Reverse(s)) = Len(s)
           /\ \A x \in 1 .. Len(s) : Reverse(s)[x] = s[Len(s) - x + 1]
<1>1. Len(s) \in Nat /\ \A x \in 1 .. Len(s) : Len(s) - x + 1 \in 1 .. Len(s)
  OBVIOUS
<1>2. \A x \in 1 .. Len(s) : s[Len(s) - x + 1] \in E
  BY <1>1
<1>3. Reverse(s) = [x \in 1 .. Len(s) |-> s[Len(s) - x + 1]]
  BY DEF Reverse
<1> QED BY <1>1, <1>2, <1>3

LEMMA SuffixFacts ==
    ASSUME NEW E, NEW s \in Seq(E), NEW t \in Seq(E)
    PROVE  IsSuffix(s, t) <=>
              Len(s) <= Len(t) /\ \A x \in 1 .. Len(s) : s[x] = t[Len(t) - Len(s) + x]
<1> DEFINE m == Len(s)
           n == Len(t)
<1>1. m \in Nat /\ n \in Nat
  OBVIOUS
<1>2. /\ Reverse(s) \in Seq(E) /\ Len(Reverse(s)) = m
      /\ \A x \in 1 .. m : Reverse(s)[x] = s[m - x + 1]
      /\ Reverse(t) \in Seq(E) /\ Len(Reverse(t)) = n
      /\ \A x \in 1 .. n : Reverse(t)[x] = t[n - x + 1]
  BY ReverseFacts
<1>3. IsSuffix(s, t) <=> m <= n /\ \A x \in 1 .. m : Reverse(s)[x] = Reverse(t)[x]
  BY <1>2, PrefixFacts DEF IsSuffix
<1> HIDE DEF m, n
<1>4. ASSUME m <= n
      PROVE  (\A x \in 1 .. m : Reverse(s)[x] = Reverse(t)[x])
               <=> \A x \in 1 .. m : s[x] = t[n - m + x]
  <2>1. \A x \in 1 .. m : x \in 1 .. n /\ m - x + 1 \in 1 .. m
    BY <1>1, <1>4
  <2>2. ASSUME NEW x \in 1 .. m, \A y \in 1 .. m : Reverse(s)[y] = Reverse(t)[y]
        PROVE  s[x] = t[n - m + x]
    <3> DEFINE y == m - x + 1
    <3>1. y \in 1 .. m /\ y \in 1 .. n /\ m - y + 1 = x /\ n - y + 1 = n - m + x
      BY <1>1, <1>4, <2>1
    <3> HIDE DEF y
    <3>2. Reverse(s)[y] = s[x] /\ Reverse(t)[y] = t[n - m + x]
      BY <1>2, <3>1
    <3> QED BY <2>2, <3>1, <3>2
  <2>3. ASSUME NEW x \in 1 .. m, \A y \in 1 .. m : s[y] = t[n - m + y]
        PROVE  Reverse(s)[x] = Reverse(t)[x]
    <3> DEFINE y == m - x + 1
    <3>1. y \in 1 .. m /\ x \in 1 .. n /\ n - x + 1 = n - m + y
      BY <1>1, <1>4, <2>1
    <3>2. Reverse(s)[x] = s[y]
      BY <1>2
    <3> HIDE DEF y
    <3>3. Reverse(t)[x] = t[n - m + y]
      BY <1>2, <3>1
    <3> QED BY <2>3, <3>1, <3>2, <3>3
  <2> QED BY <2>2, <2>3
<1> QED BY <1>3, <1>4 DEF m, n

LEMMA FrontFacts ==
    ASSUME NEW E, NEW s \in Seq(E), s # <<>>
    PROVE  /\ Front(s) \in Seq(E)
           /\ Len(Front(s)) = Len(s) - 1
           /\ \A x \in 1 .. Len(s) - 1 : Front(s)[x] = s[x]
<1>1. Len(s) \in Nat \ {0}
  OBVIOUS
<1>2. /\ 1 \in Int /\ Len(s) - 1 \in Int
      /\ \A i \in 1 .. Len(s) - 1 : s[i] \in E
  BY <1>1
<1>3. /\ SubSeq(s, 1, Len(s) - 1) \in Seq(E)
      /\ Len(SubSeq(s, 1, Len(s) - 1)) =
            IF 1 <= Len(s) - 1 THEN Len(s) - 1 - 1 + 1 ELSE 0
      /\ \A i \in 1 .. Len(s) - 1 - 1 + 1 : SubSeq(s, 1, Len(s) - 1)[i] = s[1 + i - 1]
  BY <1>2, SubSeqProperties
<1>4. Len(s) - 1 - 1 + 1 = Len(s) - 1 /\ \A i \in 1 .. Len(s) - 1 : 1 + i - 1 = i
  BY <1>1
<1>5. Len(SubSeq(s, 1, Len(s) - 1)) = Len(s) - 1
  BY <1>1, <1>3, <1>4
<1> QED BY <1>3, <1>4, <1>5 DEF Front

(* Where the wildcards at the ends are.                                    *)
LEMMA EndFacts ==
    ASSUME NEW p \in Seq(Symbols)
    PROVE  /\ StartsWith(p) <=> Len(p) >= 1 /\ p[1] = Star
           /\ EndsIn(p) <=> Len(p) >= 1 /\ p[Len(p)] = Star
<1>1. <<Star>> \in Seq(Symbols) /\ Len(<<Star>>) = 1 /\ <<Star>>[1] = Star /\ Len(p) \in Nat
  BY DEF Symbols
<1> DEFINE star == <<Star>>
<1>2. StartsWith(p) <=> 1 <= Len(p) /\ \A x \in 1 .. 1 : star[x] = p[x]
  <2>1. StartsWith(p) <=> IsPrefix(star, p)
    BY DEF StartsWith
  <2>2. star \in Seq(Symbols) /\ Len(star) = 1
    BY <1>1
  <2> HIDE DEF star
  <2> QED BY <2>1, <2>2, PrefixFacts
<1>3. EndsIn(p) <=> 1 <= Len(p) /\ \A x \in 1 .. 1 : star[x] = p[Len(p) - 1 + x]
  <2>1. EndsIn(p) <=> IsSuffix(star, p)
    BY DEF EndsIn
  <2>2. star \in Seq(Symbols) /\ Len(star) = 1
    BY <1>1
  <2> HIDE DEF star
  <2>3. IsSuffix(star, p) <=>
          Len(star) <= Len(p) /\ \A x \in 1 .. Len(star) : star[x] = p[Len(p) - Len(star) + x]
    BY <2>2, SuffixFacts
  <2> QED BY <2>1, <2>2, <2>3
<1>4. Len(p) - 1 + 1 = Len(p) /\ \A x \in 1 .. 1 : x = 1
  BY <1>1
<1>5. (\A x \in 1 .. 1 : <<Star>>[x] = p[x]) <=> Star = p[1]
  BY <1>1, <1>4
<1>6. (\A x \in 1 .. 1 : <<Star>>[x] = p[Len(p) - 1 + x]) <=> Star = p[Len(p)]
  BY <1>1, <1>4
<1> QED BY <1>1, <1>2, <1>3, <1>5, <1>6

(* Without a wildcard a pattern denotes itself.                            *)
LEMMA ExactDenotes ==
    ASSUME NEW p \in Seq(Symbols), NEW w \in Seq(Letters), Parts(p) = 1
    PROVE  Denotes(p, w) <=> w = p
<1>1. Len(p) \in Nat /\ Len(w) \in Nat /\ w \in Seq(Symbols)
  BY DEF Symbols
<1>2. Cut(p, 0) = 0 /\ Cut(p, 1) = Len(p) + 1
  BY CutFacts
<1>3. Size(p, 1) = Len(p)
  BY <1>1, <1>2 DEF Size
<1>4. \A start \in [1 .. 1 -> Nat] :
        Placement(p, w, start) <=>
          /\ start[1] = 0 /\ start[1] + Len(p) = Len(w)
          /\ \A x \in 1 .. Len(p) : w[start[1] + x] = p[x]
  <2> SUFFICES ASSUME NEW start \in [1 .. 1 -> Nat]
               PROVE  Placement(p, w, start) <=>
                        /\ start[1] = 0 /\ start[1] + Len(p) = Len(w)
                        /\ \A x \in 1 .. Len(p) : w[start[1] + x] = p[x]
    OBVIOUS
  <2>1. Placement(p, w, start) <=>
              /\ start[1] = 0
              /\ start[1] + Size(p, 1) = Len(w)
              /\ \A k \in 1 .. 1 :
                    /\ start[k] + Size(p, k) <= Len(w)
                    /\ \A x \in 1 .. Size(p, k) : w[start[k] + x] = p[Cut(p, k - 1) + x]
              /\ \A k \in 2 .. 1 : start[k - 1] + Size(p, k - 1) <= start[k]
    <3>1. Placement(p, w, start) <=> Placed(p, w, start, 1)
      BY PlacementFacts
    <3> QED BY <3>1 DEF Placed
  <2>2. \A x \in 1 .. Len(p) : Cut(p, 1 - 1) + x = x
    BY <1>1, <1>2
  <2>3. \A k \in 1 .. 1 : k = 1
    OBVIOUS
  <2> QED BY <1>1, <1>3, <2>1, <2>2, <2>3
<1>5. ASSUME Denotes(p, w) PROVE w = p
  <2>1. PICK start : Placement(p, w, start)
    BY <1>5, DenotesByPlacement
  <2>2. start \in [1 .. 1 -> Nat]
    BY <2>1 DEF Placement
  <2>3. Len(w) = Len(p) /\ \A x \in 1 .. Len(p) : w[x] = p[x]
    BY <1>1, <1>4, <2>1, <2>2
  <2> QED BY <1>1, <2>3, SeqEqual
<1>6. ASSUME w = p PROVE Denotes(p, w)
  <2> DEFINE start == [k \in 1 .. 1 |-> 0]
  <2>1. start \in [1 .. 1 -> Nat] /\ start[1] = 0
    OBVIOUS
  <2> HIDE DEF start
  <2>2. Placement(p, w, start)
    BY <1>1, <1>4, <1>6, <2>1
  <2> QED BY <2>2, DenotesByPlacement
<1> QED BY <1>5, <1>6

(* One wildcard: something at the start of the id and something at its end. *)
LEMMA TwoPartsDenote ==
    ASSUME NEW p \in Seq(Symbols), NEW w \in Seq(Letters), Parts(p) = 2
    PROVE  LET c == Cut(p, 1)
           IN  Denotes(p, w) <=>
                 /\ Len(p) - 1 <= Len(w)
                 /\ \A x \in 1 .. c - 1 : w[x] = p[x]
                 /\ \A x \in 1 .. Len(p) - c : w[Len(w) - (Len(p) - c) + x] = p[c + x]
<1> DEFINE c == Cut(p, 1)
           m == Len(p) - c
<1>1. Len(p) \in Nat /\ Len(w) \in Nat
  OBVIOUS
<1>2. Cut(p, 0) = 0 /\ Cut(p, 2) = Len(p) + 1 /\ c \in 1 .. Len(p)
  <2>1. c \in DOMAIN p
    BY CutFacts
  <2> QED BY <2>1, CutFacts
<1>3. Size(p, 1) = c - 1 /\ Size(p, 2) = m
  BY <1>1, <1>2 DEF Size
<1>4. m \in Nat /\ c - 1 \in Nat /\ c - 1 + m = Len(p) - 1
  BY <1>1, <1>2
<1>5. ASSUME NEW start \in [1 .. 2 -> Nat]
      PROVE  Placement(p, w, start) <=>
               /\ start[1] = 0 /\ start[2] + m = Len(w)
               /\ c - 1 <= Len(w) /\ c - 1 <= start[2]
               /\ \A x \in 1 .. c - 1 : w[x] = p[x]
               /\ \A x \in 1 .. m : w[start[2] + x] = p[c + x]
  <2>1. Placement(p, w, start) <=>
              /\ start[1] = 0
              /\ start[2] + Size(p, 2) = Len(w)
              /\ \A k \in 1 .. 2 :
                    /\ start[k] + Size(p, k) <= Len(w)
                    /\ \A x \in 1 .. Size(p, k) : w[start[k] + x] = p[Cut(p, k - 1) + x]
              /\ \A k \in 2 .. 2 : start[k - 1] + Size(p, k - 1) <= start[k]
    <3>1. Placement(p, w, start) <=> Placed(p, w, start, 2)
      BY PlacementFacts
    <3> QED BY <3>1 DEF Placed
  <2> HIDE DEF m
  <2>2. Placement(p, w, start) <=>
              /\ start[1] = 0
              /\ start[2] + m = Len(w)
              /\ start[1] + (c - 1) <= Len(w)
              /\ \A x \in 1 .. c - 1 : w[start[1] + x] = p[Cut(p, 0) + x]
              /\ start[2] + m <= Len(w)
              /\ \A x \in 1 .. m : w[start[2] + x] = p[c + x]
              /\ start[1] + (c - 1) <= start[2]
    <3>1. (\A k \in 1 .. 2 :
              /\ start[k] + Size(p, k) <= Len(w)
              /\ \A x \in 1 .. Size(p, k) : w[start[k] + x] = p[Cut(p, k - 1) + x])
          <=> /\ start[1] + Size(p, 1) <= Len(w)
              /\ \A x \in 1 .. Size(p, 1) : w[start[1] + x] = p[Cut(p, 0) + x]
              /\ start[2] + Size(p, 2) <= Len(w)
              /\ \A x \in 1 .. Size(p, 2) : w[start[2] + x] = p[Cut(p, 1) + x]
      <4>1. 1 - 1 = 0 /\ 2 - 1 = 1 /\ 1 .. 2 = {1, 2}
        OBVIOUS
      <4> QED BY <4>1
    <3>2. (\A k \in 2 .. 2 : start[k - 1] + Size(p, k - 1) <= start[k])
          <=> start[1] + Size(p, 1) <= start[2]
      <4>1. 2 - 1 = 1 /\ 2 .. 2 = {2}
        OBVIOUS
      <4> QED BY <4>1
    <3> QED BY <1>3, <2>1, <3>1, <3>2
  <2>3. ASSUME start[1] = 0
        PROVE  (\A x \in 1 .. c - 1 : w[start[1] + x] = p[Cut(p, 0) + x])
                 <=> \A x \in 1 .. c - 1 : w[x] = p[x]
    <3>1. \A x \in 1 .. c - 1 : start[1] + x = x /\ Cut(p, 0) + x = x
      BY <1>2, <2>3
    <3> QED BY <3>1
  <2>4. start[1] \in Nat /\ start[2] \in Nat
    OBVIOUS
  <2>5. start[2] + m = Len(w) => start[2] + m <= Len(w)
    BY <1>1
  <2>6. start[1] = 0 => start[1] + (c - 1) = c - 1
    BY <1>4
  <2> HIDE DEF c
  <2> QED BY <2>2, <2>3, <2>5, <2>6
<1>6. ASSUME Denotes(p, w)
      PROVE  /\ Len(p) - 1 <= Len(w)
             /\ \A x \in 1 .. c - 1 : w[x] = p[x]
             /\ \A x \in 1 .. m : w[Len(w) - m + x] = p[c + x]
  <2>1. PICK start : Placement(p, w, start)
    BY <1>6, DenotesByPlacement
  <2>2. start \in [1 .. 2 -> Nat]
    BY <2>1 DEF Placement
  <2>3. /\ start[2] + m = Len(w) /\ c - 1 <= start[2]
        /\ \A x \in 1 .. c - 1 : w[x] = p[x]
        /\ \A x \in 1 .. m : w[start[2] + x] = p[c + x]
    BY <1>5, <2>1, <2>2
  <2>4. start[2] = Len(w) - m
    BY <1>1, <1>4, <2>2, <2>3
  <2> HIDE DEF c, m
  <2> QED BY <1>1, <1>4, <2>3, <2>4
<1>7. ASSUME Len(p) - 1 <= Len(w),
             \A x \in 1 .. c - 1 : w[x] = p[x],
             \A x \in 1 .. m : w[Len(w) - m + x] = p[c + x]
      PROVE  Denotes(p, w)
  <2> DEFINE start == [k \in 1 .. 2 |-> IF k = 1 THEN 0 ELSE Len(w) - m]
  <2>0. Len(w) - m \in Nat /\ c - 1 <= Len(w) - m /\ Len(w) - m + m = Len(w) /\ c - 1 <= Len(w)
    <3> HIDE DEF c, m
    <3> QED BY <1>1, <1>4, <1>7
  <2>1. start \in [1 .. 2 -> Nat] /\ start[1] = 0 /\ start[2] = Len(w) - m
    BY <2>0
  <2> HIDE DEF start, c, m
  <2>2. Placement(p, w, start)
    BY <1>5, <1>7, <2>0, <2>1
  <2> QED BY <2>2, DenotesByPlacement
<1> QED BY <1>6, <1>7

(* Wildcards at both ends and nowhere else: something anywhere in the id.  *)
LEMMA ThreePartsDenote ==
    ASSUME NEW p \in Seq(Symbols), NEW w \in Seq(Letters), Parts(p) = 3,
           Cut(p, 1) = 1, Cut(p, 2) = Len(p)
    PROVE  Denotes(p, w) <=>
              \E at \in Nat : /\ at + (Len(p) - 2) <= Len(w)
                             /\ \A x \in 1 .. Len(p) - 2 : w[at + x] = p[1 + x]
<1> DEFINE m == Len(p) - 2
<1>1. Len(p) \in Nat /\ Len(w) \in Nat
  OBVIOUS
<1>2. Cut(p, 0) = 0 /\ Cut(p, 3) = Len(p) + 1 /\ 1 < Len(p)
  BY CutFacts
<1>3. Size(p, 1) = 0 /\ Size(p, 2) = m /\ Size(p, 3) = 0 /\ m \in Nat
  BY <1>1, <1>2 DEF Size
<1> HIDE DEF m
<1>4. ASSUME NEW start \in [1 .. 3 -> Nat]
      PROVE  Placement(p, w, start) <=>
               /\ start[1] = 0 /\ start[3] = Len(w)
               /\ start[2] + m <= Len(w)
               /\ \A x \in 1 .. m : w[start[2] + x] = p[1 + x]
  <2>1. Placement(p, w, start) <=> Placed(p, w, start, 3)
    BY PlacementFacts
  <2>2. Placed(p, w, start, 3) <=>
              /\ start[1] = 0
              /\ start[3] + 0 = Len(w)
              /\ start[1] + 0 <= Len(w)
              /\ start[2] + m <= Len(w)
              /\ \A x \in 1 .. m : w[start[2] + x] = p[1 + x]
              /\ start[3] + 0 <= Len(w)
              /\ start[1] + 0 <= start[2]
              /\ start[2] + m <= start[3]
    <3>1. (\A k \in 1 .. 3 :
              /\ start[k] + Size(p, k) <= Len(w)
              /\ \A x \in 1 .. Size(p, k) : w[start[k] + x] = p[Cut(p, k - 1) + x])
          <=> /\ start[1] + 0 <= Len(w)
              /\ start[2] + m <= Len(w)
              /\ \A x \in 1 .. m : w[start[2] + x] = p[1 + x]
              /\ start[3] + 0 <= Len(w)
      <4> DEFINE Fits(k) == /\ start[k] + Size(p, k) <= Len(w)
                            /\ \A x \in 1 .. Size(p, k) :
                                 w[start[k] + x] = p[Cut(p, k - 1) + x]
      <4>1. 2 - 1 = 1 /\ 1 .. 3 = {1, 2, 3} /\ 1 .. 0 = {}
        OBVIOUS
      <4>2. (\A k \in 1 .. 3 : Fits(k)) <=> Fits(1) /\ Fits(2) /\ Fits(3)
        <5> HIDE DEF Fits
        <5> QED BY <4>1
      <4>3. Fits(1) <=> start[1] + 0 <= Len(w)
        BY <1>3, <4>1
      <4>4. Fits(2) <=> /\ start[2] + m <= Len(w)
                        /\ \A x \in 1 .. m : w[start[2] + x] = p[1 + x]
        BY <1>3, <4>1
      <4>5. Fits(3) <=> start[3] + 0 <= Len(w)
        BY <1>3, <4>1
      <4> QED BY <4>2, <4>3, <4>4, <4>5
    <3>2. (\A k \in 2 .. 3 : start[k - 1] + Size(p, k - 1) <= start[k])
          <=> start[1] + 0 <= start[2] /\ start[2] + m <= start[3]
      <4>1. 2 - 1 = 1 /\ 3 - 1 = 2 /\ 2 .. 3 = {2, 3}
        OBVIOUS
      <4> QED BY <1>3, <4>1
    <3> QED BY <1>3, <3>1, <3>2 DEF Placed
  <2>3. start[1] \in Nat /\ start[2] \in Nat /\ start[3] \in Nat
    OBVIOUS
  <2> QED BY <1>1, <1>3, <2>1, <2>2, <2>3
<1>5. ASSUME Denotes(p, w)
      PROVE  \E at \in Nat : at + m <= Len(w) /\ \A x \in 1 .. m : w[at + x] = p[1 + x]
  <2>1. PICK start : Placement(p, w, start)
    BY <1>5, DenotesByPlacement
  <2>2. start \in [1 .. 3 -> Nat]
    BY <2>1 DEF Placement
  <2>3. start[2] \in Nat
    BY <2>2
  <2> QED BY <1>4, <2>1, <2>2, <2>3
<1>6. ASSUME NEW at \in Nat, at + m <= Len(w), \A x \in 1 .. m : w[at + x] = p[1 + x]
      PROVE  Denotes(p, w)
  <2> DEFINE start == [k \in 1 .. 3 |-> IF k = 1 THEN 0 ELSE IF k = 2 THEN at ELSE Len(w)]
  <2>1. start \in [1 .. 3 -> Nat] /\ start[1] = 0 /\ start[2] = at /\ start[3] = Len(w)
    BY <1>1
  <2> HIDE DEF start
  <2>2. Placement(p, w, start)
    BY <1>4, <1>6, <2>1
  <2> QED BY <2>2, DenotesByPlacement
<1> QED BY <1>5, <1>6 DEF m

(* Where the wildcards of the shortcuts are.                               *)
LEMMA EndCuts ==
    ASSUME NEW p \in Seq(Symbols)
    PROVE  /\ Parts(p) = 2 /\ EndsIn(p) => Cut(p, 1) = Len(p)
           /\ Parts(p) = 2 /\ StartsWith(p) => Cut(p, 1) = 1
           /\ Parts(p) = 3 /\ StartsWith(p) /\ EndsIn(p) /\ Len(p) > 1 =>
                 Cut(p, 1) = 1 /\ Cut(p, 2) = Len(p)
<1>1. Len(p) \in Nat /\ DOMAIN p = 1 .. Len(p)
  OBVIOUS
<1>2. EndsIn(p) => \E k \in 1 .. Parts(p) - 1 : Cut(p, k) = Len(p)
  BY <1>1, CutFacts, EndFacts
<1>3. StartsWith(p) => \E k \in 1 .. Parts(p) - 1 : Cut(p, k) = 1
  BY <1>1, CutFacts, EndFacts
<1>4. ASSUME Parts(p) = 2 PROVE \A k \in 1 .. Parts(p) - 1 : k = 1
  BY <1>4
<1>5. ASSUME Parts(p) = 3, Len(p) > 1, StartsWith(p), EndsIn(p)
      PROVE  Cut(p, 1) = 1 /\ Cut(p, 2) = Len(p)
  <2>1. \A k \in 1 .. Parts(p) - 1 : k = 1 \/ k = 2
    BY <1>5
  <2>2. Cut(p, 1) < Cut(p, 2) /\ Cut(p, 1) \in Int /\ Cut(p, 2) \in Int
    <3>1. 1 \in 0 .. Parts(p) /\ 2 \in 0 .. Parts(p) /\ 1 < 2
      BY <1>5
    <3> QED BY <3>1, CutFacts
  <2> QED BY <1>1, <1>2, <1>3, <1>5, <2>1, <2>2
<1> QED BY <1>2, <1>3, <1>4, <1>5

(* What compiling a pattern gives.                                         *)
LEMMA ClassifyFacts ==
    ASSUME NEW p \in Seq(Symbols)
    PROVE  \/ Classify(p) = Dropped
           \/ /\ Parts(p) = 1
              /\ Classify(p) = Matcher("exact", <<p>>)
           \/ /\ Parts(p) = 2 /\ Len(p) > 1 /\ EndsIn(p)
              /\ Classify(p) = Matcher("prefix", <<Front(p)>>)
           \/ /\ Parts(p) = 2 /\ Len(p) > 1 /\ StartsWith(p)
              /\ Classify(p) = Matcher("suffix", <<Tail(p)>>)
           \/ /\ Parts(p) = 3 /\ Len(p) > 2 /\ StartsWith(p) /\ EndsIn(p)
              /\ Classify(p) = Matcher("contains", <<Tail(Front(p))>>)
           \/ /\ Parts(p) > 1
              /\ Classify(p) = Matcher("glob", Split(p))
<1> DEFINE n == Cardinality(Stars(p))
           blank == p \in {<<>>, <<Star>>, <<Star, Star>>}
           prefix == n = 1 /\ Len(p) > 1 /\ EndsIn(p)
           suffix == n = 1 /\ Len(p) > 1 /\ StartsWith(p)
           contains == (n = 2 /\ StartsWith(p) /\ EndsIn(p)) /\ Len(p) > 2
           exact == n = 0 /\ p # <<>>
<1>1. n \in Nat
  BY CutFacts
<1>2. Classify(p) = CASE blank    -> Dropped
                      [] exact    -> Matcher("exact", <<p>>)
                      [] prefix   -> Matcher("prefix", <<Front(p)>>)
                      [] suffix   -> Matcher("suffix", <<Tail(p)>>)
                      [] contains -> Matcher("contains", <<Tail(Front(p))>>)
                      [] OTHER    -> Matcher("glob", Split(p))
  BY DEF Classify
<1>3. /\ exact => Parts(p) = 1
      /\ prefix => Parts(p) = 2 /\ Len(p) > 1 /\ EndsIn(p)
      /\ suffix => Parts(p) = 2 /\ Len(p) > 1 /\ StartsWith(p)
      /\ contains => Parts(p) = 3 /\ Len(p) > 2 /\ StartsWith(p) /\ EndsIn(p)
      /\ ~blank /\ ~exact => Parts(p) > 1
  BY <1>1 DEF Parts
<1> HIDE DEF n, blank, exact, prefix, suffix, contains
<1> QED BY <1>2, <1>3

(* A shortcut matches exactly what its pattern denotes.                    *)
THEOREM ShortcutsAreFaithful ==
    ASSUME NEW p \in Seq(Symbols), NEW w \in Seq(Letters),
           Classify(p).kind \in {"exact", "prefix", "suffix", "contains"}
    PROVE  Match(Classify(p), w) <=> Denotes(p, w)
<1>1. Len(p) \in Nat /\ Len(w) \in Nat /\ w \in Seq(Symbols)
  BY DEF Symbols
<1>2. ASSUME Parts(p) = 1, Classify(p) = Matcher("exact", <<p>>)
      PROVE  Match(Classify(p), w) <=> Denotes(p, w)
  <2>1. Match(Classify(p), w) <=> w = p
    BY <1>2 DEF Match, Matcher
  <2> QED BY <1>2, <2>1, ExactDenotes
<1>3. ASSUME Parts(p) = 2, Len(p) > 1, EndsIn(p), Classify(p) = Matcher("prefix", <<Front(p)>>)
      PROVE  Match(Classify(p), w) <=> Denotes(p, w)
  <2>1. Match(Classify(p), w) <=> IsPrefix(Front(p), w)
    BY <1>3 DEF Match, Matcher
  <2>2. /\ Front(p) \in Seq(Symbols) /\ Len(Front(p)) = Len(p) - 1
        /\ \A x \in 1 .. Len(p) - 1 : Front(p)[x] = p[x]
    BY <1>3, FrontFacts
  <2>3. Match(Classify(p), w) <=>
          Len(p) - 1 <= Len(w) /\ \A x \in 1 .. Len(p) - 1 : w[x] = p[x]
    <3>1. IsPrefix(Front(p), w) <=>
            Len(Front(p)) <= Len(w) /\ \A x \in 1 .. Len(Front(p)) : Front(p)[x] = w[x]
      BY <1>1, <2>2, PrefixFacts
    <3> QED BY <2>1, <2>2, <3>1
  <2> DEFINE c == Cut(p, 1)
  <2>4. Denotes(p, w) <=>
          /\ Len(p) - 1 <= Len(w)
          /\ \A x \in 1 .. c - 1 : w[x] = p[x]
          /\ \A x \in 1 .. Len(p) - c : w[Len(w) - (Len(p) - c) + x] = p[c + x]
    BY <1>3, TwoPartsDenote
  <2>5. c = Len(p) /\ Len(p) - c = 0 /\ 1 .. 0 = {}
    BY <1>1, <1>3, EndCuts
  <2> HIDE DEF c
  <2> QED BY <2>3, <2>4, <2>5
<1>4. ASSUME Parts(p) = 2, Len(p) > 1, StartsWith(p), Classify(p) = Matcher("suffix", <<Tail(p)>>)
      PROVE  Match(Classify(p), w) <=> Denotes(p, w)
  <2>1. Match(Classify(p), w) <=> IsSuffix(Tail(p), w)
    BY <1>4 DEF Match, Matcher
  <2>2. /\ Tail(p) \in Seq(Symbols) /\ Len(Tail(p)) = Len(p) - 1
        /\ \A x \in 1 .. Len(p) - 1 : Tail(p)[x] = p[1 + x]
    BY <1>1, <1>4
  <2>3. Match(Classify(p), w) <=>
          /\ Len(p) - 1 <= Len(w)
          /\ \A x \in 1 .. Len(p) - 1 : w[Len(w) - (Len(p) - 1) + x] = p[1 + x]
    <3>1. IsSuffix(Tail(p), w) <=>
            /\ Len(Tail(p)) <= Len(w)
            /\ \A x \in 1 .. Len(Tail(p)) : Tail(p)[x] = w[Len(w) - Len(Tail(p)) + x]
      BY <1>1, <2>2, SuffixFacts
    <3> QED BY <2>1, <2>2, <3>1
  <2> DEFINE c == Cut(p, 1)
  <2>4. Denotes(p, w) <=>
          /\ Len(p) - 1 <= Len(w)
          /\ \A x \in 1 .. c - 1 : w[x] = p[x]
          /\ \A x \in 1 .. Len(p) - c : w[Len(w) - (Len(p) - c) + x] = p[c + x]
    BY <1>4, TwoPartsDenote
  <2>5. c = 1 /\ c - 1 = 0 /\ 1 .. 0 = {}
    BY <1>4, EndCuts
  <2> HIDE DEF c
  <2> QED BY <2>3, <2>4, <2>5
<1>5. ASSUME Parts(p) = 3, Len(p) > 2, StartsWith(p), EndsIn(p),
             Classify(p) = Matcher("contains", <<Tail(Front(p))>>)
      PROVE  Match(Classify(p), w) <=> Denotes(p, w)
  <2> DEFINE mid == Tail(Front(p))
             m == Len(p) - 2
  <2>1. Match(Classify(p), w) <=> Occurrences(mid, w, 0) # {}
    BY <1>5 DEF Match, Matcher
  <2>2. Cut(p, 1) = 1 /\ Cut(p, 2) = Len(p)
    BY <1>1, <1>5, EndCuts
  <2>3. Len(mid) = m /\ m \in Nat /\ \A x \in 1 .. m : mid[x] = p[1 + x]
    <3>1. /\ Front(p) \in Seq(Symbols) /\ Len(Front(p)) = Len(p) - 1
          /\ \A x \in 1 .. Len(p) - 1 : Front(p)[x] = p[x]
      BY <1>5, FrontFacts
    <3>2. /\ Len(Tail(Front(p))) = Len(Front(p)) - 1
          /\ \A x \in 1 .. Len(Front(p)) - 1 : Tail(Front(p))[x] = Front(p)[1 + x]
      BY <1>1, <1>5, <3>1
    <3>3. \A x \in 1 .. m : 1 + x \in 1 .. Len(p) - 1 /\ x \in 1 .. Len(Front(p)) - 1
      BY <1>1, <1>5, <3>1
    <3> QED BY <1>1, <1>5, <3>1, <3>2, <3>3
  <2>4. mid \in Seq(Letters)
    <3>1. 2 \in 1 .. Parts(p) /\ 2 - 1 = 1
      BY <1>5
    <3>2. /\ Len(Split(p)[2]) = Cut(p, 2) - Cut(p, 1) - 1
          /\ \A x \in 1 .. Len(Split(p)[2]) : p[Cut(p, 1) + x] \in Letters
      BY <3>1, SegmentFacts
    <3>3. \A x \in 1 .. m : p[1 + x] \in Letters
      <4>1. Len(Split(p)[2]) = m
        BY <1>1, <2>2, <3>2
      <4> QED BY <2>2, <3>2, <4>1
    <3>4. Front(p) \in Seq(Symbols) /\ Front(p) # <<>>
      BY <1>1, <1>5, FrontFacts
    <3>5. mid \in Seq(Symbols)
      BY <3>4
    <3> HIDE DEF mid, m
    <3> QED BY <2>3, <3>3, <3>5
  <2>5. Denotes(p, w) <=>
          \E at \in Nat : at + m <= Len(w) /\ \A x \in 1 .. m : w[at + x] = p[1 + x]
    BY <1>5, <2>2, ThreePartsDenote
  <2> HIDE DEF mid, m
  <2>6. \A at \in Nat : at \in Occurrences(mid, w, 0) <=>
                            /\ 0 <= at /\ at + Len(mid) <= Len(w)
                            /\ \A x \in 1 .. Len(mid) : w[at + x] = mid[x]
    BY <2>4, OccurrenceFacts
  <2>7. Occurrences(mid, w, 0) \in SUBSET Nat
    BY DEF Occurrences
  <2>8. \A at \in Nat : at \in Occurrences(mid, w, 0) <=>
                            at + m <= Len(w) /\ \A x \in 1 .. m : w[at + x] = p[1 + x]
    <3> SUFFICES ASSUME NEW at \in Nat
                 PROVE  at \in Occurrences(mid, w, 0) <=>
                          at + m <= Len(w) /\ \A x \in 1 .. m : w[at + x] = p[1 + x]
      OBVIOUS
    <3>1. (\A x \in 1 .. m : w[at + x] = mid[x]) <=> \A x \in 1 .. m : w[at + x] = p[1 + x]
      BY <2>3
    <3> QED BY <2>3, <2>6, <3>1
  <2> QED BY <2>1, <2>5, <2>7, <2>8
<1>6. Dropped.kind = "dropped" /\ Matcher("glob", Split(p)).kind = "glob"
  BY DEF Dropped, Matcher
<1> QED BY <1>2, <1>3, <1>4, <1>5, <1>6, ClassifyFacts

-----------------------------------------------------------------------------
(* The general glob.                                                       *)

(* What segment i leaves consumed, of n segments in an id of length m.     *)
Taking(segs, w, n, m, i, from) ==
    IF from = Lost \/ segs[i] = <<>> THEN from
    ELSE LET at == Index(segs[i], w, from)
         IN  IF \/ at = Lost
                \/ i = 1 /\ at # 0
                \/ i = n /\ at + Len(segs[i]) # m
             THEN Lost
             ELSE at + Len(segs[i])

Takes(f, segs, w, n, m) ==
    /\ f \in [0 .. n -> {Lost} \cup 0 .. m]
    /\ f[0] = 0
    /\ \A i \in 1 .. n : f[i] = Taking(segs, w, n, m, i, f[i - 1])

TakingIsTyped(segs, w, n, m) ==
    \A i \in 1 .. n : \A from \in {Lost} \cup 0 .. m :
       Taking(segs, w, n, m, i, from) \in {Lost} \cup 0 .. m

(* The recursion has a solution.                                           *)
LEMMA TakesExist ==
    ASSUME NEW segs, NEW w, NEW n \in Nat, NEW m \in Nat, TakingIsTyped(segs, w, n, m)
    PROVE  \E f : Takes(f, segs, w, n, m)
<1> DEFINE V == {Lost} \cup 0 .. m
           first == 0
           step == [i \in 1 .. n |-> [from \in V |-> Taking(segs, w, n, m, i, from)]]
<1>1. first \in V
  OBVIOUS
<1>2. step \in [1 .. n -> [V -> V]]
  BY DEF TakingIsTyped
<1>3. PICK f \in [0 .. n -> V] :
         f[0] = first /\ \A i \in 1 .. n : f[i] = step[i][f[i - 1]]
  <2> HIDE DEF V, first, step
  <2> QED BY <1>1, <1>2, RunsExist
<1>4. \A i \in 1 .. n : f[i] = Taking(segs, w, n, m, i, f[i - 1])
  <2> SUFFICES ASSUME NEW i \in 1 .. n PROVE f[i] = Taking(segs, w, n, m, i, f[i - 1])
    OBVIOUS
  <2>1. i - 1 \in 0 .. n
    OBVIOUS
  <2>2. f[i - 1] \in V
    BY <2>1
  <2> QED BY <1>3, <2>2
<1> QED BY <1>3, <1>4 DEF Takes

(* One segment of n: it is skipped, or its first occurrence is taken.      *)
Taken(seg, w, n, i, from, end) ==
    /\ from = Lost => end = Lost
    /\ from # Lost /\ seg = <<>> => end = from
    /\ from # Lost /\ seg # <<>> /\ end # Lost =>
          /\ end - Len(seg) \in Occurrences(seg, w, from)
          /\ i = 1 => end = Len(seg)
          /\ i = n => end = Len(w)
    /\ from # Lost /\ seg # <<>> /\ i # n =>
          \A at \in Occurrences(seg, w, from) :
             (i = 1 => at = 0) => end # Lost /\ end <= at + Len(seg)
    /\ (/\ from # Lost /\ seg # <<>> /\ i # 1
        /\ Occurrences(seg, w, from) = {Len(w) - Len(seg)}) => end # Lost

LEMMA TakingFacts ==
    ASSUME NEW segs, NEW w \in Seq(Letters), NEW n, NEW i, segs[i] \in Seq(Letters),
           NEW from \in {Lost} \cup 0 .. Len(w)
    PROVE  /\ Taking(segs, w, n, Len(w), i, from) \in {Lost} \cup 0 .. Len(w)
           /\ Taken(segs[i], w, n, i, from, Taking(segs, w, n, Len(w), i, from))
<1> DEFINE seg == segs[i]
           first == Index(seg, w, from)
           end == Taking(segs, w, n, Len(w), i, from)
           lost == \/ first = Lost
                   \/ i = 1 /\ first # 0
                   \/ i = n /\ first + Len(seg) # Len(w)
<1>1. seg \in Seq(Letters) /\ Len(seg) \in Nat /\ Len(w) \in Nat /\ Lost \notin Nat
  BY DEF Lost
<1>2. CASE from = Lost \/ seg = <<>>
  <2>1. end = from
    BY <1>2 DEF Taking
  <2> QED BY <1>2, <2>1 DEF Taken
<1>3. CASE from # Lost /\ seg # <<>>
  <2>1. from \in Nat
    BY <1>1, <1>3
  <2>2. end = IF lost THEN Lost ELSE first + Len(seg)
    BY <1>3 DEF Taking
  <2> HIDE DEF seg, end, first
  <2>3. /\ first = Lost <=> Occurrences(seg, w, from) = {}
        /\ first # Lost => /\ first \in Occurrences(seg, w, from)
                           /\ first \in Nat
                           /\ \A at \in Occurrences(seg, w, from) : first <= at
    BY <1>1, <2>1, IndexFacts DEF first
  <2>4. first # Lost => first + Len(seg) <= Len(w)
    BY <1>1, <2>1, <2>3, OccurrenceFacts
  <2>5. end # Lost => /\ ~lost /\ end = first + Len(seg)
                      /\ first \in Nat /\ end - Len(seg) = first
    BY <1>1, <2>2, <2>3
  <2>6. end \in {Lost} \cup 0 .. Len(w)
    BY <1>1, <2>3, <2>4, <2>5
  <2>7. end # Lost => /\ end - Len(seg) \in Occurrences(seg, w, from)
                      /\ i = 1 => end = Len(seg)
                      /\ i = n => end = Len(w)
    BY <1>1, <2>3, <2>5
  <2>8. ASSUME i # n, NEW at \in Occurrences(seg, w, from), i = 1 => at = 0
        PROVE  end # Lost /\ end <= at + Len(seg)
    <3>0. at \in Nat
      BY <2>1, <2>8 DEF Occurrences
    <3>1. first # Lost /\ first \in Nat /\ first <= at /\ at \in Nat
      BY <2>3, <2>8, <3>0
    <3>2. ~lost
      BY <2>8, <3>1
    <3>3. first + Len(seg) \in Nat
      BY <1>1, <3>1
    <3> QED BY <1>1, <2>2, <3>1, <3>2, <3>3
  <2>9. ASSUME i # 1, Occurrences(seg, w, from) = {Len(w) - Len(seg)} PROVE end # Lost
    <3>1. first # Lost /\ first \in Nat /\ first = Len(w) - Len(seg)
      BY <2>3, <2>9
    <3>2. ~lost
      BY <1>1, <2>9, <3>1
    <3>3. first + Len(seg) \in Nat
      BY <1>1, <3>1
    <3> QED BY <1>1, <2>2, <3>2, <3>3
  <2>10. Taken(seg, w, n, i, from, end)
    BY <1>3, <2>7, <2>8, <2>9 DEF Taken
  <2> QED BY <2>6, <2>10 DEF seg, end
<1> QED BY <1>2, <1>3

(* What a glob has consumed, segment by segment.                           *)
LEMMA ConsumedFacts ==
    ASSUME NEW p \in Seq(Symbols), NEW w \in Seq(Letters)
    PROVE  LET c == Consumed(Split(p), w)
               n == Parts(p)
           IN  /\ Len(Split(p)) = n
               /\ c[0] = 0
               /\ \A i \in 0 .. n : c[i] \in {Lost} \cup 0 .. Len(w)
               /\ \A i \in 1 .. n : c[i] = Taking(Split(p), w, n, Len(w), i, c[i - 1])
<1> DEFINE segs == Split(p)
           n == Len(segs)
           m == Len(w)
           V == {Lost} \cup 0 .. m
           Row(f) == [i \in 0 .. n |->
                        IF i = 0 THEN 0
                        ELSE IF f[i - 1] = Lost \/ segs[i] = <<>> THEN f[i - 1]
                        ELSE LET at == Index(segs[i], w, f[i - 1])
                             IN  IF \/ at = Lost
                                    \/ i = 1 /\ at # 0
                                    \/ i = n /\ at + Len(segs[i]) # m
                                 THEN Lost
                                 ELSE at + Len(segs[i])]
<1>1. n = Parts(p) /\ n \in Nat \ {0} /\ m \in Nat
  <2>1. Parts(p) \in Nat \ {0}
    BY CutFacts
  <2>2. segs = [k \in 1 .. Parts(p) |-> SubSeq(p, Cut(p, k - 1) + 1, Cut(p, k) - 1)]
    BY DEF Split, Parts
  <2> HIDE DEF segs
  <2>3. Len(segs) = Parts(p)
    BY <2>1, <2>2
  <2> QED BY <2>1, <2>3
<1>2. \A i \in 1 .. n : segs[i] \in Seq(Letters)
  BY <1>1, SegmentFacts
<1>3. TakingIsTyped(segs, w, n, m)
  <2> SUFFICES ASSUME NEW i \in 1 .. n, NEW from \in V
               PROVE  Taking(segs, w, n, m, i, from) \in V
    BY DEF TakingIsTyped
  <2>1. segs[i] \in Seq(Letters)
    BY <1>2
  <2> HIDE DEF segs, n
  <2> QED BY <2>1, TakingFacts
<1>4. Consumed(segs, w) = CHOOSE f : f = Row(f)
  BY DEF Consumed
<1> HIDE DEF segs, n
<1>5. PICK f : Takes(f, segs, w, n, m)
  BY <1>1, <1>3, TakesExist
<1>6. f = Row(f)
  <2>1. \A i \in 0 .. n :
           f[i] = IF i = 0 THEN 0 ELSE Taking(segs, w, n, m, i, f[i - 1])
    BY <1>1, <1>5 DEF Takes
  <2>2. f = [i \in 0 .. n |-> f[i]]
    BY <1>5 DEF Takes
  <2> QED BY <2>1, <2>2 DEF Taking
<1> DEFINE c == Consumed(segs, w)
<1>7. c = Row(c)
  <2> HIDE DEF Row
  <2> QED BY <1>4, <1>6
<1>8. \A i \in 0 .. n : c[i] = IF i = 0 THEN 0 ELSE Taking(segs, w, n, m, i, c[i - 1])
  <2> HIDE DEF c
  <2> QED BY <1>7 DEF Taking
<1> HIDE DEF c
<1>9. \A i \in 0 .. n : c[i] \in V
  <2> DEFINE T == {i \in 0 .. n : c[i] \notin V}
  <2> SUFFICES ASSUME T # {} PROVE FALSE
    OBVIOUS
  <2>1. T \in SUBSET Nat
    OBVIOUS
  <2>2. PICK i \in T : \A j \in T : i <= j
    <3> HIDE DEF T
    <3> QED BY <2>1, LeastNatural
  <2>3. i # 0
    BY <1>1, <1>8
  <2>4. i \in 1 .. n /\ i - 1 \in 0 .. n /\ ~(i <= i - 1)
    BY <1>1, <2>3
  <2>5. i - 1 \notin T
    <3> HIDE DEF T
    <3> QED BY <2>2, <2>4
  <2>6. c[i - 1] \in V /\ c[i] = Taking(segs, w, n, m, i, c[i - 1])
    BY <1>1, <1>8, <2>4, <2>5
  <2>7. c[i] \in V
    BY <1>3, <2>4, <2>6 DEF TakingIsTyped
  <2> QED BY <2>7
<1>10. c[0] = 0 /\ \A i \in 1 .. n : c[i] = Taking(segs, w, n, m, i, c[i - 1])
  BY <1>1, <1>8
<1> QED BY <1>1, <1>9, <1>10 DEF c, segs, n

(* And step by step.                                                       *)
LEMMA ConsumedSteps ==
    ASSUME NEW p \in Seq(Symbols), NEW w \in Seq(Letters), NEW c, NEW n,
           c = Consumed(Split(p), w), n = Parts(p), NEW i \in 1 .. n
    PROVE  Taken(Split(p)[i], w, n, i, c[i - 1], c[i])
<1> DEFINE segs == Split(p)
           from == c[i - 1]
<1>1. n \in Nat \ {0} /\ i - 1 \in 0 .. n
  BY CutFacts
<1>2. segs[i] \in Seq(Letters)
  BY SegmentFacts
<1>3. from \in {Lost} \cup 0 .. Len(w) /\ c[i] = Taking(segs, w, n, Len(w), i, from)
  BY <1>1, ConsumedFacts
<1> HIDE DEF segs, from
<1>4. Taken(segs[i], w, n, i, from, Taking(segs, w, n, Len(w), i, from))
  BY <1>2, <1>3, TakingFacts
<1> QED BY <1>3, <1>4 DEF segs, from

(* A glob that matches has placed its segments.                            *)
LEMMA GlobIsSound ==
    ASSUME NEW p \in Seq(Symbols), NEW w \in Seq(Letters), Parts(p) > 1,
           GlobMatch(Split(p), w)
    PROVE  Denotes(p, w)
<1> DEFINE segs == Split(p)
           n == Parts(p)
           c == Consumed(Split(p), w)
           size == [k \in 1 .. n |-> Len(segs[k])]
           start == [k \in 1 .. n |-> IF k = n /\ segs[k] = <<>> THEN Len(w)
                                       ELSE c[k] - size[k]]
<1>1. n \in Nat /\ n > 1 /\ Len(w) \in Nat /\ Lost \notin Nat
  BY CutFacts DEF Lost
<1>2. /\ c[0] = 0 /\ c[n] # Lost
      /\ \A i \in 0 .. n : c[i] \in {Lost} \cup 0 .. Len(w)
  <2>1. c[Len(segs)] # Lost
    BY DEF GlobMatch
  <2>2. Len(segs) = n
    BY ConsumedFacts
  <2> HIDE DEF segs, n
  <2> QED BY <2>1, <2>2, ConsumedFacts DEF segs, n
<1>3. \A k \in 1 .. n : /\ segs[k] \in Seq(Letters)
                        /\ size[k] = Len(segs[k]) /\ size[k] \in Nat
                        /\ segs[k] = <<>> <=> size[k] = 0
  BY SegmentFacts
<1>4. \A i \in 1 .. n : Taken(segs[i], w, n, i, c[i - 1], c[i])
  BY ConsumedSteps
<1>5. \A i \in 0 .. n : c[i] # Lost
  <2> DEFINE T == {j \in 0 .. n : c[n - j] = Lost}
  <2> HIDE DEF c, n, segs, size
  <2> SUFFICES ASSUME T # {} PROVE FALSE
    <3>1. \A i \in 0 .. n : n - i \in 0 .. n /\ n - (n - i) = i
      BY <1>1
    <3> QED BY <3>1
  <2>1. T \in SUBSET Nat
    OBVIOUS
  <2>2. PICK j \in T : \A l \in T : j <= l
    <3> HIDE DEF T
    <3> QED BY <2>1, LeastNatural
  <2>3. j # 0
    <3>1. n - 0 = n
      BY <1>1
    <3> QED BY <1>2, <3>1
  <2> DEFINE i == n - (j - 1)
  <2>4. j - 1 \in 0 .. n /\ ~(j <= j - 1) /\ i \in 1 .. n /\ i - 1 = n - j
    BY <1>1, <2>3
  <2>5. j - 1 \notin T
    <3> HIDE DEF T
    <3> QED BY <2>2, <2>4
  <2>6. c[i] # Lost
    BY <2>4, <2>5
  <2>7. c[i - 1] = Lost
    BY <2>4
  <2> HIDE DEF i
  <2> QED BY <1>4, <2>4, <2>6, <2>7 DEF Taken
<1>6. \A i \in 0 .. n : c[i] \in 0 .. Len(w)
  BY <1>2, <1>5
<1>7. ASSUME NEW i \in 1 .. n
      PROVE  /\ i - 1 \in 0 .. n /\ c[i - 1] \in 0 .. Len(w) /\ c[i] \in 0 .. Len(w)
             /\ size[i] = 0 => c[i] = c[i - 1]
             /\ size[i] # 0 =>
                   /\ c[i] - size[i] \in Occurrences(segs[i], w, c[i - 1])
                   /\ i = 1 => c[i] = size[i]
                   /\ i = n => c[i] = Len(w)
  <2>1. i - 1 \in 0 .. n /\ i \in 0 .. n
    BY <1>1
  <2>2. c[i - 1] # Lost /\ c[i] # Lost
    BY <1>5, <2>1
  <2>3. Taken(segs[i], w, n, i, c[i - 1], c[i])
    BY <1>4
  <2>4. c[i - 1] \in 0 .. Len(w) /\ c[i] \in 0 .. Len(w)
    BY <1>6, <2>1
  <2>5. size[i] = Len(segs[i]) /\ (segs[i] = <<>> <=> size[i] = 0)
    BY <1>3
  <2> HIDE DEF segs, n, c, size
  <2> QED BY <2>1, <2>2, <2>3, <2>4, <2>5 DEF Taken
<1>8. ASSUME NEW i \in 1 .. n
      PROVE  /\ start[i] \in Nat /\ c[i - 1] <= start[i]
             /\ start[i] \in Occurrences(segs[i], w, 0)
             /\ start[i] + size[i] = IF i = n THEN Len(w) ELSE c[i]
  <2>1. /\ i - 1 \in 0 .. n /\ c[i - 1] \in 0 .. Len(w) /\ c[i] \in 0 .. Len(w)
        /\ size[i] = 0 => c[i] = c[i - 1]
        /\ size[i] # 0 =>
              /\ c[i] - size[i] \in Occurrences(segs[i], w, c[i - 1])
              /\ i = n => c[i] = Len(w)
    BY <1>7
  <2>2. /\ segs[i] \in Seq(Letters) /\ size[i] = Len(segs[i]) /\ size[i] \in Nat
        /\ segs[i] = <<>> <=> size[i] = 0
    BY <1>3
  <2>3. start[i] = IF i = n /\ size[i] = 0 THEN Len(w) ELSE c[i] - size[i]
    BY <2>2
  <2> DEFINE seg == segs[i]
             at == start[i]
             from == c[i - 1]
             end == c[i]
             m == size[i]
  <2>4. /\ from \in 0 .. Len(w) /\ end \in 0 .. Len(w)
        /\ m = 0 => end = from
        /\ m # 0 => /\ end - m \in Occurrences(seg, w, from)
                    /\ i = n => end = Len(w)
        /\ seg \in Seq(Letters) /\ m = Len(seg) /\ m \in Nat
        /\ at = IF i = n /\ m = 0 THEN Len(w) ELSE end - m
    BY <2>1, <2>2, <2>3
  <2>5. at \in Nat /\ from <= at
    <3> HIDE DEF at, from, end, m, seg, n, segs, c, size, start
    <3>1. CASE m = 0
      BY <1>1, <2>4, <3>1
    <3>2. CASE m # 0
      <4>1. at \in Occurrences(seg, w, from) /\ from \in Nat
        BY <1>1, <2>4, <3>2
      <4> QED BY <2>4, <4>1 DEF Occurrences
    <3> QED BY <3>1, <3>2
  <2>6. at \in Occurrences(seg, w, 0)
    <3> HIDE DEF at, from, end, m, seg, n, segs, c, size, start
    <3>1. CASE m = 0
      <4>1. at <= Len(w) /\ 0 <= at /\ at + Len(seg) <= Len(w) /\ 1 .. Len(seg) = {}
        BY <1>1, <2>4, <2>5, <3>1
      <4>2. 0 \in Nat
        OBVIOUS
      <4> QED BY <2>4, <2>5, <4>1, <4>2, OccurrenceFacts
    <3>2. CASE m # 0
      <4>1. at \in Occurrences(seg, w, from)
        BY <1>1, <2>4, <3>2
      <4> QED BY <2>4, <2>5, <4>1 DEF Occurrences
    <3> QED BY <3>1, <3>2
  <2>7. at + m = IF i = n THEN Len(w) ELSE end
    <3> HIDE DEF at, from, end, m, seg, n, segs, c, size, start
    <3> QED BY <1>1, <2>4
  <2> QED BY <2>5, <2>6, <2>7
<1>9. start[1] = 0
  <2>1. 1 \in 1 .. n /\ 1 # n /\ 1 - 1 = 0
    BY <1>1
  <2>2. c[1] = size[1] /\ size[1] \in Nat
    <3>1. size[1] = 0 => c[1] = c[0]
      BY <1>7, <2>1
    <3>2. size[1] # 0 => c[1] = size[1]
      BY <1>7, <2>1
    <3>3. size[1] \in Nat
      BY <1>3, <2>1
    <3> HIDE DEF c, size
    <3> QED BY <1>2, <3>1, <3>2, <3>3
  <2>3. start[1] = c[1] - size[1]
    BY <2>1
  <2> HIDE DEF c, size, start
  <2> QED BY <2>2, <2>3
<1>10. ASSUME NEW k \in 2 .. n PROVE start[k - 1] + Len(segs[k - 1]) <= start[k]
  <2>1. k \in 1 .. n /\ k - 1 \in 1 .. n /\ k - 1 # n
    BY <1>1
  <2>2. start[k - 1] + size[k - 1] = c[k - 1]
    <3> HIDE DEF start, size, c, segs, n
    <3> QED BY <1>8, <2>1
  <2>3. c[k - 1] <= start[k]
    <3> HIDE DEF start, size, c, segs, n
    <3> QED BY <1>8, <2>1
  <2>4. size[k - 1] = Len(segs[k - 1])
    BY <2>1
  <2> HIDE DEF start, size, c, segs, n
  <2> QED BY <2>2, <2>3, <2>4
<1>11. start[n] + Len(segs[n]) = Len(w)
  <2>1. n \in 1 .. n
    BY <1>1
  <2>2. start[n] + size[n] = Len(w)
    <3> HIDE DEF start, size, c, segs, n
    <3> QED BY <1>8, <2>1
  <2>3. size[n] = Len(segs[n])
    BY <2>1
  <2> HIDE DEF start, size, c, segs, n
  <2> QED BY <2>2, <2>3
<1>12. start \in [1 .. n -> Nat]
  <2>1. start = [k \in 1 .. n |-> start[k]]
    OBVIOUS
  <2> HIDE DEF start
  <2> QED BY <1>8, <2>1
<1>13. Placement(p, w, start)
  <2> HIDE DEF start
  <2> QED BY <1>8, <1>9, <1>10, <1>11, <1>12 DEF Placement
<1> QED BY <1>13, DenotesByPlacement

(* A glob consumes no more than a placement does, so the first occurrences *)
(* are as good as any, and the last segment is where the id ends unless it *)
(* occurs elsewhere, too.                                                  *)
LEMMA GlobIsComplete ==
    ASSUME NEW p \in Seq(Symbols), NEW w \in Seq(Letters), Parts(p) > 1, Denotes(p, w),
           NEW ending, ending = Split(p)[Parts(p)],
           ending = <<>> \/ Occurrences(ending, w, 0) = {Len(w) - Len(ending)}
    PROVE  GlobMatch(Split(p), w)
<1> DEFINE segs == Split(p)
           n == Parts(p)
           c == Consumed(Split(p), w)
           size == [k \in 1 .. n |-> Len(segs[k])]
<1>1. /\ n \in Nat /\ n > 1 /\ Len(w) \in Nat /\ Lost \notin Nat
      /\ Len(segs) = n /\ segs[n] = ending
  <2>1. n \in Nat /\ Len(segs) = n
    BY CutFacts, ConsumedFacts
  <2> QED BY <2>1 DEF Lost
<1>2. /\ c[0] = 0
      /\ \A i \in 0 .. n : c[i] \in {Lost} \cup 0 .. Len(w)
  BY ConsumedFacts
<1>3. \A k \in 1 .. n : /\ segs[k] \in Seq(Letters)
                        /\ size[k] = Len(segs[k]) /\ size[k] \in Nat
  <2> SUFFICES ASSUME NEW k \in 1 .. n PROVE segs[k] \in Seq(Letters) /\ Len(segs[k]) \in Nat
    OBVIOUS
  <2>1. segs[k] \in Seq(Letters)
    BY SegmentFacts
  <2> HIDE DEF segs
  <2> QED BY <2>1
<1>4. \A i \in 1 .. n : Taken(segs[i], w, n, i, c[i - 1], c[i])
  BY ConsumedSteps
<1>5. PICK start : Placement(p, w, start)
  BY DenotesByPlacement
<1>6. /\ start \in [1 .. n -> Nat] /\ start[1] = 0
      /\ \A k \in 1 .. n : start[k] \in Occurrences(segs[k], w, 0)
      /\ \A k \in 2 .. n : start[k - 1] + Len(segs[k - 1]) <= start[k]
  BY <1>5 DEF Placement
<1> HIDE DEF segs, n, c
<1>7. ASSUME NEW k \in 1 .. n - 1, c[k - 1] # Lost, c[k - 1] <= start[k]
      PROVE  c[k] # Lost /\ c[k] <= start[k] + size[k]
  <2>1. k \in 1 .. n /\ k # n /\ k - 1 \in 0 .. n
    BY <1>1
  <2>2. c[k - 1] \in Nat /\ start[k] \in Nat /\ size[k] \in Nat
    BY <1>1, <1>2, <1>3, <1>6, <1>7, <2>1
  <2>3. Taken(segs[k], w, n, k, c[k - 1], c[k]) /\ size[k] = Len(segs[k])
    BY <1>3, <1>4, <2>1
  <2>4. CASE segs[k] = <<>>
    <3>1. c[k] = c[k - 1]
      BY <1>7, <2>3, <2>4 DEF Taken
    <3> QED BY <1>7, <2>2, <3>1
  <2>5. CASE segs[k] # <<>>
    <3> DEFINE seg == segs[k]
               at == start[k]
               from == c[k - 1]
    <3>1. at \in Occurrences(seg, w, from)
      <4>1. /\ at \in Occurrences(seg, w, 0) /\ from <= at /\ seg \in Seq(Letters)
            /\ at \in Nat /\ from \in Nat
        BY <1>3, <1>6, <1>7, <2>1, <2>2
      <4> HIDE DEF seg, at, from
      <4> QED BY <1>1, <4>1 DEF Occurrences
    <3>2. k = 1 => at = 0
      BY <1>6
    <3> QED BY <1>7, <2>1, <2>3, <2>5, <3>1, <3>2 DEF Taken
  <2> QED BY <2>4, <2>5
<1>8. \A k \in 1 .. n - 1 : c[k] # Lost /\ c[k] <= start[k] + size[k]
  <2> DEFINE T == {k \in 1 .. n - 1 : ~(c[k] # Lost /\ c[k] <= start[k] + size[k])}
  <2> HIDE DEF size
  <2> SUFFICES ASSUME T # {} PROVE FALSE
    OBVIOUS
  <2>1. T \in SUBSET Nat
    OBVIOUS
  <2>2. PICK k \in T : \A j \in T : k <= j
    <3> HIDE DEF T
    <3> QED BY <2>1, LeastNatural
  <2>3. k \in 1 .. n - 1 /\ k \in 1 .. n /\ ~(k <= k - 1)
    BY <1>1
  <2>4. k - 1 \notin T
    <3> HIDE DEF T
    <3> QED BY <2>2, <2>3
  <2>5. c[k - 1] # Lost /\ c[k - 1] <= start[k]
    <3>1. CASE k = 1
      <4>1. k - 1 = 0 /\ start[k] = 0
        BY <1>6, <3>1
      <4> QED BY <1>1, <1>2, <4>1
    <3>2. CASE k # 1
      <4>1. k - 1 \in 1 .. n - 1 /\ k \in 2 .. n /\ k - 1 \in 1 .. n /\ k - 1 \in 0 .. n
        BY <1>1, <2>3, <3>2
      <4>2. c[k - 1] # Lost /\ c[k - 1] <= start[k - 1] + size[k - 1]
        BY <2>4, <4>1
      <4>3. start[k - 1] + size[k - 1] <= start[k]
        BY <1>3, <1>6, <4>1
      <4>4. c[k - 1] \in Nat /\ start[k] \in Nat /\ start[k - 1] + size[k - 1] \in Nat
        <5>1. c[k - 1] \in Nat
          BY <1>1, <1>2, <4>1, <4>2
        <5>2. start[k] \in Nat /\ start[k - 1] \in Nat
          BY <1>6, <4>1
        <5>3. size[k - 1] \in Nat
          BY <1>3, <4>1
        <5> QED BY <5>1, <5>2, <5>3
      <4> QED BY <4>2, <4>3, <4>4
    <3> QED BY <3>1, <3>2
  <2>6. c[k] # Lost /\ c[k] <= start[k] + size[k]
    BY <1>7, <2>3, <2>5
  <2> QED BY <2>6
<1>9. c[n] # Lost
  <2>1. n - 1 \in 1 .. n - 1 /\ n \in 1 .. n
    BY <1>1
  <2>2. c[n - 1] # Lost /\ c[n - 1] <= start[n - 1] + size[n - 1]
    BY <1>8, <2>1
  <2>3. Taken(ending, w, n, n, c[n - 1], c[n])
    BY <1>1, <1>4, <2>1
  <2>4. CASE ending = <<>>
    BY <2>2, <2>3, <2>4 DEF Taken
  <2>5. CASE Occurrences(ending, w, 0) = {Len(w) - Len(ending)} /\ ending # <<>>
    <3>1. n - 1 \in 1 .. n /\ n - 1 \in 0 .. n /\ n \in 2 .. n /\ n # 1
      BY <1>1
    <3>2. c[n - 1] \in Nat /\ start[n] \in Nat /\ start[n - 1] \in Nat /\ size[n - 1] \in Nat
      BY <1>1, <1>2, <1>3, <1>6, <2>1, <2>2, <3>1
    <3>3. start[n - 1] + size[n - 1] <= start[n]
      BY <1>3, <1>6, <3>1
    <3>4. c[n - 1] <= start[n]
      BY <2>2, <3>2, <3>3
    <3>5. start[n] \in Occurrences(ending, w, 0)
      BY <1>1, <1>6, <2>1
    <3> DEFINE from == c[n - 1]
               at == start[n]
    <3>6. Occurrences(ending, w, from) = {Len(w) - Len(ending)}
      <4>1. Occurrences(ending, w, from) \subseteq Occurrences(ending, w, 0)
        <5>1. from \in Nat
          BY <3>2
        <5> HIDE DEF from
        <5> QED BY <5>1 DEF Occurrences
      <4>2. at \in Occurrences(ending, w, from)
        <5>1. from \in Nat /\ at \in Nat /\ from <= at /\ at \in Occurrences(ending, w, 0)
          BY <3>2, <3>4, <3>5
        <5> HIDE DEF from, at
        <5> QED BY <5>1 DEF Occurrences
      <4> QED BY <2>5, <4>1, <4>2
    <3> QED BY <2>2, <2>3, <2>5, <3>1, <3>6 DEF Taken
  <2> QED BY <2>4, <2>5
<1> QED BY <1>1, <1>9 DEF GlobMatch, c, segs

-----------------------------------------------------------------------------
(* The properties.                                                         *)

TypeInv == pattern \in Seq(Symbols) /\ id \in Seq(Letters)

LEMMA Typed == Spec => []TypeInv
<1>1. Init => TypeInv
  BY DEF Init, TypeInv
<1>2. TypeInv /\ [Next]_vars => TypeInv'
  <2> SUFFICES ASSUME TypeInv, [Next]_vars PROVE TypeInv'
    OBVIOUS
  <2>1. CASE SpellPattern
    BY <2>1 DEF TypeInv, SpellPattern, Symbols
  <2>2. CASE SpellId
    BY <2>2 DEF TypeInv, SpellId
  <2>3. CASE UNCHANGED vars
    BY <2>3 DEF TypeInv, vars
  <2> QED BY <2>1, <2>2, <2>3 DEF Next
<1> QED BY <1>1, <1>2, PTL DEF Spec

LEMMA MatchesAreDenoted == TypeInv => MatchesOnlyWhatItDenotes
<1> SUFFICES ASSUME TypeInv, Matches PROVE Denotes(pattern, id)
  BY DEF MatchesOnlyWhatItDenotes
<1>1. pattern \in Seq(Symbols) /\ id \in Seq(Letters) /\ Match(Classify(pattern), id)
  BY DEF TypeInv, Matches
<1>2. CASE Classify(pattern).kind \in {"exact", "prefix", "suffix", "contains"}
  BY <1>1, <1>2, ShortcutsAreFaithful
<1>3. CASE Classify(pattern) = Dropped
  BY <1>1, <1>3 DEF Match, Dropped
<1>4. CASE Parts(pattern) > 1 /\ Classify(pattern) = Matcher("glob", Split(pattern))
  <2>1. GlobMatch(Split(pattern), id)
    BY <1>1, <1>4 DEF Match, Matcher
  <2> QED BY <1>1, <1>4, <2>1, GlobIsSound
<1> QED BY <1>1, <1>2, <1>3, <1>4, ClassifyFacts DEF Matcher

(* For patterns and ids of any length over any letters: a configured       *)
(* pattern never matches an id it does not denote, so that no rule reaches *)
(* further than its author wrote.                                          *)
THEOREM NoPatternReachesFurther == Spec => []MatchesOnlyWhatItDenotes
BY Typed, MatchesAreDenoted, PTL

LEMMA DenotedAreMatched == TypeInv => OnlyRepeatedEndingsMiss
<1> DEFINE matcher == Classify(pattern)
           ending == Last(matcher.segs)
<1> SUFFICES ASSUME TypeInv, Denotes(pattern, id), matcher.kind # "dropped",
                    matcher.kind = "glob" =>
                       ending = <<>> \/ Occurrences(ending, id, 0) = {Len(id) - Len(ending)}
             PROVE  Match(matcher, id)
  BY DEF OnlyRepeatedEndingsMiss, Matches
<1>1. pattern \in Seq(Symbols) /\ id \in Seq(Letters)
  BY DEF TypeInv
<1>2. CASE matcher.kind \in {"exact", "prefix", "suffix", "contains"}
  BY <1>1, <1>2, ShortcutsAreFaithful
<1>3. CASE Parts(pattern) > 1 /\ matcher = Matcher("glob", Split(pattern))
  <2>1. matcher.kind = "glob" /\ matcher.segs = Split(pattern)
    BY <1>3 DEF Matcher
  <2>2. Len(Split(pattern)) = Parts(pattern)
    BY <1>1, ConsumedFacts
  <2>3. ending = Split(pattern)[Parts(pattern)]
    BY <2>1, <2>2 DEF Last
  <2>4. ending = <<>> \/ Occurrences(ending, id, 0) = {Len(id) - Len(ending)}
    BY <2>1
  <2> HIDE DEF ending
  <2>5. GlobMatch(Split(pattern), id)
    BY <1>1, <1>3, <2>3, <2>4, GlobIsComplete
  <2> QED BY <1>3, <2>5 DEF Match, Matcher
<1> QED BY <1>1, <1>2, <1>3, ClassifyFacts DEF Matcher, Dropped

(* For patterns and ids of any length over any letters: a usable pattern   *)
(* matches every id it denotes, unless it is a general glob whose last     *)
(* segment occurs in the id before its end as well.                        *)
THEOREM OnlyRepeatedEndingsCanMiss == Spec => []OnlyRepeatedEndingsMiss
BY Typed, DenotedAreMatched, PTL
=============================================================================
