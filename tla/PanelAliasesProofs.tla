------------------------- MODULE PanelAliasesProofs -------------------------
(***************************************************************************)
(* Proofs about the alias editor, for any channels, rows, reports, other   *)
(* writers and number of saves that overlap.                               *)
(***************************************************************************)
EXTENDS PanelAliases, SubsequencesProofs

-----------------------------------------------------------------------------
(* What CPA keeps.                                                         *)

KeptAt(rows) ==
    {i \in DOMAIN rows :
        /\ Usable(rows[i])
        /\ \A j \in 1 .. i - 1 :
              Usable(rows[j]) => Foldable(rows[j].alias) # Foldable(rows[i].alias)}

(* CPA looks for the first row of an alias among the usable ones; that is  *)
(* to drop a row that an earlier usable one shares its alias with.         *)
LEMMA KeptByPosition ==
    ASSUME NEW rows \in Seq(Rows)
    PROVE  /\ Kept(rows) = Only(rows, KeptAt(rows))
           /\ KeptAt(rows) = DOMAIN rows \ DroppedRows(rows)
<1> DEFINE S == {i \in DOMAIN rows : Usable(rows[i])}
           usable == Only(rows, S)
           T == {k \in DOMAIN usable : IsFirst(usable, k)}
<1>1. DOMAIN rows = 1 .. Len(rows) /\ Len(rows) \in Nat
  OBVIOUS
<1>2. /\ S \in SUBSET Int /\ IsFiniteSet(S) /\ Cardinality(S) \in Nat
  BY PositionsAreFinite
<1>3. /\ usable \in Seq(Rows) /\ DOMAIN usable = 1 .. Cardinality(S)
      /\ \A k \in 1 .. Cardinality(S) : Nth(S, k) \in S /\ usable[k] = rows[Nth(S, k)]
  BY OnlyFacts
<1>4. /\ \A k, l \in 1 .. Cardinality(S) : k < l => Nth(S, k) < Nth(S, l)
      /\ \A i \in S : \E k \in 1 .. Cardinality(S) : Nth(S, k) = i
  BY <1>2, NthFacts
<1>5. ASSUME NEW k \in 1 .. Cardinality(S) PROVE k \in T <=> Nth(S, k) \in KeptAt(rows)
  <2>1. Nth(S, k) \in S /\ usable[k] = rows[Nth(S, k)] /\ Nth(S, k) \in Int
    BY <1>2, <1>3
  <2>2. ASSUME k \in T, NEW j \in 1 .. Nth(S, k) - 1, Usable(rows[j])
        PROVE  Foldable(rows[j].alias) # Foldable(rows[Nth(S, k)].alias)
    <3>1. j \in S
      BY <1>1, <2>1, <2>2
    <3>2. PICK l \in 1 .. Cardinality(S) : Nth(S, l) = j
      BY <1>4, <3>1
    <3>3. l < k
      <4>1. ~(k < l) /\ k # l
        BY <1>4, <2>1, <3>2
      <4> QED BY <1>2, <4>1
    <3>4. l \in 1 .. k - 1
      BY <3>3
    <3>5. usable[l] = rows[j]
      BY <1>3, <3>2
    <3>6. Foldable(usable[l].alias) # Foldable(usable[k].alias)
      BY <2>2, <3>4 DEF IsFirst
    <3> QED BY <2>1, <3>5, <3>6
  <2>3. ASSUME Nth(S, k) \in KeptAt(rows), NEW l \in 1 .. k - 1
        PROVE  Foldable(usable[l].alias) # Foldable(usable[k].alias)
    <3>1. l \in 1 .. Cardinality(S) /\ l < k
      BY <1>2
    <3>2. Nth(S, l) \in S /\ usable[l] = rows[Nth(S, l)] /\ Nth(S, l) < Nth(S, k)
      BY <1>3, <1>4, <3>1
    <3>3. Nth(S, l) \in 1 .. Nth(S, k) - 1 /\ Usable(rows[Nth(S, l)])
      BY <1>1, <2>1, <3>2
    <3> QED BY <2>1, <2>3, <3>2, <3>3 DEF KeptAt
  <2> HIDE DEF usable
  <2> QED BY <1>3, <2>1, <2>2, <2>3 DEF KeptAt, IsFirst
<1>6. KeptAt(rows) = {Nth(S, k) : k \in T}
  <2>1. T \in SUBSET (1 .. Cardinality(S)) /\ KeptAt(rows) \in SUBSET S
    BY <1>3 DEF KeptAt
  <2> HIDE DEF S, T
  <2> QED BY <1>4, <1>5, <2>1
<1>7. Kept(rows) = Only(usable, T)
  BY DEF Kept
<1>8. Kept(rows) = Only(rows, KeptAt(rows))
  <2>1. T \in SUBSET (1 .. Cardinality(S)) /\ S \in SUBSET DOMAIN rows
    BY <1>3
  <2> HIDE DEF S, T
  <2> QED BY <1>6, <1>7, <2>1, OnlyOfOnly
<1>9. KeptAt(rows) = DOMAIN rows \ DroppedRows(rows)
  BY DEF KeptAt, DroppedRows, Usable
<1> QED BY <1>8, <1>9

(* Rows that CPA leaves as they are.                                       *)
Clean(rows) ==
    /\ \A i \in DOMAIN rows : Usable(rows[i])
    /\ \A i, j \in DOMAIN rows :
          i # j => Foldable(rows[i].alias) # Foldable(rows[j].alias)

(* CPA keeps clean rows, and what it keeps of any rows is clean: storing   *)
(* it again would change nothing.                                          *)
LEMMA KeptFacts ==
    ASSUME NEW rows \in Seq(Rows)
    PROVE  /\ Kept(rows) \in Seq(Rows) /\ Clean(Kept(rows))
           /\ Clean(rows) => Kept(rows) = rows
           /\ Len(Kept(rows)) >= Len(rows) => Kept(rows) = rows
<1> DEFINE S == KeptAt(rows)
<1>1. S \in SUBSET DOMAIN rows
  BY DEF KeptAt
<1>2. Kept(rows) = Only(rows, S)
  BY KeptByPosition
<1>3. S \in SUBSET Int /\ IsFiniteSet(S) /\ Cardinality(S) \in Nat
      /\ (Cardinality(S) >= Len(rows) => S = DOMAIN rows)
  BY <1>1, PositionsAreFinite
<1>4. /\ Kept(rows) \in Seq(Rows) /\ Len(Kept(rows)) = Cardinality(S)
      /\ DOMAIN Kept(rows) = 1 .. Cardinality(S)
      /\ \A k \in 1 .. Cardinality(S) : Nth(S, k) \in S /\ Kept(rows)[k] = rows[Nth(S, k)]
  BY <1>1, <1>2, OnlyFacts
<1>5. \A k, l \in 1 .. Cardinality(S) : k < l => Nth(S, k) < Nth(S, l)
  BY <1>3, NthFacts
<1>6. \A i, j \in S : i < j => Foldable(rows[i].alias) # Foldable(rows[j].alias)
  BY DEF KeptAt
<1>7. Clean(Kept(rows))
  <2>1. \A i \in S : Usable(rows[i])
    BY DEF KeptAt
  <2>2. \A k, l \in 1 .. Cardinality(S) : k < l =>
            Foldable(Kept(rows)[k].alias) # Foldable(Kept(rows)[l].alias)
    <3> HIDE DEF S
    <3> QED BY <1>4, <1>5, <1>6
  <2>3. \A k, l \in 1 .. Cardinality(S) : k # l =>
            Foldable(Kept(rows)[k].alias) # Foldable(Kept(rows)[l].alias)
    <3>1. \A k, l \in 1 .. Cardinality(S) : k # l => k < l \/ l < k
      OBVIOUS
    <3> HIDE DEF S
    <3> QED BY <2>2, <3>1
  <2> HIDE DEF S
  <2> QED BY <1>4, <2>1, <2>3 DEF Clean
<1>8. S = DOMAIN rows => Kept(rows) = rows
  BY <1>2, OnlyAll
<1>9. Clean(rows) => S = DOMAIN rows
  <2>1. DOMAIN rows = 1 .. Len(rows) /\ Len(rows) \in Nat
    OBVIOUS
  <2>2. \A i \in DOMAIN rows : \A j \in 1 .. i - 1 : j \in DOMAIN rows /\ j # i
    BY <2>1
  <2> QED BY <1>1, <2>2 DEF Clean, KeptAt
<1> QED BY <1>3, <1>4, <1>7, <1>8, <1>9

(* Rows that are the same but for their order are clean together.          *)
LEMMA SameRowsClean ==
    ASSUME NEW a \in Seq(Rows), NEW b \in Seq(Rows), SameRows(a, b), Clean(a)
    PROVE  Clean(b)
<1> DEFINE at(i) == {j \in DOMAIN b : b[j] = a[i]}
<1>1. /\ DOMAIN a = 1 .. Len(a) /\ DOMAIN b = DOMAIN a /\ Len(a) \in Nat
  BY DEF SameRows
<1>2. IsFiniteSet(DOMAIN a) /\ IsFiniteSet(DOMAIN b)
  BY PositionsAreFinite
<1>3. \A i, j \in DOMAIN a : a[i] = a[j] => i = j
  BY DEF Clean
<1>4. ASSUME NEW i \in DOMAIN a PROVE \E j : at(i) = {j}
  <2>1. {j \in DOMAIN a : a[j] = a[i]} = {i}
    BY <1>3
  <2>2. Times(a[i], a) = 1
    BY <2>1, FS_Singleton DEF Times
  <2>3. Cardinality(at(i)) = 1
    BY <2>2 DEF SameRows, Times
  <2>4. IsFiniteSet(at(i))
    BY <1>2, FS_Subset
  <2> HIDE DEF at
  <2> QED BY <2>3, <2>4, FS_Singleton
<1> DEFINE f == [i \in DOMAIN a |-> CHOOSE j \in DOMAIN b : b[j] = a[i]]
<1>5. \A i \in DOMAIN a : f[i] \in DOMAIN b /\ b[f[i]] = a[i]
  <2> SUFFICES ASSUME NEW i \in DOMAIN a PROVE f[i] \in DOMAIN b /\ b[f[i]] = a[i]
    OBVIOUS
  <2>1. \E j \in DOMAIN b : b[j] = a[i]
    BY <1>4
  <2> QED BY <2>1
<1>6. f \in Injection(DOMAIN a, DOMAIN b)
  <2>1. f \in [DOMAIN a -> DOMAIN b]
    BY <1>5
  <2>2. \A i, j \in DOMAIN a : f[i] = f[j] => i = j
    <3> HIDE DEF f
    <3> QED BY <1>3, <1>5
  <2> HIDE DEF f
  <2> QED BY <2>1, <2>2 DEF Injection, IsInjective
<1>7. f \in Surjection(DOMAIN a, DOMAIN b)
  <2> HIDE DEF f
  <2> QED BY <1>1, <1>2, <1>6, FS_Injection
<1>8. \A j \in DOMAIN b : \E i \in DOMAIN a : f[i] = j
  <2> HIDE DEF f
  <2> QED BY <1>7 DEF Surjection
<1> HIDE DEF f
<1>9. ASSUME NEW j \in DOMAIN b
      PROVE  \E i \in DOMAIN a : f[i] = j /\ b[j] = a[i]
  <2>1. PICK i \in DOMAIN a : f[i] = j
    BY <1>8
  <2>2. b[j] = a[i]
    BY <1>5, <2>1
  <2> QED BY <2>1, <2>2
<1>10. ASSUME NEW j \in DOMAIN b PROVE Usable(b[j])
  BY <1>9, Clean(a) DEF Clean
<1>11. ASSUME NEW j \in DOMAIN b, NEW k \in DOMAIN b, j # k
       PROVE  Foldable(b[j].alias) # Foldable(b[k].alias)
  <2>1. PICK i \in DOMAIN a : f[i] = j /\ b[j] = a[i]
    BY <1>9
  <2>2. PICK l \in DOMAIN a : f[l] = k /\ b[k] = a[l]
    BY <1>9
  <2>3. i # l
    BY <1>11, <2>1, <2>2
  <2>4. Foldable(a[i].alias) # Foldable(a[l].alias)
    BY <2>3 DEF Clean
  <2> QED BY <2>1, <2>2, <2>4
<1> QED BY <1>10, <1>11 DEF Clean

(* The rows of one channel, and tables that differ in one channel.         *)
LEMMA TableFacts ==
    ASSUME NEW t, IsAliasTable(t), NEW ch \in Names, NEW rows \in Seq(Rows)
    PROVE  /\ \A c : RowsOf(t, c) \in Seq(Rows)
           /\ IsAliasTable(Put(t, ch, rows)) /\ IsAliasTable(Without(t, ch))
           /\ \A c : RowsOf(Put(t, ch, rows), c) = IF c = ch THEN rows ELSE RowsOf(t, c)
           /\ \A c : RowsOf(Without(t, ch), c) = IF c = ch THEN <<>> ELSE RowsOf(t, c)
<1>1. \A c : RowsOf(t, c) \in Seq(Rows)
  BY DEF RowsOf, IsAliasTable
<1>2. IsAliasTable(Put(t, ch, rows)) /\ IsAliasTable(Without(t, ch))
  BY DEF IsAliasTable, Put, Without
<1>3. \A c : RowsOf(Put(t, ch, rows), c) = IF c = ch THEN rows ELSE RowsOf(t, c)
  BY DEF RowsOf, Put
<1>4. \A c : RowsOf(Without(t, ch), c) = IF c = ch THEN <<>> ELSE RowsOf(t, c)
  BY DEF RowsOf, Without
<1> QED BY <1>1, <1>2, <1>3, <1>4

-----------------------------------------------------------------------------
(* The report.                                                             *)

(* The channels of the table are spelled as the plugin spells them.        *)
LEMMA NamesStay ==
    ASSUME NEW chs \in SUBSET Names
    PROVE  /\ LowerAll(chs) = chs
           /\ \A f : f = [c \in chs |-> f[c]] => LowerKeys(f) = {f}
<1>1. \A c \in Names : c \in Spellings \ {None} /\ Lower[c] = c
  BY EditorConstants DEF Names, ToSet
<1>2. LowerAll(chs) = chs
  BY <1>1 DEF LowerAll
<1>3. ASSUME NEW f, f = [c \in chs |-> f[c]] PROVE LowerKeys(f) = {f}
  <2>1. DOMAIN f = chs
    BY <1>3
  <2>2. f \in LowerKeys(f)
    <3>1. f \in [chs -> {f[k] : k \in DOMAIN f}]
      BY <1>3, <2>1
    <3> QED BY <1>1, <1>2, <2>1, <3>1 DEF LowerKeys
  <2>3. ASSUME NEW g \in LowerKeys(f) PROVE g = f
    <3>1. /\ g \in [chs -> {f[k] : k \in DOMAIN f}]
          /\ \A c \in chs : \E k \in chs : Lower[k] = c /\ g[c] = f[k]
      BY <1>2, <2>1 DEF LowerKeys
    <3>2. \A c \in chs : g[c] = f[c]
      BY <1>1, <3>1
    <3> QED BY <1>3, <3>1, <3>2
  <2> QED BY <2>2, <2>3
<1> QED BY <1>2, <1>3

Covered(d) == [c \in DOMAIN d |-> TrimSet(ExistingAliases(d)[c])]

(* What the plugin is asked is answered for the channels of the table.     *)
LEMMA ReportOfTable ==
    ASSUME NEW d, IsAliasTable(d), NEW upstream \in Upstreams,
           NEW report \in AliasReports(d, upstream), report # NothingToCompare
    PROVE  \E u \in LowerKeys(upstream) : report = Report(DOMAIN d, u, Covered(d))
<1>1. DOMAIN d \in SUBSET Names
  BY DEF IsAliasTable
<1>2. DOMAIN ExistingAliases(d) = DOMAIN d /\ DOMAIN Covered(d) = DOMAIN d
  BY DEF ExistingAliases, Covered
<1>3. LowerAll(DOMAIN d) = DOMAIN d /\ LowerKeys(Covered(d)) = {Covered(d)}
  <2>1. Covered(d) = [c \in DOMAIN d |-> Covered(d)[c]]
    BY DEF Covered
  <2> QED BY <1>1, <2>1, NamesStay
<1>4. Covered(d) = [c \in DOMAIN ExistingAliases(d) |-> TrimSet(ExistingAliases(d)[c])]
  BY <1>2 DEF Covered
<1>5. report \in {Report(LowerAll(DOMAIN d), u, e) :
                    u \in LowerKeys(upstream), e \in LowerKeys(Covered(d))}
  <2>1. report \in Answers(DOMAIN d, upstream, ExistingAliases(d))
    BY DEF AliasReports
  <2> DEFINE R == {Report(LowerAll(DOMAIN d), u, e) :
                     u \in LowerKeys(upstream),
                     e \in LowerKeys([c \in DOMAIN ExistingAliases(d) |->
                                         TrimSet(ExistingAliases(d)[c])])}
             asked == ~(LowerAll(DOMAIN d) = {} /\ LowerAll(DOMAIN upstream) = {})
  <2>2. Answers(DOMAIN d, upstream, ExistingAliases(d)) =
            IF asked THEN R ELSE {NothingToCompare}
    BY DEF Answers
  <2>3. report \in R
    <3> HIDE DEF R, asked
    <3> QED BY <2>1, <2>2
  <2> QED BY <1>4, <2>3
<1> QED BY <1>3, <1>5

(* The listings the report works on are those of the providers.            *)
LEMMA ListingFacts ==
    ASSUME NEW upstream \in Upstreams, NEW u \in LowerKeys(upstream), NEW c
    PROVE  /\ Listing(u, c) \in Listings
           /\ Listing(u, c) # NoListing =>
                \E p \in DOMAIN upstream : Lower[p] = c /\ Listing(u, c) = upstream[p]
           /\ DOMAIN u = LowerAll(DOMAIN upstream)
<1>1. DOMAIN upstream \subseteq Spellings /\ upstream \in [DOMAIN upstream -> Listings]
  BY EditorConstants
<1>2. /\ DOMAIN u = LowerAll(DOMAIN upstream)
      /\ \A k \in DOMAIN u : \E p \in DOMAIN upstream : Lower[p] = k /\ u[k] = upstream[p]
  BY DEF LowerKeys
<1>3. NoListing \in Listings
  BY DEF NoListing, Listings
<1>4. CASE c \in DOMAIN u
  BY <1>1, <1>2, <1>4 DEF Listing
<1>5. CASE c \notin DOMAIN u
  BY <1>2, <1>3, <1>5 DEF Listing
<1> QED BY <1>4, <1>5

(* The elements of a subsequence.                                          *)
LEMMA OnlyElements ==
    ASSUME NEW E, NEW s \in Seq(E), NEW S \in SUBSET DOMAIN s
    PROVE  ToSet(Only(s, S)) = {s[i] : i \in S}
<1>1. ToSet(Only(s, S)) = {Only(s, S)[k] : k \in 1 .. Cardinality(S)}
  BY OnlyFacts DEF ToSet
<1>2. ASSUME NEW k \in 1 .. Cardinality(S) PROVE \E i \in S : Only(s, S)[k] = s[i]
  BY OnlyFacts
<1>3. ASSUME NEW i \in S PROVE \E k \in 1 .. Cardinality(S) : Only(s, S)[k] = s[i]
  BY OnlyFacts
<1> QED BY <1>1, <1>2, <1>3

(* Every served name is unnamed, covered or missing, and only one of them. *)
LEMMA ServedFacts ==
    ASSUME NEW listing \in Listings, NEW covered
    PROVE  /\ Served(listing) \in Seq(Texts)
           /\ DOMAIN Served(listing) = DOMAIN listing.models
           /\ Missing(listing, covered) \cup Ignored(listing, covered)
                = DOMAIN listing.models
           /\ Missing(listing, covered) \cap Ignored(listing, covered) = {}
           /\ IsFiniteSet(DOMAIN listing.models)
<1>1. listing.models \in Seq(Texts)
  BY DEF Listings
<1>2. Served(listing) \in Seq(Texts) /\ DOMAIN Served(listing) = DOMAIN listing.models
  BY <1>1, ReportConstants DEF Served, TrimSeq
<1>3. /\ Missing(listing, covered) \cup Ignored(listing, covered) = DOMAIN listing.models
      /\ Missing(listing, covered) \cap Ignored(listing, covered) = {}
  BY DEF Missing, Ignored, Unnamed, Aliased
<1>4. IsFiniteSet(DOMAIN listing.models)
  BY <1>1, PositionsAreFinite
<1> QED BY <1>2, <1>3, <1>4

(* What the report proposes for a channel: texts that the table does not   *)
(* cover.                                                                  *)
LEMMA ProposedFacts ==
    ASSUME NEW d, IsAliasTable(d), NEW u, NEW ch \in DOMAIN d, Listing(u, ch) \in Listings
    PROVE  LET missing == Report(DOMAIN d, u, Covered(d)).missing[ch]
           IN  /\ missing \in Seq(Texts)
               /\ ToSet(missing) \subseteq Texts \ ({None} \cup Covered(d)[ch])
               /\ ToSet(missing) = {Served(Listing(u, ch))[i] :
                                       i \in Missing(Listing(u, ch), Covered(d)[ch])}
<1> DEFINE list == Listing(u, ch)
           S == Missing(list, Covered(d)[ch])
<1>1. DOMAIN Covered(d) = DOMAIN d
  BY DEF Covered
<1>2. Report(DOMAIN d, u, Covered(d)).missing[ch] = Only(Served(list), S)
  BY <1>1 DEF Report
<1>3. /\ Served(list) \in Seq(Texts) /\ S \in SUBSET DOMAIN Served(list)
      /\ \A i \in S : Served(list)[i] \notin {None} \cup Covered(d)[ch]
  BY ServedFacts DEF Missing, Unnamed
<1>4. Only(Served(list), S) \in Seq(Texts)
  <2> HIDE DEF S, list
  <2> QED BY <1>3, OnlyFacts
<1>5. ToSet(Only(Served(list), S)) = {Served(list)[i] : i \in S}
  <2> HIDE DEF S, list
  <2> QED BY <1>3, OnlyElements
<1>6. \A i \in S : Served(list)[i] \in Texts
  BY <1>3
<1> QED BY <1>2, <1>3, <1>4, <1>5, <1>6

(* No name and no alias of a row is proposed again.                        *)
LEMMA RowsAreCovered ==
    ASSUME NEW d, IsAliasTable(d), NEW ch \in DOMAIN d, NEW i \in DOMAIN d[ch]
    PROVE  {Trim[d[ch][i].name], Trim[d[ch][i].alias]} \subseteq {None} \cup Covered(d)[ch]
<1>1. {d[ch][i].name, d[ch][i].alias} \subseteq ExistingAliases(d)[ch]
  BY DEF ExistingAliases
<1>2. Covered(d)[ch] = TrimSet(ExistingAliases(d)[ch])
  BY DEF Covered
<1> QED BY <1>1, <1>2 DEF TrimSet

-----------------------------------------------------------------------------
(* What the report counts.                                                 *)

(* Finitely many channels with finitely many places each.                  *)
LEMMA CountedIsNat ==
    ASSUME NEW C, IsFiniteSet(C), NEW P, DOMAIN P = C, \A c \in C : IsFiniteSet(P[c])
    PROVE  /\ IsFiniteSet(InAll(P)) /\ Counted(P) \in Nat
           /\ \A x : x \in InAll(P) <=> \E c \in C : \E i \in P[c] : x = <<c, i>>
<1> DEFINE part == [c \in C |-> {c} \X P[c]]
           parts == {part[c] : c \in C}
<1>1. part \in Surjection(C, parts)
  BY DEF Surjection
<1>2. IsFiniteSet(parts)
  <2> HIDE DEF part, parts
  <2> QED BY <1>1, FS_Surjection
<1>3. \A c \in C : IsFiniteSet(part[c])
  <2> SUFFICES ASSUME NEW c \in C PROVE IsFiniteSet({c} \X P[c])
    OBVIOUS
  <2>1. IsFiniteSet({c})
    BY FS_Singleton
  <2> QED BY <2>1, FS_Product
<1>4. \A x \in parts : IsFiniteSet(x)
  BY <1>3
<1>5. InAll(P) = UNION parts
  BY DEF InAll
<1>6. IsFiniteSet(InAll(P))
  <2> HIDE DEF parts
  <2> QED BY <1>2, <1>4, <1>5, FS_UNION
<1>7. \A x : x \in InAll(P) <=> \E c \in C : \E i \in P[c] : x = <<c, i>>
  BY <1>5
<1> QED BY <1>6, <1>7, FS_CardinalityType DEF Counted

(* Places of two kinds add up.                                             *)
LEMMA CountedSplit ==
    ASSUME NEW C, IsFiniteSet(C), NEW P, NEW Q, NEW R,
           DOMAIN P = C, DOMAIN Q = C, DOMAIN R = C,
           \A c \in C : /\ IsFiniteSet(R[c])
                        /\ P[c] \cup Q[c] = R[c] /\ P[c] \cap Q[c] = {}
    PROVE  Counted(R) = Counted(P) + Counted(Q)
<1>1. \A c \in C : IsFiniteSet(P[c]) /\ IsFiniteSet(Q[c])
  <2> SUFFICES ASSUME NEW c \in C PROVE IsFiniteSet(P[c]) /\ IsFiniteSet(Q[c])
    OBVIOUS
  <2>1. P[c] \in SUBSET R[c] /\ Q[c] \in SUBSET R[c]
    OBVIOUS
  <2> QED BY <2>1, FS_Subset
<1>2. /\ IsFiniteSet(InAll(P)) /\ Counted(P) \in Nat
      /\ \A x : x \in InAll(P) <=> \E c \in C : \E i \in P[c] : x = <<c, i>>
  BY <1>1, CountedIsNat
<1>3. /\ IsFiniteSet(InAll(Q)) /\ Counted(Q) \in Nat
      /\ \A x : x \in InAll(Q) <=> \E c \in C : \E i \in Q[c] : x = <<c, i>>
  BY <1>1, CountedIsNat
<1>4. \A x : x \in InAll(R) <=> \E c \in C : \E i \in R[c] : x = <<c, i>>
  BY CountedIsNat
<1>5. InAll(R) = InAll(P) \cup InAll(Q)
  BY <1>2, <1>3, <1>4
<1>6. InAll(P) \cap InAll(Q) = {}
  BY <1>2, <1>3
<1>7. Cardinality(InAll(P) \cup InAll(Q)) =
        Cardinality(InAll(P)) + Cardinality(InAll(Q)) - Cardinality(InAll(P) \cap InAll(Q))
  BY <1>2, <1>3, FS_Union
<1>8. Cardinality(InAll(P) \cap InAll(Q)) = 0
  BY <1>6, FS_EmptySet
<1>9. Cardinality(InAll(R)) = Cardinality(InAll(P)) + Cardinality(InAll(Q))
  BY <1>2, <1>3, <1>5, <1>7, <1>8 DEF Counted
<1> QED BY <1>9 DEF Counted

(* Counting what is listed at some places is counting the places.          *)
LEMMA CountedByRank ==
    ASSUME NEW C, IsFiniteSet(C), NEW P, NEW K, DOMAIN P = C, DOMAIN K = C,
           \A c \in C : /\ P[c] \in SUBSET Int /\ IsFiniteSet(P[c])
                        /\ K[c] = 1 .. Cardinality(P[c])
    PROVE  Counted(K) = Counted(P)
<1> DEFINE f == [x \in InAll(K) |-> <<x[1], Nth(P[x[1]], x[2])>>]
<1>1. \A c \in C : /\ \A k \in K[c] : Nth(P[c], k) \in P[c]
                   /\ \A k, l \in K[c] : Nth(P[c], k) = Nth(P[c], l) => k = l
                   /\ \A i \in P[c] : \E k \in K[c] : Nth(P[c], k) = i
                   /\ IsFiniteSet(K[c])
  <2> SUFFICES ASSUME NEW c \in C
               PROVE  /\ \A k \in K[c] : Nth(P[c], k) \in P[c]
                      /\ \A k, l \in K[c] : Nth(P[c], k) = Nth(P[c], l) => k = l
                      /\ \A i \in P[c] : \E k \in K[c] : Nth(P[c], k) = i
                      /\ IsFiniteSet(K[c])
    OBVIOUS
  <2>1. P[c] \in SUBSET Int /\ IsFiniteSet(P[c]) /\ K[c] = 1 .. Cardinality(P[c])
    OBVIOUS
  <2>2. /\ Cardinality(P[c]) \in Nat
        /\ \A k \in K[c] : Nth(P[c], k) \in P[c]
        /\ \A k, l \in K[c] : k < l => Nth(P[c], k) < Nth(P[c], l)
        /\ \A i \in P[c] : \E k \in K[c] : Nth(P[c], k) = i
    BY <2>1, NthFacts
  <2>3. \A k, l \in K[c] : k < l \/ l < k \/ k = l
    BY <2>1, <2>2
  <2>4. ASSUME NEW k \in K[c], NEW l \in K[c], Nth(P[c], k) = Nth(P[c], l) PROVE k = l
    <3>1. Nth(P[c], k) \in Int
      BY <2>1, <2>2
    <3> QED BY <2>2, <2>3, <2>4, <3>1
  <2>5. IsFiniteSet(K[c])
    BY <2>1, <2>2, FS_Interval
  <2> QED BY <2>2, <2>4, <2>5
<1>2. /\ IsFiniteSet(InAll(K))
      /\ \A x : x \in InAll(K) <=> \E c \in C : \E k \in K[c] : x = <<c, k>>
  BY <1>1, CountedIsNat
<1>3. \A x : x \in InAll(P) <=> \E c \in C : \E i \in P[c] : x = <<c, i>>
  BY CountedIsNat
<1>4. f \in [InAll(K) -> InAll(P)]
  BY <1>1, <1>2, <1>3
<1>5. ASSUME NEW x \in InAll(K), NEW y \in InAll(K), f[x] = f[y] PROVE x = y
  <2>1. PICK c \in C : \E k \in K[c] : x = <<c, k>>
    BY <1>2
  <2>2. PICK k \in K[c] : x = <<c, k>>
    BY <2>1
  <2>3. PICK e \in C : \E l \in K[e] : y = <<e, l>>
    BY <1>2
  <2>4. PICK l \in K[e] : y = <<e, l>>
    BY <2>3
  <2>5. c = e /\ Nth(P[c], k) = Nth(P[e], l)
    BY <1>5, <2>2, <2>4
  <2> QED BY <1>1, <2>2, <2>4, <2>5
<1>6. ASSUME NEW y \in InAll(P) PROVE \E x \in InAll(K) : f[x] = y
  <2>1. PICK c \in C : \E i \in P[c] : y = <<c, i>>
    BY <1>3
  <2>2. PICK i \in P[c] : y = <<c, i>>
    BY <2>1
  <2>3. PICK k \in K[c] : Nth(P[c], k) = i
    BY <1>1
  <2>4. <<c, k>> \in InAll(K)
    BY <1>2
  <2> QED BY <2>2, <2>3, <2>4
<1>7. f \in Bijection(InAll(K), InAll(P))
  <2> HIDE DEF f
  <2> QED BY <1>4, <1>5, <1>6 DEF Bijection, Injection, Surjection, IsInjective
<1> HIDE DEF f
<1> QED BY <1>2, <1>7, FS_Bijection DEF Counted, ExistsBijection

(* Missing and ignored make up what was judged.                            *)
LEMMA JudgedIsSplit ==
    ASSUME NEW d, IsAliasTable(d), NEW u, \A c \in DOMAIN d : Listing(u, c) \in Listings
    PROVE  LET report == Report(DOMAIN d, u, Covered(d))
           IN  report.captured = Total(report.missing) + report.ignored
<1> DEFINE C == DOMAIN d
           list(c) == Listing(u, c)
           report == Report(C, u, Covered(d))
           P == [c \in C |-> Missing(list(c), Covered(d)[c])]
           Q == [c \in C |-> Ignored(list(c), Covered(d)[c])]
           R == [c \in C |-> DOMAIN list(c).models]
           K == [c \in C |-> DOMAIN Only(Served(list(c)), P[c])]
<1>1. IsFiniteSet(C)
  <2>1. DOMAIN Channels = 1 .. Len(Channels) /\ Len(Channels) \in Nat
    BY EditorConstants
  <2> DEFINE g == [i \in DOMAIN Channels |-> Channels[i]]
  <2>2. g \in Surjection(DOMAIN Channels, Names)
    BY DEF Surjection, Names, ToSet
  <2>3. IsFiniteSet(DOMAIN Channels)
    BY <2>1, FS_Interval
  <2>4. IsFiniteSet(Names)
    <3> HIDE DEF g
    <3> QED BY <2>2, <2>3, FS_Surjection
  <2>5. C \in SUBSET Names
    BY DEF IsAliasTable
  <2> QED BY <2>4, <2>5, FS_Subset
<1>2. DOMAIN Covered(d) = C
  BY DEF Covered
<1>3. /\ report.captured = Counted(R)
      /\ report.ignored = Counted(Q)
      /\ report.missing = [c \in C |-> Only(Served(list(c)), P[c])]
  BY <1>2 DEF Report
<1>4. Total(report.missing) = Counted(K)
  BY <1>3 DEF Total
<1>5. \A c \in C : /\ Served(list(c)) \in Seq(Texts) /\ P[c] \in SUBSET DOMAIN Served(list(c))
                   /\ IsFiniteSet(R[c])
                   /\ P[c] \cup Q[c] = R[c] /\ P[c] \cap Q[c] = {}
  <2> SUFFICES ASSUME NEW c \in C
               PROVE  /\ Served(list(c)) \in Seq(Texts)
                      /\ P[c] \in SUBSET DOMAIN Served(list(c))
                      /\ IsFiniteSet(R[c])
                      /\ P[c] \cup Q[c] = R[c] /\ P[c] \cap Q[c] = {}
    OBVIOUS
  <2> QED BY ServedFacts
<1>6. \A c \in C : /\ P[c] \in SUBSET Int /\ IsFiniteSet(P[c])
                   /\ K[c] = 1 .. Cardinality(P[c])
  <2> SUFFICES ASSUME NEW c \in C
               PROVE  /\ P[c] \in SUBSET Int /\ IsFiniteSet(P[c])
                      /\ K[c] = 1 .. Cardinality(P[c])
    OBVIOUS
  <2>1. K[c] = DOMAIN Only(Served(list(c)), P[c])
    OBVIOUS
  <2> HIDE DEF P, list
  <2> QED BY <1>5, <2>1, PositionsAreFinite, OnlyFacts
<1>7. Counted(R) = Counted(P) + Counted(Q)
  <2>1. DOMAIN P = C /\ DOMAIN Q = C /\ DOMAIN R = C
    OBVIOUS
  <2> HIDE DEF P, Q, R, C
  <2> QED BY <1>1, <1>5, <2>1, CountedSplit
<1>8. Counted(K) = Counted(P)
  <2>1. DOMAIN P = C /\ DOMAIN K = C
    OBVIOUS
  <2> HIDE DEF P, K, C
  <2> QED BY <1>1, <1>6, <2>1, CountedByRank
<1> QED
  <2> HIDE DEF P, Q, R, K, report
  <2>1. report.captured = Total(report.missing) + report.ignored
    BY <1>3, <1>4, <1>7, <1>8
  <2> QED BY <2>1 DEF report

(* The elements of two sequences, one after the other.                     *)
LEMMA ConcatElements ==
    ASSUME NEW E, NEW a \in Seq(E), NEW b \in Seq(E)
    PROVE  a \o b \in Seq(E) /\ ToSet(a \o b) = ToSet(a) \cup ToSet(b)
<1>1. /\ DOMAIN a = 1 .. Len(a) /\ DOMAIN b = 1 .. Len(b)
      /\ DOMAIN (a \o b) = 1 .. Len(a) + Len(b)
      /\ Len(a) \in Nat /\ Len(b) \in Nat /\ a \o b \in Seq(E)
  OBVIOUS
<1>2. ASSUME NEW i \in DOMAIN a PROVE a[i] \in ToSet(a \o b)
  <2>1. (a \o b)[i] = a[i] /\ i \in DOMAIN (a \o b)
    BY <1>1
  <2> QED BY <2>1 DEF ToSet
<1>3. ASSUME NEW i \in DOMAIN b PROVE b[i] \in ToSet(a \o b)
  <2>1. (a \o b)[Len(a) + i] = b[i] /\ Len(a) + i \in DOMAIN (a \o b)
    BY <1>1
  <2> QED BY <2>1 DEF ToSet
<1>4. ASSUME NEW i \in DOMAIN (a \o b) PROVE (a \o b)[i] \in ToSet(a) \cup ToSet(b)
  <2>1. CASE i <= Len(a)
    <3>1. (a \o b)[i] = a[i] /\ i \in DOMAIN a
      BY <1>1, <2>1
    <3> QED BY <3>1 DEF ToSet
  <2>2. CASE i > Len(a)
    <3>1. (a \o b)[i] = b[i - Len(a)] /\ i - Len(a) \in DOMAIN b
      BY <1>1, <2>2
    <3> QED BY <3>1 DEF ToSet
  <2> QED BY <1>1, <2>1, <2>2
<1>5. /\ \A x : x \in ToSet(a) <=> \E i \in DOMAIN a : a[i] = x
      /\ \A x : x \in ToSet(b) <=> \E i \in DOMAIN b : b[i] = x
      /\ \A x : x \in ToSet(a \o b) <=> \E i \in DOMAIN (a \o b) : (a \o b)[i] = x
  BY DEF ToSet
<1> QED BY <1>1, <1>2, <1>3, <1>4, <1>5

Skips(reasons) == [model : Texts, reason : reasons]
Models(skips) == {skip.model : skip \in ToSet(skips)}

(* Names that are skipped for one reason.                                  *)
LEMMA BecauseFacts ==
    ASSUME NEW s \in Seq(Texts),
           NEW reasons, NEW why \in reasons
    PROVE  /\ Because(why, s) \in Seq(Skips(reasons))
           /\ Models(Because(why, s)) = ToSet(s)
<1>1. Because(why, s) \in Seq(Skips(reasons))
  <2>1. DOMAIN s = 1 .. Len(s) /\ Len(s) \in Nat
    OBVIOUS
  <2>2. \A i \in DOMAIN s : [model |-> s[i], reason |-> why] \in Skips(reasons)
    BY DEF Skips
  <2> HIDE DEF Skips
  <2> QED BY <2>1, <2>2 DEF Because
<1>2. /\ DOMAIN Because(why, s) = DOMAIN s
      /\ \A i \in DOMAIN s : Because(why, s)[i].model = s[i]
  BY DEF Because
<1>3. Models(Because(why, s)) = {s[i] : i \in DOMAIN s}
  BY <1>2 DEF Models, ToSet
<1> QED BY <1>1, <1>3 DEF ToSet

(* What the report says of one channel.                                    *)
LEMMA ChannelIsExplained ==
    ASSUME NEW d, IsAliasTable(d), NEW upstream \in Upstreams,
           NEW u \in LowerKeys(upstream), NEW ch \in DOMAIN d
    PROVE  LET report == Report(DOMAIN d, u, Covered(d))
           IN  /\ Listed(Listing(u, ch)) \subseteq Explained(report, ch)
               /\ report.sources[ch].origin = "none" =>
                     report.missing[ch] = <<>> /\ report.skipped[ch] # <<>>
<1> DEFINE list == Listing(u, ch)
           covered == Covered(d)[ch]
           report == Report(DOMAIN d, u, Covered(d))
<1> SUFFICES /\ Listed(list) \subseteq Explained(report, ch)
             /\ report.sources[ch].origin = "none" =>
                   report.missing[ch] = <<>> /\ report.skipped[ch] # <<>>
  OBVIOUS
<1>1. list \in Listings
  BY ListingFacts
<1>2. DOMAIN Covered(d) = DOMAIN d
  BY DEF Covered
<1>3. /\ report.missing[ch] = Only(Served(list), Missing(list, covered))
      /\ report.skipped[ch] = Skipped(list, covered)
      /\ report.sources[ch].origin = IF Readable(list) THEN OriginOf(list) ELSE "none"
  BY <1>2 DEF Report, Source
<1> HIDE DEF list, covered, report
<1>4. CASE ~Readable(list)
  <2>2. Missing(list, covered) = {}
    BY <1>4 DEF Readable, Missing
  <2>3. report.missing[ch] = <<>>
    BY <1>3, <2>2, FS_EmptySet DEF Only
  <2>4. report.skipped[ch] # <<>>
    <3> DEFINE why == Because("no upstream", <<None>>)
    <3>1. report.skipped[ch] = why
      BY <1>3, <1>4 DEF Skipped
    <3>2. DOMAIN why = {1}
      BY DEF Because
    <3> HIDE DEF why
    <3> QED BY <3>1, <3>2
  <2>5. list.models = <<>> /\ list.hidden = <<>>
    BY <1>4 DEF Readable
  <2>6. ToSet(list.models) = {} /\ ToSet(list.hidden) = {}
    BY <2>5 DEF ToSet
  <2>7. Listed(list) = {}
    BY <2>6 DEF Listed, TrimSet
  <2> QED BY <2>3, <2>4, <2>7
<1>5. CASE Readable(list)
  <2>1. report.sources[ch].origin # "none"
    <3>1. list.origin \in {None, "plugin", "auth"}
      BY <1>1 DEF Listings
    <3> QED BY <1>3, <1>5, <3>1 DEF OriginOf
  <2> DEFINE hidden == TrimSeq(list.hidden)
             A == Only(hidden, Hidden(list))
             B == Only(Served(list), Aliased(list, covered))
             C == Only(Served(list), Unnamed(list))
             M == Only(Served(list), Missing(list, covered))
  <2>3. /\ hidden \in Seq(Texts) /\ DOMAIN hidden = DOMAIN list.hidden
        /\ Served(list) \in Seq(Texts) /\ DOMAIN Served(list) = DOMAIN list.models
    <3>1. list.hidden \in Seq(Texts) /\ list.models \in Seq(Texts)
      BY <1>1 DEF Listings
    <3>2. \A names \in Seq(Texts) :
             TrimSeq(names) \in Seq(Texts) /\ DOMAIN TrimSeq(names) = DOMAIN names
      BY ReportConstants DEF TrimSeq
    <3> QED BY <3>1, <3>2 DEF Served
  <2>4. /\ A \in Seq(Texts) /\ B \in Seq(Texts) /\ C \in Seq(Texts)
    <3>1. /\ Hidden(list) \in SUBSET DOMAIN hidden
          /\ Aliased(list, covered) \in SUBSET DOMAIN Served(list)
          /\ Unnamed(list) \in SUBSET DOMAIN Served(list)
      BY <2>3 DEF Hidden, Aliased, Unnamed
    <3> HIDE DEF hidden
    <3> QED BY <2>3, <3>1, OnlyFacts
  <2>5. /\ ToSet(A) = {hidden[i] : i \in Hidden(list)}
        /\ ToSet(B) = {Served(list)[i] : i \in Aliased(list, covered)}
        /\ ToSet(C) = {Served(list)[i] : i \in Unnamed(list)}
        /\ ToSet(M) = {Served(list)[i] : i \in Missing(list, covered)}
    <3>1. /\ Hidden(list) \in SUBSET DOMAIN hidden
          /\ Aliased(list, covered) \in SUBSET DOMAIN Served(list)
          /\ Unnamed(list) \in SUBSET DOMAIN Served(list)
          /\ Missing(list, covered) \in SUBSET DOMAIN Served(list)
      BY <2>3 DEF Hidden, Aliased, Unnamed, Missing
    <3> HIDE DEF hidden
    <3> QED BY <2>3, <3>1, OnlyElements
  <2>6. Skipped(list, covered) =
          Because("hidden", A) \o Because("aliased", B) \o Because("unnamed", C)
    BY <1>5 DEF Skipped
  <2> HIDE DEF A, B, C, M
  <2>7. {skip.model : skip \in ToSet(report.skipped[ch])} = ToSet(A) \cup ToSet(B) \cup ToSet(C)
    <3> DEFINE a == Because("hidden", A)
               b == Because("aliased", B)
               c == Because("unnamed", C)
               reasons == {"hidden", "aliased", "unnamed"}
               R == Skips(reasons)
    <3>1. /\ a \in Seq(R) /\ b \in Seq(R) /\ c \in Seq(R)
          /\ Models(a) = ToSet(A) /\ Models(b) = ToSet(B) /\ Models(c) = ToSet(C)
      <4>1. "hidden" \in reasons /\ "aliased" \in reasons /\ "unnamed" \in reasons
        OBVIOUS
      <4> HIDE DEF reasons
      <4> QED BY <2>4, <4>1, BecauseFacts
    <3>2. report.skipped[ch] = (a \o b) \o c
      BY <1>3, <2>6
    <3> HIDE DEF a, b, c, R, reasons
    <3> DEFINE ab == a \o b
    <3>3. ab \in Seq(R) /\ ToSet(ab) = ToSet(a) \cup ToSet(b)
      BY <3>1, ConcatElements
    <3>4. report.skipped[ch] = ab \o c
      BY <3>2
    <3> HIDE DEF ab
    <3>5. ToSet(ab \o c) = ToSet(a) \cup ToSet(b) \cup ToSet(c)
      BY <3>1, <3>3, ConcatElements
    <3>6. Models(ab \o c) = Models(a) \cup Models(b) \cup Models(c)
      BY <3>5 DEF Models
    <3> QED BY <3>1, <3>4, <3>6 DEF Models
  <2>8. Listed(list) \subseteq Explained(report, ch)
    <3>1. ASSUME NEW n \in ToSet(list.models) PROVE Trim[n] \in Explained(report, ch)
      <4>1. PICK i \in DOMAIN list.models : list.models[i] = n
        BY DEF ToSet
      <4>2. Served(list)[i] = Trim[n]
        BY <4>1 DEF Served, TrimSeq
      <4>3. i \in Missing(list, covered) \cup Aliased(list, covered) \cup Unnamed(list)
        BY DEF Missing, Aliased, Unnamed
      <4>4. Trim[n] \in ToSet(M) \cup ToSet(B) \cup ToSet(C)
        BY <2>5, <4>2, <4>3
      <4> QED BY <1>3, <2>7, <4>4 DEF Explained, M
    <3>2. ASSUME NEW n \in ToSet(list.hidden), Trim[n] # None
          PROVE  Trim[n] \in Explained(report, ch)
      <4>1. PICK i \in DOMAIN list.hidden : list.hidden[i] = n
        BY DEF ToSet
      <4>2. hidden[i] = Trim[n] /\ i \in Hidden(list)
        BY <3>2, <4>1 DEF TrimSeq, Hidden
      <4>3. Trim[n] \in ToSet(A)
        BY <2>5, <4>2
      <4> QED BY <2>7, <4>3 DEF Explained
    <3> QED BY <3>1, <3>2 DEF Listed, TrimSet
  <2> QED BY <2>1, <2>8
<1> QED BY <1>4, <1>5

-----------------------------------------------------------------------------
(* The steps of the editor.                                                *)

AliasTables == UNION {[chs -> Seq(Rows)] : chs \in SUBSET Names}
StepKinds == {"patch", "delete"} \X Names
SaveType == [todo : Seq(StepKinds), confirmed : AliasTables, touched : SUBSET Names]
SlotType == [busy : BOOLEAN, save : SaveType]

OffersTyped == offers \in Seq(Names \X Texts)
TablesTyped == \A t \in {server, table, draft, written} : IsAliasTable(t)
SavesTyped == saves \in [Savers -> SlotType]
HistoryTyped == mine \subseteq Names /\ foreign \subseteq Names /\ edits \in 0 .. EditBound

TypeInv == OffersTyped /\ TablesTyped /\ SavesTyped /\ HistoryTyped

(* What a step may do to anything but the suggestions.                     *)
EditStep == \E ch \in Names, rows \in Seq(Rows) : Edit(ch, rows)
LookStep == UNCHANGED <<server, table, draft, saves, mine, written, foreign, edits>>
SaveStep(w) ==
    SaveAliases(w) \/ Patch(w) \/ DeleteAliasChannel(w) \/ SaveFails(w) \/ SaveEnds(w)
OtherStep ==
    \E ch \in Names, rows \in Seq(Rows) : Kept(rows) = rows /\ StoreElsewhere(ch, rows)

(* Taking an element out of a sequence.                                    *)
LEMMA RemoveAtTyped ==
    ASSUME NEW E, NEW s \in Seq(E), NEW i \in DOMAIN s
    PROVE  RemoveAt(s, i) \in Seq(E)
<1>1. i \in 1 .. Len(s) /\ Len(s) \in Nat
  OBVIOUS
<1>2. SubSeq(s, 1, i - 1) \in Seq(E) /\ SubSeq(s, i + 1, Len(s)) \in Seq(E)
  BY <1>1
<1> QED BY <1>2 DEF RemoveAt

(* An edited cell leaves a row.                                            *)
LEMMA TypedRows ==
    ASSUME NEW rows \in Seq(Rows), NEW i \in DOMAIN rows, NEW typed \in Typing
    PROVE  typed[1] \in Names /\ [rows EXCEPT ![i][typed[2]] = typed[3]] \in Seq(Rows)
<1>1. typed[1] \in Names /\ typed[2] \in {"name", "alias"} /\ typed[3] \in Texts
  BY EditorConstants
<1>2. rows[i] \in Rows
  OBVIOUS
<1>3. [rows[i] EXCEPT ![typed[2]] = typed[3]] \in Rows
  BY <1>1, <1>2 DEF Rows
<1>4. [rows EXCEPT ![i][typed[2]] = typed[3]]
        = [rows EXCEPT ![i] = [rows[i] EXCEPT ![typed[2]] = typed[3]]]
  OBVIOUS
<1>5. \A row \in Rows : [rows EXCEPT ![i] = row] \in Seq(Rows)
  <2> HIDE DEF Rows
  <2> QED OBVIOUS
<1> QED BY <1>1, <1>3, <1>4, <1>5

(* Suggestions are names for channels of the table.                        *)
LEMMA SuggestionsTyped ==
    ASSUME TypeInv, NEW ch \in DOMAIN draft, NEW upstream \in Upstreams,
           ShowAliasSuggestions(ch, upstream)
    PROVE  OffersTyped'
<1>1. IsAliasTable(draft) /\ ch \in Names
  BY DEF TypeInv, TablesTyped, IsAliasTable
<1> DEFINE known(n) == \E i \in DOMAIN draft[ch] : draft[ch][i].name = n
           taken(n) == \E i \in DOMAIN draft[ch] : draft[ch][i].alias = Prefixed[ch][n]
           at(names) == {i \in DOMAIN names : ~known(names[i]) /\ ~taken(names[i])}
           open(names) == Only(names, at(names))
<1>2. PICK answer \in AliasReports(draft, upstream) :
        offers' = IF answer = NothingToCompare THEN <<>>
                  ELSE [i \in DOMAIN open(answer.missing[ch]) |->
                          <<ch, open(answer.missing[ch])[i]>>]
  BY DEF ShowAliasSuggestions
<1>3. CASE answer = NothingToCompare
  BY <1>2, <1>3 DEF OffersTyped
<1>4. CASE answer # NothingToCompare
  <2>1. PICK u \in LowerKeys(upstream) : answer = Report(DOMAIN draft, u, Covered(draft))
    BY <1>1, <1>4, ReportOfTable
  <2>2. Listing(u, ch) \in Listings
    BY ListingFacts
  <2> DEFINE names == answer.missing[ch]
  <2>3. names \in Seq(Texts)
    BY <1>1, <2>1, <2>2, ProposedFacts
  <2>4. at(names) \in SUBSET DOMAIN names
    OBVIOUS
  <2> HIDE DEF names, at
  <2>5. open(names) \in Seq(Texts)
    BY <2>3, <2>4, OnlyFacts
  <2>6. offers' = [i \in DOMAIN open(names) |-> <<ch, open(names)[i]>>]
    BY <1>2, <1>4 DEF names
  <2> HIDE DEF open
  <2> QED BY <1>1, <2>5, <2>6 DEF OffersTyped
<1> QED BY <1>3, <1>4

(* Every step edits one channel's rows, or only looks, or is one of the    *)
(* others; the suggestions stay typed in any case.                         *)
LEMMA StepCases ==
    ASSUME TypeInv, [Next]_vars
    PROVE  /\ OffersTyped'
           /\ \/ EditStep \/ LookStep \/ RevertAliases \/ LoadAliases
              \/ \E w \in Savers : SaveStep(w)
              \/ OtherStep
<1>1. /\ IsAliasTable(draft) /\ OffersTyped
      /\ \A ch \in DOMAIN draft : ch \in Names /\ draft[ch] \in Seq(Rows)
  BY DEF TypeInv, TablesTyped, IsAliasTable
<1>2. /\ \A n \in Texts : Trim[n] \in Texts
      /\ \A c \in Names : \A n \in Texts : Prefixed[c][n] \in Texts
      /\ \A n, a \in Texts : Row(n, a, Plain) \in Rows
  BY ReportConstants, EditorConstants DEF Names, ToSet, Row, Rows
<1>3. \A chs : Only(offers, {i \in DOMAIN offers : offers[i][1] = chs}) \in Seq(Names \X Texts)
  <2> SUFFICES ASSUME NEW ch
               PROVE Only(offers, {i \in DOMAIN offers : offers[i][1] = ch}) \in Seq(Names \X Texts)
    OBVIOUS
  <2> DEFINE S == {i \in DOMAIN offers : offers[i][1] = ch}
  <2>1. S \in SUBSET DOMAIN offers /\ offers \in Seq(Names \X Texts)
    BY <1>1 DEF OffersTyped
  <2> HIDE DEF S
  <2>2. Only(offers, S) \in Seq(Names \X Texts)
    BY <2>1, OnlyFacts
  <2> QED BY <2>2 DEF S
<1>4. ASSUME NEW row \in NewRows, AddAliasRow(row[1], row[2], row[3])
      PROVE  OffersTyped' /\ EditStep
  <2>1. row[1] \in DOMAIN draft /\ row[2] \in Texts /\ row[3] \in Texts
    BY <1>4, EditorConstants DEF AddAliasRow
  <2>2. Append(draft[row[1]], Row(Trim[row[2]], Trim[row[3]], Plain)) \in Seq(Rows)
    BY <1>1, <1>2, <2>1
  <2>3. EditStep
    BY <1>1, <1>4, <2>1, <2>2 DEF AddAliasRow, EditStep
  <2> QED BY <1>1, <1>4, <2>3 DEF AddAliasRow, OffersTyped
<1>5. ASSUME NEW ch \in DOMAIN draft, NEW i \in DOMAIN draft[ch], DeleteRow(ch, i)
      PROVE  OffersTyped' /\ EditStep
  <2>1. RemoveAt(draft[ch], i) \in Seq(Rows)
    BY <1>1, RemoveAtTyped
  <2> QED BY <1>1, <1>5, <2>1 DEF DeleteRow, EditStep, OffersTyped
<1>6. ASSUME NEW ch \in DOMAIN draft, NEW i \in DOMAIN draft[ch], NEW typed \in Typing,
             Type(ch, i, typed[2], typed[3])
      PROVE  OffersTyped' /\ EditStep
  <2>1. [draft[ch] EXCEPT ![i][typed[2]] = typed[3]] \in Seq(Rows)
    BY <1>1, TypedRows
  <2> QED BY <1>1, <1>6, <2>1 DEF Type, EditStep, OffersTyped
<1>7. ASSUME NEW ch \in Names, CreateChannel(ch) PROVE OffersTyped' /\ EditStep
  <2>1. <<>> \in Seq(Rows)
    OBVIOUS
  <2> QED BY <1>3, <1>7, <2>1 DEF CreateChannel, DropStaleSuggestions, EditStep, OffersTyped
<1>8. ASSUME NEW ch \in DOMAIN draft, ShowChannel(ch) PROVE OffersTyped' /\ LookStep
  BY <1>3, <1>8 DEF ShowChannel, DropStaleSuggestions, LookStep, OffersTyped, history
<1>9. ASSUME NEW ch \in DOMAIN draft, NEW upstream \in Upstreams,
             ShowAliasSuggestions(ch, upstream)
      PROVE  OffersTyped' /\ LookStep
  BY <1>9, SuggestionsTyped DEF ShowAliasSuggestions, LookStep, history
<1>10. ASSUME NEW i \in DOMAIN offers, Fill(i) PROVE OffersTyped' /\ EditStep
  <2> DEFINE ch == offers[i][1]
             name == offers[i][2]
             rows == Append(RowsOf(draft, ch), Row(name, Prefixed[ch][name], Plain))
  <2>1. ch \in Names /\ name \in Texts
    BY <1>1 DEF OffersTyped
  <2>2. Edit(ch, rows) /\ offers' = RemoveAt(offers, i)
    BY <1>10 DEF Fill
  <2>3. RowsOf(draft, ch) \in Seq(Rows)
    BY <1>1 DEF RowsOf
  <2> HIDE DEF ch, name
  <2>4. rows \in Seq(Rows)
    BY <1>2, <2>1, <2>3
  <2>5. RemoveAt(offers, i) \in Seq(Names \X Texts)
    BY <1>1, RemoveAtTyped DEF OffersTyped
  <2> QED BY <2>1, <2>2, <2>4, <2>5 DEF EditStep, OffersTyped
<1>11. ASSUME NEW other \in Elsewhere, StoreElsewhere(other[1], other[2])
       PROVE  OffersTyped' /\ OtherStep
  <2>1. other[1] \in Names /\ other[2] \in Seq(Rows) /\ Kept(other[2]) = other[2]
    BY StoredIsKept
  <2> QED BY <1>1, <1>11, <2>1 DEF StoreElsewhere, OtherStep, OffersTyped, editor
<1>12. CASE RevertAliases \/ LoadAliases
  BY <1>1, <1>12 DEF RevertAliases, LoadAliases, OffersTyped
<1>13. ASSUME NEW w \in Savers, SaveStep(w) PROVE OffersTyped'
  BY <1>1, <1>13 DEF SaveStep, SaveAliases, StartSave, Patch, DeleteAliasChannel, SaveFails,
     SaveEnds, OffersTyped, editor
<1>14. CASE UNCHANGED vars
  BY <1>1, <1>14 DEF vars, editor, history, LookStep, OffersTyped
<1> QED
  BY <1>4, <1>5, <1>6, <1>7, <1>8, <1>9, <1>10, <1>11, <1>12, <1>13, <1>14 DEF Next, SaveStep

(* What remembering an edit does to a save under way.                      *)
LEMMA TouchingFacts ==
    ASSUME SavesTyped, NEW chs \in SUBSET Names
    PROVE  /\ Touching(chs) \in [Savers -> SlotType]
           /\ \A w \in Savers :
                 /\ Touching(chs)[w].busy = saves[w].busy
                 /\ Touching(chs)[w].save.todo = saves[w].save.todo
                 /\ Touching(chs)[w].save.confirmed = saves[w].save.confirmed
                 /\ Busy(w) => Touching(chs)[w].save.touched = saves[w].save.touched \cup chs
<1> SUFFICES ASSUME NEW w \in Savers
             PROVE  /\ Touching(chs)[w] \in SlotType
                    /\ Touching(chs)[w].busy = saves[w].busy
                    /\ Touching(chs)[w].save.todo = saves[w].save.todo
                    /\ Touching(chs)[w].save.confirmed = saves[w].save.confirmed
                    /\ Busy(w) => Touching(chs)[w].save.touched = saves[w].save.touched \cup chs
  BY DEF Touching
<1>1. saves[w] \in SlotType
  BY DEF SavesTyped
<1>2. CASE Busy(w)
  <2>1. Touching(chs)[w] = [saves[w] EXCEPT !.save.touched = @ \cup chs]
    BY <1>2 DEF Touching
  <2> QED BY <1>1, <2>1 DEF SlotType, SaveType
<1>3. CASE ~Busy(w)
  BY <1>1, <1>3 DEF Touching
<1> QED BY <1>2, <1>3

(* A table is one of the alias tables.                                     *)
LEMMA TablesAreTables ==
    \A t : IsAliasTable(t) <=> t \in AliasTables
BY DEF IsAliasTable, AliasTables

(* The table without channels.                                             *)
LEMMA NoTable == IsAliasTable(<<>>)
<1>1. DOMAIN <<>> = {}
  OBVIOUS
<1>2. <<>> \in [{} -> Seq(Rows)]
  OBVIOUS
<1> QED BY <1>1, <1>2 DEF IsAliasTable

(* The channels that a save still has to write.                            *)
Pending(todo) == {todo[i][2] : i \in DOMAIN todo}

(* A save goes through all the channels it is meant for.                   *)
LEMMA StepsFacts ==
    ASSUME NEW kind \in {"patch", "delete"}, NEW chs \in SUBSET Names
    PROVE  Steps(kind, chs) \in Seq(StepKinds) /\ Pending(Steps(kind, chs)) = chs
<1> DEFINE S == {i \in DOMAIN Channels : Channels[i] \in chs}
           order == Only(Channels, S)
<1>1. Channels \in Seq(Names) /\ S \in SUBSET DOMAIN Channels
  BY EditorConstants DEF Names, ToSet
<1>2. order \in Seq(Names) /\ ToSet(order) = {Channels[i] : i \in S}
  <2> HIDE DEF S
  <2> QED BY <1>1, OnlyFacts, OnlyElements
<1>3. {Channels[i] : i \in S} = chs
  BY DEF Names, ToSet
<1>4. Steps(kind, chs) = [i \in DOMAIN order |-> <<kind, order[i]>>]
  BY DEF Steps
<1> HIDE DEF order
<1>5. \A i \in DOMAIN order : <<kind, order[i]>> \in StepKinds
  BY <1>2 DEF StepKinds
<1>6. Steps(kind, chs) \in Seq(StepKinds)
  <2> HIDE DEF StepKinds
  <2>1. DOMAIN order = 1 .. Len(order) /\ Len(order) \in Nat
    BY <1>2
  <2> QED BY <1>4, <1>5, <2>1
<1>7. Pending(Steps(kind, chs)) = ToSet(order)
  BY <1>4 DEF Pending, ToSet
<1> QED BY <1>2, <1>3, <1>6, <1>7

(* What a save remembers when it starts.                                   *)
LEMMA StartFacts ==
    ASSUME TypeInv, NEW w \in Savers, SaveAliases(w)
    PROVE  /\ SavesTyped'
           /\ \A v \in Savers \ {w} : saves'[v] = saves[v]
           /\ saves'[w].save.confirmed =
                [ch \in DirtyChannels(table, draft) |-> RowsOf(draft, ch)]
           /\ saves'[w].save.touched = {}
           /\ Pending(saves'[w].save.todo) = DirtyChannels(table, draft)
<1> DEFINE targets == DirtyChannels(table, draft)
           empty == {ch \in targets : RowsOf(draft, ch) = <<>>}
           patches == Steps("patch", targets \ empty)
           deletes == Steps("delete", empty)
           confirmed == [ch \in targets |-> RowsOf(draft, ch)]
           slot == [busy |-> TRUE, save |->
                     [todo |-> patches \o deletes, confirmed |-> confirmed, touched |-> {}]]
<1>1. saves \in [Savers -> SlotType] /\ saves' = [saves EXCEPT ![w] = slot]
  BY DEF TypeInv, SavesTyped, SaveAliases, StartSave
<1>2. targets \subseteq Names
  BY DEF TypeInv, TablesTyped, IsAliasTable, DirtyChannels
<1>3. /\ patches \in Seq(StepKinds) /\ Pending(patches) = targets \ empty
      /\ deletes \in Seq(StepKinds) /\ Pending(deletes) = empty
  <2>1. targets \ empty \in SUBSET Names /\ empty \in SUBSET Names
    BY <1>2
  <2> HIDE DEF targets, empty
  <2> QED BY <2>1, StepsFacts
<1>4. confirmed \in AliasTables
  <2>1. \A ch : RowsOf(draft, ch) \in Seq(Rows)
    BY DEF TypeInv, TablesTyped, IsAliasTable, RowsOf
  <2> HIDE DEF targets
  <2> QED BY <1>2, <2>1 DEF AliasTables
<1>5. patches \o deletes \in Seq(StepKinds)
      /\ ToSet(patches \o deletes) = ToSet(patches) \cup ToSet(deletes)
  <2> HIDE DEF patches, deletes
  <2> QED BY <1>3, ConcatElements
<1>6. Pending(patches \o deletes) = Pending(patches) \cup Pending(deletes)
  <2>1. \A q : Pending(q) = {x[2] : x \in ToSet(q)}
    BY DEF Pending, ToSet
  <2> HIDE DEF patches, deletes
  <2> QED BY <1>5, <2>1
<1> HIDE DEF patches, deletes, confirmed
<1>7. slot \in SlotType
  BY <1>4, <1>5 DEF SlotType, SaveType
<1>8. slot.save.confirmed = confirmed /\ slot.save.touched = {}
      /\ slot.save.todo = patches \o deletes
  OBVIOUS
<1> HIDE DEF slot
<1>9. SavesTyped' /\ saves'[w] = slot /\ \A v \in Savers \ {w} : saves'[v] = saves[v]
  BY <1>1, <1>7 DEF SavesTyped
<1>10. Pending(patches \o deletes) = targets
  BY <1>3, <1>6
<1> QED BY <1>8, <1>9, <1>10 DEF confirmed

(* A request that got through is off the list.                             *)
LEMMA StepDoneFacts ==
    ASSUME TypeInv, NEW w \in Savers, saves[w].save.todo # <<>>, StepDone(w)
    PROVE  /\ SavesTyped'
           /\ Channel(w) \in Names
           /\ \A v \in Savers \ {w} : saves'[v] = saves[v]
           /\ saves'[w].busy = saves[w].busy
           /\ saves'[w].save.confirmed = saves[w].save.confirmed
           /\ saves'[w].save.touched = saves[w].save.touched
           /\ saves'[w].save.todo = Tail(saves[w].save.todo)
           /\ Pending(saves[w].save.todo) \subseteq {Channel(w)} \cup Pending(saves'[w].save.todo)
<1> DEFINE todo == saves[w].save.todo
<1>1. saves \in [Savers -> SlotType] /\ saves' = [saves EXCEPT ![w].save.todo = Tail(@)]
  BY DEF TypeInv, SavesTyped, StepDone
<1>2. saves[w] \in SlotType /\ todo \in Seq(StepKinds)
  BY <1>1 DEF SlotType, SaveType
<1>3. Head(todo) \in StepKinds /\ Tail(todo) \in Seq(StepKinds)
  BY <1>2
<1>4. saves'[w] = [saves[w] EXCEPT !.save.todo = Tail(@)]
  BY <1>1
<1>5. /\ saves'[w] \in SlotType
      /\ saves'[w].busy = saves[w].busy
      /\ saves'[w].save.confirmed = saves[w].save.confirmed
      /\ saves'[w].save.touched = saves[w].save.touched
      /\ saves'[w].save.todo = Tail(todo)
  BY <1>2, <1>3, <1>4 DEF SlotType, SaveType
<1>6. SavesTyped' /\ \A v \in Savers \ {w} : saves'[v] = saves[v]
  BY <1>1, <1>5 DEF SavesTyped
<1>7. Channel(w) \in Names
  BY <1>3 DEF Channel, StepKinds
<1>8. Pending(todo) \subseteq {Channel(w)} \cup Pending(Tail(todo))
  <2>1. todo[1][2] = Channel(w)
    BY <1>2 DEF Channel
  <2>2. ASSUME NEW i \in DOMAIN todo, i # 1 PROVE todo[i][2] \in Pending(Tail(todo))
    <3>1. i - 1 \in DOMAIN Tail(todo) /\ Tail(todo)[i - 1] = todo[i]
      <4> HIDE DEF todo
      <4>1. /\ DOMAIN todo = 1 .. Len(todo) /\ Len(todo) \in Nat
            /\ i \in 1 .. Len(todo)
        BY <1>2, <2>2
      <4>2. i - 1 \in 1 .. Len(todo) - 1 /\ (i - 1) + 1 = i /\ todo # <<>>
        BY <2>2, <4>1
      <4>3. /\ DOMAIN Tail(todo) = 1 .. Len(todo) - 1
            /\ \A j \in 1 .. Len(todo) - 1 : Tail(todo)[j] = todo[j + 1]
        BY <1>2, <4>2
      <4> QED BY <4>2, <4>3
    <3> QED BY <3>1 DEF Pending
  <2> HIDE DEF todo
  <2> QED BY <2>1, <2>2 DEF Pending
<1> QED BY <1>5, <1>6, <1>7, <1>8

(* A save that ended leaves an idle slot.                                  *)
LEMMA SlotCleared ==
    ASSUME NEW f \in [Savers -> SlotType], NEW w \in Savers
    PROVE  [f EXCEPT ![w] = Idle] \in [Savers -> SlotType]
<1>1. <<>> \in Seq(StepKinds) /\ <<>> \in AliasTables
  BY NoTable, TablesAreTables
<1>2. Idle \in SlotType
  BY <1>1 DEF Idle, NoSave, SlotType, SaveType
<1> QED BY <1>2

(* Reading the table, and forgetting the history that it ends.             *)
LEMMA AdoptTyped ==
    ASSUME TypeInv, Adopt, UNCHANGED server
    PROVE  TablesTyped' /\ mine' \subseteq Names /\ foreign' \subseteq Names
BY NoTable DEF TypeInv, Adopt, TablesTyped

(* Every step of a save keeps the types.                                   *)
LEMMA SaveStepTyped ==
    ASSUME TypeInv, NEW w \in Savers, SaveStep(w)
    PROVE  TablesTyped' /\ SavesTyped' /\ HistoryTyped'
<1>1. CASE SaveAliases(w)
  <2>1. SavesTyped'
    BY <1>1, StartFacts
  <2> QED BY <1>1, <2>1 DEF SaveAliases, StartSave, TypeInv, TablesTyped, HistoryTyped, editor, history
<1>2. CASE Patch(w)
  <2> DEFINE ch == Channel(w)
             rows == RowsOf(draft, ch)
  <2>1. /\ StepDone(w) /\ saves[w].save.todo # <<>>
        /\ server' = Put(server, ch, Kept(rows)) /\ written' = Put(written, ch, rows)
        /\ UNCHANGED <<table, draft, mine, foreign, edits>>
    BY <1>2 DEF Patch, Awaits, AliasPayloadRows, editor
  <2>2. SavesTyped' /\ ch \in Names
    BY <2>1, StepDoneFacts
  <2>3. IsAliasTable(server) /\ IsAliasTable(written) /\ IsAliasTable(draft) /\ IsAliasTable(table)
    BY DEF TypeInv, TablesTyped
  <2> HIDE DEF ch
  <2>4. rows \in Seq(Rows)
    BY <2>3 DEF RowsOf, IsAliasTable
  <2>5. Kept(rows) \in Seq(Rows)
    BY <2>4, KeptFacts
  <2> HIDE DEF rows
  <2>6. IsAliasTable(server') /\ IsAliasTable(written')
    BY <2>1, <2>2, <2>3, <2>4, <2>5, TableFacts
  <2> QED BY <2>1, <2>2, <2>3, <2>6 DEF TypeInv, TablesTyped, HistoryTyped
<1>3. CASE DeleteAliasChannel(w)
  <2> DEFINE ch == Channel(w)
  <2>1. /\ StepDone(w) /\ saves[w].save.todo # <<>>
        /\ server' = Without(server, ch) /\ written' = Put(written, ch, <<>>)
        /\ UNCHANGED <<table, draft, mine, foreign, edits>>
    BY <1>3 DEF DeleteAliasChannel, Awaits, editor
  <2>2. SavesTyped' /\ ch \in Names
    BY <2>1, StepDoneFacts
  <2>3. IsAliasTable(server) /\ IsAliasTable(written) /\ IsAliasTable(draft) /\ IsAliasTable(table)
    BY DEF TypeInv, TablesTyped
  <2> HIDE DEF ch
  <2>4. <<>> \in Seq(Rows)
    OBVIOUS
  <2>5. IsAliasTable(server') /\ IsAliasTable(written')
    BY <2>1, <2>2, <2>3, <2>4, TableFacts
  <2> QED BY <2>1, <2>2, <2>3, <2>5 DEF TypeInv, TablesTyped, HistoryTyped
<1>4. CASE SaveFails(w)
  <2>1. SavesTyped'
    BY <1>4, SlotCleared DEF SaveFails, TypeInv, SavesTyped
  <2> QED BY <1>4, <2>1 DEF SaveFails, TypeInv, TablesTyped, HistoryTyped, editor, history
<1>5. ASSUME Adopt, saves' = [Touching(Changed(draft')) EXCEPT ![w] = Idle],
             UNCHANGED <<server, offers, edits>>
      PROVE  TablesTyped' /\ SavesTyped' /\ HistoryTyped'
  <2>1. Changed(draft') \in SUBSET Names
    BY DEF Changed
  <2>2. Touching(Changed(draft')) \in [Savers -> SlotType]
    BY <2>1, TouchingFacts DEF TypeInv
  <2>3. SavesTyped'
    BY <1>5, <2>2, SlotCleared DEF SavesTyped
  <2>4. TablesTyped' /\ mine' \subseteq Names /\ foreign' \subseteq Names
    BY <1>5, AdoptTyped
  <2> QED BY <1>5, <2>3, <2>4 DEF TypeInv, HistoryTyped
<1>6. ASSUME saves' = [saves EXCEPT ![w] = Idle],
             UNCHANGED <<table, draft, history, server, offers, edits>>
      PROVE  TablesTyped' /\ SavesTyped' /\ HistoryTyped'
  <2>1. SavesTyped'
    BY <1>6, SlotCleared DEF TypeInv, SavesTyped
  <2> QED BY <1>6, <2>1 DEF TypeInv, TablesTyped, HistoryTyped, history
<1>7. CASE SaveEnds(w)
  BY <1>5, <1>6, <1>7 DEF SaveEnds
<1> QED BY <1>1, <1>2, <1>3, <1>4, <1>7 DEF SaveStep

(* Every step does.                                                        *)
LEMMA StepTyped ==
    ASSUME TypeInv, [Next]_vars
    PROVE  TypeInv'
<1> USE DEF TypeInv
<1>1. OffersTyped'
  BY StepCases
<1>2. IsAliasTable(server) /\ IsAliasTable(table) /\ IsAliasTable(draft) /\ IsAliasTable(written)
  BY DEF TablesTyped
<1>3. EditBound \in Nat
  BY EditorConstants
<1>4. CASE EditStep
  <2>1. PICK ch \in Names, rows \in Seq(Rows) : Edit(ch, rows)
    BY <1>4 DEF EditStep
  <2>2. /\ draft' = Put(draft, ch, rows) /\ saves' = Touching({ch})
        /\ mine' = mine \cup {ch} /\ edits < EditBound /\ edits' = edits + 1
        /\ UNCHANGED <<server, table, written, foreign>>
    BY <2>1 DEF Edit
  <2>3. IsAliasTable(draft')
    BY <1>2, <2>2, TableFacts
  <2>4. SavesTyped'
    BY <2>2, TouchingFacts DEF SavesTyped
  <2>5. TablesTyped'
    BY <1>2, <2>2, <2>3 DEF TablesTyped
  <2>6. HistoryTyped'
    BY <1>3, <2>2 DEF HistoryTyped
  <2> QED BY <1>1, <2>4, <2>5, <2>6
<1>5. CASE LookStep
  BY <1>1, <1>5 DEF LookStep, TablesTyped, SavesTyped, HistoryTyped
<1>6. CASE RevertAliases
  <2>1. /\ draft' = table /\ saves' = Touching(Changed(draft'))
        /\ UNCHANGED <<server, table, mine, written, foreign, edits>>
    BY <1>6 DEF RevertAliases, history
  <2>2. Changed(draft') \in SUBSET Names
    BY DEF Changed
  <2>3. SavesTyped'
    BY <2>1, <2>2, TouchingFacts DEF SavesTyped
  <2> QED BY <1>1, <1>2, <2>1, <2>3 DEF TablesTyped, HistoryTyped
<1>7. CASE LoadAliases
  <2>1. Adopt /\ saves' = Touching(Changed(draft')) /\ UNCHANGED <<server, edits>>
    BY <1>7 DEF LoadAliases
  <2>2. Changed(draft') \in SUBSET Names
    BY DEF Changed
  <2>3. SavesTyped'
    BY <2>1, <2>2, TouchingFacts DEF SavesTyped
  <2>4. TablesTyped' /\ mine' \subseteq Names /\ foreign' \subseteq Names
    BY <2>1, AdoptTyped
  <2> QED BY <1>1, <2>1, <2>3, <2>4 DEF HistoryTyped
<1>8. ASSUME NEW w \in Savers, SaveStep(w) PROVE TypeInv'
  BY <1>1, <1>8, SaveStepTyped
<1>9. CASE OtherStep
  <2>1. PICK ch \in Names, rows \in Seq(Rows) : StoreElsewhere(ch, rows)
    BY <1>9 DEF OtherStep
  <2>2. /\ server' = Put(server, ch, rows) /\ saves' = Touching({ch})
        /\ foreign' = foreign \cup {ch} /\ edits < EditBound /\ edits' = edits + 1
        /\ UNCHANGED <<table, draft, mine, written>>
    BY <2>1 DEF StoreElsewhere, editor
  <2>3. IsAliasTable(server')
    BY <1>2, <2>2, TableFacts
  <2>4. SavesTyped'
    BY <2>2, TouchingFacts DEF SavesTyped
  <2>5. TablesTyped'
    BY <1>2, <2>2, <2>3 DEF TablesTyped
  <2>6. HistoryTyped'
    BY <1>3, <2>2 DEF HistoryTyped
  <2> QED BY <1>1, <2>4, <2>5, <2>6
<1> QED BY <1>4, <1>5, <1>6, <1>7, <1>8, <1>9, StepCases

(* The editor opens with the table it read.                                *)
LEMMA InitTyped == Init => TypeInv
<1> SUFFICES ASSUME Init PROVE TypeInv
  OBVIOUS
<1>1. TablesTyped
  BY NoTable, StoredIsKept DEF Init, TablesTyped
<1>2. SavesTyped
  <2>1. \A f : f = [w \in Savers |-> Idle] => f \in [Savers -> SlotType]
    <3>1. Idle \in SlotType
      <4>1. <<>> \in Seq(StepKinds) /\ <<>> \in AliasTables
        BY NoTable, TablesAreTables
      <4> QED BY <4>1 DEF Idle, NoSave, SlotType, SaveType
    <3> QED BY <3>1
  <2> QED BY <2>1 DEF Init, SavesTyped
<1>3. OffersTyped /\ HistoryTyped
  BY EditorConstants DEF Init, OffersTyped, HistoryTyped
<1> QED BY <1>1, <1>2, <1>3 DEF TypeInv

(* Every variable of the editor stays in its type, whatever fails,         *)
(* overlaps or is edited elsewhere.  panel.html:1032-1078, 1485-1568.      *)
THEOREM EditorTypeCorrect == Spec => []TypeOK
<1>1. TypeInv => TypeOK
  <2> SUFFICES ASSUME TypeInv PROVE TypeOK
    OBVIOUS
  <2>1. \A w \in Savers : /\ saves[w].busy \in BOOLEAN
                         /\ saves[w].save.todo \in Seq({"patch", "delete"} \X Names)
                         /\ IsAliasTable(saves[w].save.confirmed)
                         /\ saves[w].save.touched \subseteq Names
    BY TablesAreTables DEF TypeInv, SavesTyped, SlotType, SaveType, StepKinds
  <2> QED BY <2>1 DEF TypeInv, TypeOK, TablesTyped, OffersTyped, HistoryTyped
<1> QED BY <1>1, InitTyped, StepTyped, PTL DEF Spec

-----------------------------------------------------------------------------
(* What holds of the draft in every state.                                 *)

(* The rows announced before a save are the rows CPA will not keep, for    *)
(* any rows an operator can type.  panel.html:1434-1476, 1504-1519.        *)
THEOREM AnnouncedDropsHold == Spec => []DropsAreAnnounced
<1>1. TypeInv => DropsAreAnnounced
  <2> SUFFICES ASSUME TypeInv, NEW ch \in DOMAIN draft
               PROVE  Kept(draft[ch]) = Only(draft[ch], DOMAIN draft[ch] \ DroppedRows(draft[ch]))
    BY DEF DropsAreAnnounced
  <2>1. draft[ch] \in Seq(Rows)
    BY DEF TypeInv, TablesTyped, IsAliasTable
  <2> QED BY <2>1, KeptByPosition
<1> QED BY <1>1, InitTyped, StepTyped, PTL DEF Spec

(* Nothing that a row names is proposed again, whatever the providers list *)
(* and in whichever order their spellings are read.  alias.go:250-255,     *)
(* panel.html:1598-1608.                                                   *)
THEOREM CoveredStaysCovered == Spec => []NothingCoveredIsProposed
<1>1. TypeInv => NothingCoveredIsProposed
  <2> SUFFICES ASSUME TypeInv, NEW upstream \in Upstreams,
                      NEW report \in AliasReports(draft, upstream), report # NothingToCompare,
                      NEW ch \in DOMAIN draft, NEW i \in DOMAIN draft[ch]
               PROVE  {Trim[draft[ch][i].name], Trim[draft[ch][i].alias]}
                         \cap ToSet(report.missing[ch]) = {}
    BY DEF NothingCoveredIsProposed
  <2>1. IsAliasTable(draft)
    BY DEF TypeInv, TablesTyped
  <2>2. PICK u \in LowerKeys(upstream) : report = Report(DOMAIN draft, u, Covered(draft))
    BY <2>1, ReportOfTable
  <2>3. Listing(u, ch) \in Listings
    BY ListingFacts
  <2>4. ToSet(report.missing[ch]) \subseteq Texts \ ({None} \cup Covered(draft)[ch])
    BY <2>1, <2>2, <2>3, ProposedFacts
  <2> QED BY <2>1, <2>4, RowsAreCovered
<1> QED BY <1>1, InitTyped, StepTyped, PTL DEF Spec

(* The report accounts for every name of a provider spelled in one way,    *)
(* and for the names of one of the listings of any other, for any number   *)
(* of channels, listings and spellings.  alias.go:43-54, 166-172, 204-266. *)
THEOREM ReportsAccount == Spec => []ReportAccountsForAll
<1>1. TypeInv => ReportAccountsForAll
  <2> SUFFICES ASSUME TypeInv, NEW upstream \in Upstreams,
                      NEW report \in AliasReports(draft, upstream), report # NothingToCompare
               PROVE  /\ report.captured = Total(report.missing) + report.ignored
                      /\ \A p \in DOMAIN upstream :
                            (Lower[p] # None /\ SpelledOnce(upstream, p))
                               => Accounted(report, Lower[p], upstream[p])
                      /\ \A provider \in LowerAll(DOMAIN upstream) :
                            \E p \in DOMAIN upstream :
                               /\ Lower[p] = provider
                               /\ Accounted(report, provider, upstream[p])
                      /\ \A ch \in DOMAIN draft :
                            report.sources[ch].origin = "none" =>
                               report.missing[ch] = <<>> /\ report.skipped[ch] # <<>>
    BY DEF ReportAccountsForAll
  <2>1. IsAliasTable(draft)
    BY DEF TypeInv, TablesTyped
  <2>2. PICK u \in LowerKeys(upstream) : report = Report(DOMAIN draft, u, Covered(draft))
    BY <2>1, ReportOfTable
  <2>3. \A c : Listing(u, c) \in Listings
    BY ListingFacts
  <2>4. report.captured = Total(report.missing) + report.ignored
    BY <2>1, <2>2, <2>3, JudgedIsSplit
  <2>5. \A ch \in DOMAIN draft :
           /\ Listed(Listing(u, ch)) \subseteq Explained(report, ch)
           /\ report.sources[ch].origin = "none" =>
                 report.missing[ch] = <<>> /\ report.skipped[ch] # <<>>
    BY <2>1, <2>2, ChannelIsExplained
  <2>6. ASSUME NEW provider \in LowerAll(DOMAIN upstream)
        PROVE  \E p \in DOMAIN upstream :
                  Lower[p] = provider /\ Accounted(report, provider, upstream[p])
    <3>1. provider \in DOMAIN u
      BY ListingFacts
    <3>2. PICK p \in DOMAIN upstream : Lower[p] = provider /\ u[provider] = upstream[p]
      BY <3>1 DEF LowerKeys
    <3>3. Listing(u, provider) = upstream[p]
      BY <3>1, <3>2 DEF Listing
    <3>4. CASE provider \in DOMAIN draft
      BY <2>5, <3>2, <3>3, <3>4 DEF Accounted
    <3>5. CASE provider \notin DOMAIN draft
      <4>1. DOMAIN report.noChannel =
              {q \in DOMAIN u \ DOMAIN draft : Readable(Listing(u, q))}
        BY <2>2 DEF Report
      <4> QED BY <3>1, <3>2, <3>3, <3>5, <4>1 DEF Accounted
    <3> QED BY <3>4, <3>5
  <2>7. ASSUME NEW p \in DOMAIN upstream, Lower[p] # None, SpelledOnce(upstream, p)
        PROVE  Accounted(report, Lower[p], upstream[p])
    <3>1. Lower[p] \in LowerAll(DOMAIN upstream)
      BY <2>7 DEF LowerAll
    <3>2. PICK q \in DOMAIN upstream :
             Lower[q] = Lower[p] /\ Accounted(report, Lower[p], upstream[q])
      BY <2>6, <3>1
    <3>3. q = p
      BY <2>7, <3>2 DEF SpelledOnce
    <3> QED BY <3>2, <3>3
  <2> QED BY <2>4, <2>5, <2>6, <2>7
<1> QED BY <1>1, InitTyped, StepTyped, PTL DEF Spec

-----------------------------------------------------------------------------
(* What CPA holds.                                                         *)

(* Where nobody else stored anything, CPA has what was read or what it     *)
(* kept of the rows last written here; and it has only rows it would keep. *)
HeldAsWritten ==
    \A ch : ch \notin foreign =>
        RowsOf(server, ch) = IF ch \in DOMAIN written THEN Kept(written[ch])
                             ELSE RowsOf(table, ch)
StoredInv ==
    /\ \A ch : Clean(RowsOf(server, ch)) /\ Clean(RowsOf(table, ch))
    /\ HeldAsWritten

(* No rows are clean rows.                                                 *)
LEMMA NothingIsClean == Clean(<<>>) /\ Kept(<<>>) = <<>>
<1>1. Clean(<<>>)
  BY DEF Clean
<1>2. <<>> \in Seq(Rows)
  OBVIOUS
<1> QED BY <1>1, <1>2, KeptFacts

(* What a write leaves in CPA's table.                                     *)
LEMMA WriteKeepsStored ==
    ASSUME TypeInv, StoredInv, NEW ch \in Names, NEW rows \in Seq(Rows),
           \/ server' = Put(server, ch, Kept(rows))
           \/ server' = Without(server, ch) /\ rows = <<>>,
           written' = Put(written, ch, rows), UNCHANGED <<table, foreign>>
    PROVE  StoredInv'
<1>1. IsAliasTable(server) /\ IsAliasTable(written)
  BY DEF TypeInv, TablesTyped
<1>2. Kept(rows) \in Seq(Rows) /\ Clean(Kept(rows))
  BY KeptFacts
<1>3. \A c : RowsOf(server', c) = IF c = ch THEN Kept(rows) ELSE RowsOf(server, c)
  <2>1. CASE server' = Put(server, ch, Kept(rows))
    BY <1>1, <1>2, <2>1, TableFacts
  <2>2. CASE server' = Without(server, ch) /\ rows = <<>>
    BY <1>1, <1>2, <2>2, TableFacts, NothingIsClean
  <2> QED BY <2>1, <2>2
<1>4. /\ DOMAIN written' = DOMAIN written \cup {ch}
      /\ \A c \in DOMAIN written' : written'[c] = IF c = ch THEN rows ELSE written[c]
  BY DEF Put
<1>5. \A c : Clean(RowsOf(server', c)) /\ Clean(RowsOf(table', c))
  BY <1>2, <1>3 DEF StoredInv
<1>6. HeldAsWritten'
  BY <1>3, <1>4 DEF StoredInv, HeldAsWritten
<1> QED BY <1>5, <1>6 DEF StoredInv

(* Every step keeps what CPA holds as it is described.                     *)
LEMMA StepStored ==
    ASSUME TypeInv, StoredInv, [Next]_vars
    PROVE  StoredInv'
<1>1. CASE UNCHANGED <<server, table, written, foreign>>
  BY <1>1 DEF StoredInv, HeldAsWritten
<1>2. CASE Adopt /\ UNCHANGED server
  <2>1. table' = server /\ server' = server /\ written' = <<>>
    BY <1>2 DEF Adopt
  <2>2. DOMAIN written' = {}
    BY <2>1
  <2> QED BY <2>1, <2>2 DEF StoredInv, HeldAsWritten
<1>3. CASE EditStep
  BY <1>1, <1>3 DEF EditStep, Edit
<1>4. CASE LookStep \/ RevertAliases
  BY <1>1, <1>4 DEF LookStep, RevertAliases, history
<1>5. CASE LoadAliases
  BY <1>2, <1>5 DEF LoadAliases
<1>6. ASSUME NEW w \in Savers, SaveStep(w) PROVE StoredInv'
  <2>1. CASE SaveAliases(w) \/ SaveFails(w)
    BY <1>1, <2>1 DEF SaveAliases, StartSave, SaveFails, editor, history
  <2>2. CASE SaveEnds(w)
    BY <1>1, <1>2, <2>2 DEF SaveEnds, history
  <2>3. CASE Patch(w) \/ DeleteAliasChannel(w)
    <3>1. StepDone(w) /\ saves[w].save.todo # <<>> /\ UNCHANGED <<table, foreign>>
      BY <2>3 DEF Patch, DeleteAliasChannel, Awaits, editor
    <3>2. Channel(w) \in Names
      BY <3>1, StepDoneFacts
    <3>3. RowsOf(draft, Channel(w)) \in Seq(Rows) /\ <<>> \in Seq(Rows)
      BY DEF TypeInv, TablesTyped, IsAliasTable, RowsOf
    <3> QED BY <2>3, <3>1, <3>2, <3>3, WriteKeepsStored
            DEF Patch, DeleteAliasChannel, AliasPayloadRows
  <2> QED BY <1>6, <2>1, <2>2, <2>3 DEF SaveStep
<1>7. CASE OtherStep
  <2>1. PICK ch \in Names, rows \in Seq(Rows) : Kept(rows) = rows /\ StoreElsewhere(ch, rows)
    BY <1>7 DEF OtherStep
  <2>2. /\ server' = Put(server, ch, rows) /\ foreign' = foreign \cup {ch}
        /\ UNCHANGED <<table, written>>
    BY <2>1 DEF StoreElsewhere, editor
  <2>3. IsAliasTable(server)
    BY DEF TypeInv, TablesTyped
  <2>4. \A c : RowsOf(server', c) = IF c = ch THEN rows ELSE RowsOf(server, c)
    BY <2>2, <2>3, TableFacts
  <2>5. Clean(rows)
    <3>1. Clean(Kept(rows))
      BY KeptFacts
    <3> QED BY <2>1, <3>1
  <2>6. \A c : Clean(RowsOf(server', c)) /\ Clean(RowsOf(table', c))
    BY <2>2, <2>4, <2>5 DEF StoredInv
  <2>7. HeldAsWritten'
    BY <2>2, <2>4 DEF StoredInv, HeldAsWritten
  <2> QED BY <2>6, <2>7 DEF StoredInv
<1> QED BY <1>3, <1>4, <1>5, <1>6, <1>7, StepCases

(* A channel that does not look edited is what CPA has, unless others      *)
(* stored it or a save that failed half way wrote it and it was changed    *)
(* back: for any rows, failures and overlapping saves.                     *)
(* panel.html:1080-1095, 1523-1558.                                        *)
THEOREM UnsavedIsMarked == Spec => []NothingUnsavedLooksSaved
<1>1. Init => StoredInv
  <2> SUFFICES ASSUME Init PROVE StoredInv
    OBVIOUS
  <2>1. server \in Tables /\ table = server /\ written = <<>> /\ DOMAIN written = {}
    BY DEF Init
  <2>2. ASSUME NEW ch PROVE Clean(RowsOf(server, ch))
    <3>1. CASE ch \in DOMAIN server
      <4>1. server[ch] \in Seq(Rows) /\ Kept(server[ch]) = server[ch]
        BY <2>1, <3>1, StoredIsKept DEF IsAliasTable
      <4>2. Clean(Kept(server[ch]))
        BY <4>1, KeptFacts
      <4> QED BY <3>1, <4>1, <4>2 DEF RowsOf
    <3>2. CASE ch \notin DOMAIN server
      BY <3>2, NothingIsClean DEF RowsOf
    <3> QED BY <3>1, <3>2
  <2> QED BY <2>1, <2>2 DEF StoredInv, HeldAsWritten
<1>2. TypeInv /\ StoredInv => NothingUnsavedLooksSaved
  <2> SUFFICES ASSUME TypeInv, StoredInv, NEW ch \in Names \ foreign,
                      ~AliasIsDirty(table, draft, ch),
                      ~(ch \in DOMAIN written /\ written[ch] # RowsOf(draft, ch))
               PROVE  SameRows(RowsOf(server, ch), RowsOf(draft, ch))
    BY DEF NothingUnsavedLooksSaved
  <2> DEFINE old == RowsOf(table, ch)
             new == RowsOf(draft, ch)
  <2>1. old \in Seq(Rows) /\ new \in Seq(Rows)
    BY DEF TypeInv, TablesTyped, IsAliasTable, RowsOf
  <2>2. SameRows(old, new) /\ Clean(old)
    BY DEF AliasIsDirty, StoredInv
  <2>3. CASE ch \notin DOMAIN written
    <3>1. RowsOf(server, ch) = old
      BY <2>3 DEF StoredInv, HeldAsWritten
    <3> QED BY <2>2, <3>1
  <2>4. CASE ch \in DOMAIN written
    <3>1. RowsOf(server, ch) = Kept(new)
      BY <2>4 DEF StoredInv, HeldAsWritten
    <3> HIDE DEF old, new
    <3>2. Kept(new) = new
      BY <2>1, <2>2, SameRowsClean, KeptFacts
    <3>3. SameRows(new, new)
      BY <2>1 DEF SameRows
    <3> QED BY <3>1, <3>2, <3>3 DEF new
  <2> QED BY <2>3, <2>4
<1> QED BY <1>1, <1>2, InitTyped, StepTyped, StepStored, PTL DEF Spec

-----------------------------------------------------------------------------
(* What a save confirmed.                                                  *)

(* A channel that nobody changed since a save was confirmed still shows    *)
(* what was confirmed; and it is still to be written, or CPA holds what it *)
(* kept of it or, after another save that deleted the channel, no rows.    *)
AsConfirmed(w, ch) ==
    LET rows == saves[w].save.confirmed[ch]
    IN  /\ RowsOf(draft, ch) = rows
        /\ \/ ch \in Pending(saves[w].save.todo)
           \/ RowsOf(server, ch) \in {Kept(rows), <<>>}

ConfirmedInv ==
    \A w \in Savers : Busy(w) =>
        \A ch \in DOMAIN saves[w].save.confirmed \ saves[w].save.touched : AsConfirmed(w, ch)

(* Only channels of the table are confirmed.                               *)
LEMMA ConfirmedTyped ==
    ASSUME SavesTyped, NEW w \in Savers
    PROVE  /\ DOMAIN saves[w].save.confirmed \subseteq Names
           /\ \A ch \in DOMAIN saves[w].save.confirmed :
                saves[w].save.confirmed[ch] \in Seq(Rows)
<1>1. saves[w].save.confirmed \in AliasTables
  BY DEF SavesTyped, SlotType, SaveType
<1>2. IsAliasTable(saves[w].save.confirmed)
  BY <1>1, TablesAreTables
<1> QED BY <1>2 DEF IsAliasTable

(* A step that changes channels remembers them as touched.                 *)
LEMMA TouchKeepsConfirmed ==
    ASSUME TypeInv, ConfirmedInv, NEW chs \in SUBSET Names, NEW w \in Savers,
           saves'[w] = Touching(chs)[w], Busy(w)',
           \A c \in Names \ chs : /\ RowsOf(draft', c) = RowsOf(draft, c)
                                  /\ RowsOf(server', c) = RowsOf(server, c),
           NEW ch \in DOMAIN saves'[w].save.confirmed \ saves'[w].save.touched
    PROVE  AsConfirmed(w, ch)'
<1>1. /\ saves'[w].busy = saves[w].busy
      /\ saves'[w].save.todo = saves[w].save.todo
      /\ saves'[w].save.confirmed = saves[w].save.confirmed
      /\ Busy(w) => saves'[w].save.touched = saves[w].save.touched \cup chs
  BY TouchingFacts DEF TypeInv
<1>2. Busy(w) /\ ch \in DOMAIN saves[w].save.confirmed \ saves[w].save.touched /\ ch \notin chs
  BY <1>1 DEF Busy
<1>3. ch \in Names
  BY <1>2, ConfirmedTyped DEF TypeInv
<1>4. AsConfirmed(w, ch)
  BY <1>2 DEF ConfirmedInv
<1>5. RowsOf(draft', ch) = RowsOf(draft, ch) /\ RowsOf(server', ch) = RowsOf(server, ch)
  BY <1>2, <1>3
<1> QED BY <1>1, <1>4, <1>5 DEF AsConfirmed

(* So does the write of a channel, for the save that writes it and for any *)
(* other that confirmed it.                                                *)
LEMMA WriteKeepsConfirmed ==
    ASSUME TypeInv, ConfirmedInv, NEW w \in Savers, Patch(w) \/ DeleteAliasChannel(w)
    PROVE  ConfirmedInv'
<1> DEFINE ch == Channel(w)
<1>1. /\ Busy(w) /\ saves[w].save.todo # <<>> /\ StepDone(w)
      /\ draft' = draft
      /\ \/ server' = Put(server, ch, Kept(RowsOf(draft, ch)))
         \/ server' = Without(server, ch)
  BY DEF Patch, DeleteAliasChannel, Awaits, AliasPayloadRows, editor
<1>2. /\ ch \in Names
      /\ \A v \in Savers \ {w} : saves'[v] = saves[v]
      /\ saves'[w].busy = saves[w].busy
      /\ saves'[w].save.confirmed = saves[w].save.confirmed
      /\ saves'[w].save.touched = saves[w].save.touched
      /\ Pending(saves[w].save.todo) \subseteq {ch} \cup Pending(saves'[w].save.todo)
  BY <1>1, StepDoneFacts
<1> HIDE DEF ch
<1>3. RowsOf(draft, ch) \in Seq(Rows) /\ IsAliasTable(server)
  BY DEF TypeInv, TablesTyped, IsAliasTable, RowsOf
<1>4. Kept(RowsOf(draft, ch)) \in Seq(Rows)
  BY <1>3, KeptFacts
<1>5. \A c : IF c = ch THEN RowsOf(server', c) \in {Kept(RowsOf(draft, ch)), <<>>}
            ELSE RowsOf(server', c) = RowsOf(server, c)
  BY <1>1, <1>2, <1>3, <1>4, TableFacts
<1> SUFFICES ASSUME NEW v \in Savers, Busy(v)',
                    NEW c \in DOMAIN saves'[v].save.confirmed \ saves'[v].save.touched
             PROVE  AsConfirmed(v, c)'
  BY DEF ConfirmedInv
<1>6. /\ saves'[v].busy = saves[v].busy
      /\ saves'[v].save.confirmed = saves[v].save.confirmed
      /\ saves'[v].save.touched = saves[v].save.touched
      /\ c # ch => (c \in Pending(saves[v].save.todo) => c \in Pending(saves'[v].save.todo))
  BY <1>2
<1>7. AsConfirmed(v, c)
  BY <1>6 DEF ConfirmedInv, Busy
<1>8. CASE c = ch
  BY <1>1, <1>5, <1>6, <1>7, <1>8 DEF AsConfirmed
<1>9. CASE c # ch
  BY <1>1, <1>5, <1>6, <1>7, <1>9 DEF AsConfirmed
<1> QED BY <1>8, <1>9

(* Every step keeps what was confirmed.                                    *)
LEMMA StepConfirmed ==
    ASSUME TypeInv, ConfirmedInv, [Next]_vars
    PROVE  ConfirmedInv'
<1>1. ASSUME NEW chs \in SUBSET Names, saves' = Touching(chs),
             \A c \in Names \ chs : /\ RowsOf(draft', c) = RowsOf(draft, c)
                                    /\ RowsOf(server', c) = RowsOf(server, c)
      PROVE  ConfirmedInv'
  BY <1>1, TouchKeepsConfirmed DEF ConfirmedInv
<1>2. Changed(draft') \in SUBSET Names
      /\ \A c \in Names \ Changed(draft') : RowsOf(draft', c) = RowsOf(draft, c)
  BY DEF Changed
<1>3. IsAliasTable(draft) /\ IsAliasTable(server)
  BY DEF TypeInv, TablesTyped
<1>4. CASE EditStep
  <2>1. PICK ch \in Names, rows \in Seq(Rows) : Edit(ch, rows)
    BY <1>4 DEF EditStep
  <2>2. draft' = Put(draft, ch, rows) /\ saves' = Touching({ch}) /\ server' = server
    BY <2>1 DEF Edit
  <2>3. \A c : c # ch => RowsOf(draft', c) = RowsOf(draft, c)
    BY <1>3, <2>2, TableFacts
  <2> QED BY <1>1, <2>2, <2>3
<1>5. CASE LookStep
  BY <1>5 DEF LookStep, ConfirmedInv, AsConfirmed, Busy
<1>6. CASE RevertAliases \/ LoadAliases
  <2>1. saves' = Touching(Changed(draft')) /\ server' = server
    BY <1>6 DEF RevertAliases, LoadAliases
  <2> QED BY <1>1, <1>2, <2>1
<1>7. CASE OtherStep
  <2>1. PICK ch \in Names, rows \in Seq(Rows) : StoreElsewhere(ch, rows)
    BY <1>7 DEF OtherStep
  <2>2. server' = Put(server, ch, rows) /\ saves' = Touching({ch}) /\ draft' = draft
    BY <2>1 DEF StoreElsewhere, editor
  <2>3. \A c : c # ch => RowsOf(server', c) = RowsOf(server, c)
    BY <1>3, <2>2, TableFacts
  <2> QED BY <1>1, <2>2, <2>3
<1>8. ASSUME NEW w \in Savers, SaveStep(w) PROVE ConfirmedInv'
  <2>1. CASE Patch(w) \/ DeleteAliasChannel(w)
    BY <2>1, WriteKeepsConfirmed
  <2>2. CASE SaveAliases(w)
    <3>1. draft' = draft /\ server' = server
      BY <2>2 DEF SaveAliases, StartSave, editor
    <3>2. /\ \A v \in Savers \ {w} : saves'[v] = saves[v]
          /\ saves'[w].save.confirmed =
                [ch \in DirtyChannels(table, draft) |-> RowsOf(draft, ch)]
          /\ Pending(saves'[w].save.todo) = DirtyChannels(table, draft)
      BY <2>2, StartFacts
    <3>3. ASSUME NEW ch \in DOMAIN saves'[w].save.confirmed PROVE AsConfirmed(w, ch)'
      BY <3>1, <3>2 DEF AsConfirmed
    <3>4. ASSUME NEW v \in Savers \ {w}, Busy(v)',
                 NEW ch \in DOMAIN saves'[v].save.confirmed \ saves'[v].save.touched
          PROVE  AsConfirmed(v, ch)'
      BY <3>1, <3>2, <3>4 DEF ConfirmedInv, AsConfirmed, Busy
    <3> QED BY <3>3, <3>4 DEF ConfirmedInv
  <2>3. ASSUME NEW chs \in SUBSET Names, saves' = [Touching(chs) EXCEPT ![w] = Idle],
               \A c \in Names \ chs : /\ RowsOf(draft', c) = RowsOf(draft, c)
                                      /\ RowsOf(server', c) = RowsOf(server, c)
        PROVE  ConfirmedInv'
    <3>1. ~Busy(w)'
      BY <2>3 DEF Busy, Idle, Touching
    <3>2. \A v \in Savers \ {w} : saves'[v] = Touching(chs)[v]
      BY <2>3 DEF Touching
    <3> QED BY <2>3, <3>1, <3>2, TouchKeepsConfirmed DEF ConfirmedInv
  <2>4. CASE saves' = [saves EXCEPT ![w] = Idle] /\ UNCHANGED <<draft, server>>
    <3>1. saves \in [Savers -> SlotType]
      BY DEF TypeInv, SavesTyped
    <3>2. ~Busy(w)' /\ \A v \in Savers \ {w} : saves'[v] = saves[v]
      BY <2>4, <3>1 DEF Busy, Idle
    <3> QED BY <2>4, <3>2 DEF ConfirmedInv, AsConfirmed, Busy
  <2>5. CASE SaveFails(w)
    BY <2>4, <2>5 DEF SaveFails, editor
  <2>6. CASE SaveEnds(w)
    BY <1>2, <2>3, <2>4, <2>6 DEF SaveEnds
  <2> QED BY <1>8, <2>1, <2>2, <2>5, <2>6 DEF SaveStep
<1> QED BY <1>4, <1>5, <1>6, <1>7, <1>8, StepCases

(* When a save ends well and no row is found missing, CPA has what was     *)
(* confirmed for every channel that nobody changed meanwhile, whatever     *)
(* failed before and whichever saves overlapped.  panel.html:1521-1556.    *)
THEOREM ConfirmedRowsAreStored == Spec => ConfirmedIsStored
<1>1. Init => ConfirmedInv
  BY DEF Init, Idle, Busy, ConfirmedInv
<1>2. ASSUME TypeInv, ConfirmedInv, NEW w \in Savers, Busy(w), saves[w].save.todo = <<>>,
             ~Shortfall(w), NEW ch \in DOMAIN saves[w].save.confirmed \ saves[w].save.touched
      PROVE  RowsOf(server, ch) = saves[w].save.confirmed[ch]
  <2> DEFINE rows == saves[w].save.confirmed[ch]
  <2>1. rows \in Seq(Rows)
    BY <1>2, ConfirmedTyped DEF TypeInv
  <2>2. AsConfirmed(w, ch)
    BY <1>2 DEF ConfirmedInv
  <2>3. Pending(saves[w].save.todo) = {}
    BY <1>2 DEF Pending
  <2>4. RowsOf(draft, ch) = rows /\ RowsOf(server, ch) \in {Kept(rows), <<>>}
    BY <2>2, <2>3 DEF AsConfirmed
  <2>5. rows # <<>> => ~(Len(RowsOf(server, ch)) < Len(rows))
    BY <1>2, <2>4 DEF Shortfall
  <2> HIDE DEF rows
  <2>6. Kept(rows) \in Seq(Rows) /\ (Len(Kept(rows)) >= Len(rows) => Kept(rows) = rows)
    BY <2>1, KeptFacts
  <2>7. CASE rows = <<>>
    BY <2>4, <2>7, NothingIsClean DEF rows
  <2>8. CASE rows # <<>>
    <3>1. Len(rows) \in Nat /\ Len(rows) > 0 /\ Len(Kept(rows)) \in Nat
      BY <2>1, <2>6, <2>8
    <3>2. RowsOf(server, ch) = Kept(rows)
      BY <2>4, <2>5, <2>8, <3>1
    <3> QED BY <2>5, <2>6, <2>8, <3>1, <3>2 DEF rows
  <2> QED BY <2>7, <2>8
<1>3. TypeInv /\ ConfirmedInv =>
        \A w \in Savers :
          (Busy(w) /\ saves[w].save.todo = <<>> /\ ~Shortfall(w)) =>
            \A ch \in DOMAIN saves[w].save.confirmed \ saves[w].save.touched :
                RowsOf(server, ch) = saves[w].save.confirmed[ch]
  BY <1>2
<1>4. TypeInv /\ ConfirmedInv /\ [Next]_vars =>
        [\A w \in Savers :
           LET save == saves[w].save
           IN  (Busy(w) /\ ~Busy(w)' /\ save.todo = <<>> /\ table' = server /\ ~Shortfall(w))
                  => \A ch \in DOMAIN save.confirmed \ save.touched :
                        RowsOf(server, ch) = save.confirmed[ch]]_vars
  BY <1>3
<1> QED BY <1>1, <1>4, InitTyped, StepTyped, StepConfirmed, PTL DEF Spec, ConfirmedIsStored

-----------------------------------------------------------------------------
(* What a save writes.                                                     *)

(* A channel nobody edited here since the last read is as it was read.     *)
UneditedAsRead == \A ch : ch \notin mine => RowsOf(draft, ch) = RowsOf(table, ch)

(* Rows that are the same do not look edited.                              *)
LEMMA SameRowsAreClean ==
    ASSUME NEW t, NEW d, NEW ch, RowsOf(d, ch) = RowsOf(t, ch)
    PROVE  ~AliasIsDirty(t, d, ch)
BY DEF AliasIsDirty, SameRows, Times

(* Every step of the editor keeps unedited channels as they were read.     *)
LEMMA StepKeepsUnedited ==
    ASSUME TypeInv, UneditedAsRead, [Next]_vars
    PROVE  UneditedAsRead'
<1>1. CASE UNCHANGED <<table, draft, mine>>
  BY <1>1 DEF UneditedAsRead, RowsOf
<1>2. CASE table' = draft'
  BY <1>2 DEF UneditedAsRead, RowsOf
<1>3. CASE EditStep
  <2>1. PICK ch \in Names, rows \in Seq(Rows) : Edit(ch, rows)
    BY <1>3 DEF EditStep
  <2>2. \A c : c # ch => RowsOf(draft', c) = RowsOf(draft, c)
    BY <2>1 DEF Edit, RowsOf, Put
  <2>3. table' = table /\ mine' = mine \cup {ch}
    BY <2>1 DEF Edit
  <2> QED BY <2>2, <2>3 DEF UneditedAsRead, RowsOf
<1>4. CASE LookStep
  BY <1>1, <1>4 DEF LookStep
<1>5. CASE RevertAliases \/ LoadAliases
  BY <1>2, <1>5 DEF RevertAliases, LoadAliases, Adopt
<1>6. ASSUME NEW w \in Savers, SaveStep(w) PROVE UneditedAsRead'
  BY <1>1, <1>2, <1>6 DEF SaveStep, SaveAliases, StartSave, Patch, DeleteAliasChannel,
       SaveFails, SaveEnds, Adopt, editor, history
<1>7. CASE OtherStep
  BY <1>1, <1>7 DEF OtherStep, StoreElsewhere, editor
<1> QED BY <1>3, <1>4, <1>5, <1>6, <1>7, StepCases

(* A save that is found under way was started by the operator's click, and *)
(* by nothing else.                                                        *)
LEMMA StartsAreSaves ==
    ASSUME TypeInv, [Next]_vars, NEW w \in Savers, ~Busy(w), Busy(w)'
    PROVE  SaveAliases(w)
<1>1. CASE \E chs : saves' = Touching(chs)
  BY <1>1 DEF Touching, Busy
<1>2. CASE LookStep
  BY <1>2 DEF LookStep, Busy
<1>3. ASSUME NEW v \in Savers, SaveAliases(v) PROVE SaveAliases(w)
  <2>1. saves \in [Savers -> SlotType]
    BY DEF TypeInv, SavesTyped
  <2> QED BY <1>3, <2>1 DEF SaveAliases, StartSave, Busy
<1>4. ASSUME NEW v \in Savers,
             Patch(v) \/ DeleteAliasChannel(v) \/ SaveFails(v) \/ SaveEnds(v)
      PROVE  FALSE
  <2> saves \in [Savers -> SlotType]
    BY DEF TypeInv, SavesTyped
  <2>1. Busy(v) /\ v # w
    BY <1>4 DEF Patch, DeleteAliasChannel, SaveFails, SaveEnds, Awaits
  <2>2. CASE Patch(v) \/ DeleteAliasChannel(v) \/ SaveFails(v)
    BY <2>1, <2>2 DEF Patch, DeleteAliasChannel, SaveFails, StepDone, Busy
  <2>3. CASE SaveEnds(v)
    <3>1. saves'[w] = saves[w] \/ \E chs : saves'[w] = Touching(chs)[w]
      BY <2>1, <2>3 DEF SaveEnds, Touching
    <3> QED BY <3>1 DEF Touching, Busy
  <2> QED BY <1>4, <2>2, <2>3
<1>5. CASE EditStep \/ RevertAliases \/ LoadAliases \/ OtherStep
  BY <1>1, <1>5 DEF EditStep, Edit, RevertAliases, LoadAliases, OtherStep, StoreElsewhere
<1>6. ASSUME NEW v \in Savers, SaveStep(v) PROVE SaveAliases(w)
  BY <1>3, <1>4, <1>6 DEF SaveStep
<1>7. \/ EditStep \/ LookStep \/ RevertAliases \/ LoadAliases \/ OtherStep
      \/ \E v \in Savers : SaveStep(v)
  BY StepCases
<1> QED BY <1>2, <1>5, <1>6, <1>7

(* A save writes the channels that look edited, and only channels that     *)
(* were edited here since the table was read do: whatever failed before,   *)
(* whichever saves overlap, what others stored in the rest survives.       *)
(* panel.html:1500-1549.                                                   *)
THEOREM OnlyEditedAreSaved == Spec => OnlyEditedChannelsAreSaved
<1> DEFINE Inv == TypeInv /\ UneditedAsRead
<1>1. Init => Inv
  BY InitTyped DEF Init, UneditedAsRead, RowsOf
<1>2. Inv /\ [Next]_vars => Inv'
  BY StepKeepsUnedited, StepTyped
<1>3. Inv /\ [Next]_vars =>
        [\A w \in Savers : ~Busy(w) /\ Busy(w)' =>
            DOMAIN saves'[w].save.confirmed \subseteq mine]_vars
  <2> SUFFICES ASSUME Inv, [Next]_vars, NEW w \in Savers, ~Busy(w), Busy(w)'
               PROVE  DOMAIN saves'[w].save.confirmed \subseteq mine
    OBVIOUS
  <2>1. SaveAliases(w)
    BY StartsAreSaves
  <2>2. DOMAIN saves'[w].save.confirmed = DirtyChannels(table, draft)
    BY <2>1, StartFacts
  <2>3. DirtyChannels(table, draft) \subseteq mine
    BY SameRowsAreClean DEF DirtyChannels, UneditedAsRead
  <2> QED BY <2>2, <2>3
<1> QED BY <1>1, <1>2, <1>3, PTL DEF Spec, OnlyEditedChannelsAreSaved
=============================================================================
