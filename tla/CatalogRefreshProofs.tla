------------------------ MODULE CatalogRefreshProofs ------------------------
(***************************************************************************)
(* For any number of loops, configurations, sources, files and listings:   *)
(* the running loop is the one the configuration asks for, no model is     *)
(* forgotten by the store or missed for its spelling, and a refresh        *)
(* corrects what several channels serve.                                   *)
(***************************************************************************)
EXTENDS CatalogRefresh, FiniteSetTheorems, TLAPS

-----------------------------------------------------------------------------
(* What learning, correcting and looking up facts yields, for any catalogs *)
(* and any provider files.                                                 *)

(* A set of naturals that is not empty has a least element.                *)
LEMMA LeastExists ==
    ASSUME NEW S \in SUBSET Nat, S # {}
    PROVE  \E x \in S : \A y \in S : x <= y
<1>1. PICK x \in S : \A y \in S : <<y, x>> \notin OpToRel(<, Nat)
  BY WFMin, NatLessThanWellFounded, Zenon
<1>2. \A y \in S : ~(y < x)
  BY <1>1 DEF OpToRel
<1> QED
  BY <1>2

(* Min returns the least element of a set of numbers.                     *)
LEMMA MinIsLeast ==
    ASSUME NEW S \in SUBSET Nat, S # {}
    PROVE  Min(S) \in S /\ \A y \in S : Min(S) <= y
BY LeastExists DEF Min

(* A finite one has a greatest element, too.                               *)
LEMMA MaxIsGreatest ==
    ASSUME NEW S \in SUBSET Nat, S # {}, IsFiniteSet(S)
    PROVE  Max(S) \in S /\ \A y \in S : Max(S) >= y
<1> DEFINE bad(T) == T # {} /\ IsFiniteSet(T) /\ \A x \in T : \E y \in T : ~(x >= y)
           sizes == {n \in Nat : \E T \in SUBSET Nat : bad(T) /\ Cardinality(T) = n}
<1>1. ASSUME sizes # {} PROVE FALSE
  <2>1. PICK n \in sizes : \A k \in sizes : n <= k
    BY <1>1, LeastExists
  <2>2. PICK T \in SUBSET Nat : bad(T) /\ Cardinality(T) = n
    BY <2>1
  <2>3. PICK x \in T : TRUE
    BY <2>2
  <2> DEFINE rest == T \ {x}
  <2>4. IsFiniteSet(rest) /\ Cardinality(rest) = n - 1 /\ n \in Nat
    BY <2>1, <2>2, <2>3, FS_RemoveElement
  <2>5. rest \in SUBSET Nat /\ Cardinality(rest) \in Nat
    BY <2>4, FS_CardinalityType
  <2>6. ~bad(rest)
    <3>1. ~(n <= Cardinality(rest))
      BY <2>4
    <3>2. Cardinality(rest) \notin sizes
      <4> HIDE DEF sizes, rest
      <4> QED BY <2>1, <3>1
    <3> HIDE DEF bad, rest
    <3> QED
      BY <2>5, <3>2
  <2>7. CASE rest = {}
    BY <2>2, <2>3, <2>7
  <2>8. CASE rest # {}
    <3>1. PICK m \in rest : \A y \in rest : m >= y
      BY <2>4, <2>6, <2>8
    <3>2. m \in T /\ m \in Nat /\ x \in Nat
      BY <2>3, <3>1
    <3>3. CASE m >= x
      BY <2>2, <3>1, <3>2, <3>3
    <3>4. CASE ~(m >= x)
      BY <2>2, <2>3, <3>1, <3>2, <3>4
    <3> QED
      BY <3>3, <3>4
  <2> QED
    BY <2>7, <2>8
<1>2. ~bad(S)
  BY <1>1, FS_CardinalityType
<1>3. \E x \in S : \A y \in S : x >= y
  BY <1>2
<1> QED
  BY <1>3 DEF Max
-----------------------------------------------------------------------------
(* Learning.                                                               *)

(* What a catalog teaches: some ids, each with facts.                      *)
LEMMA LearnedTyped ==
    ASSUME NEW body \in Seq(Entries)
    PROVE  /\ DOMAIN Learned(body) \subseteq Ids
           /\ \A id \in DOMAIN Learned(body) : Learned(body)[id] \in Capabilities \ {NoFacts}
<1> DEFINE telling == {i \in DOMAIN body : body[i].slug # NoId /\ body[i].facts # NoFacts}
           about(id) == {i \in telling : body[i].slug = id}
           slugs == {body[i].slug : i \in telling}
<1>1. Learned(body) = [id \in slugs |-> body[Max(about(id))].facts]
  BY DEF Learned
<1>2. \A i \in telling : body[i] \in Entries
  OBVIOUS
<1>3. slugs \subseteq Ids
  BY <1>2 DEF Entries
<1>4. ASSUME NEW id \in slugs PROVE body[Max(about(id))].facts \in Capabilities \ {NoFacts}
  <2>1. about(id) \in SUBSET Nat /\ about(id) # {} /\ about(id) \subseteq 1 .. Len(body)
    OBVIOUS
  <2>2. IsFiniteSet(about(id))
    BY <2>1, FS_Interval, FS_Subset
  <2>3. Max(about(id)) \in telling
    BY <2>1, <2>2, MaxIsGreatest
  <2> QED
    BY <1>2, <2>3 DEF Entries
<1> HIDE DEF telling, about, slugs
<1> QED
  BY <1>1, <1>3, <1>4
-----------------------------------------------------------------------------
(* The store.                                                              *)

(* A stored id has facts, the folded index finds every stored id, and what *)
(* it finds is stored and spelled like its key.                            *)
WellFormed(s) ==
    /\ s = [byID |-> s.byID, lower |-> s.lower, channels |-> s.channels]
    /\ DOMAIN s.byID \subseteq Ids
    /\ \A id \in DOMAIN s.byID : s.byID[id] \in Capabilities \ {NoFacts}
    /\ \A id \in DOMAIN s.byID : Folded[id] \in DOMAIN s.lower
    /\ \A key \in DOMAIN s.lower :
          s.lower[key] \in DOMAIN s.byID /\ Folded[s.lower[key]] = key

(* A store that learned nothing yet is well formed.                        *)
LEMMA EmptyWellFormed == WellFormed(EmptyStore)
BY DEF WellFormed, EmptyStore

(* Recording a catalog keeps the store well formed, whichever spelling the *)
(* index takes, and forgets no id.                                         *)
LEMMA RecordedWellFormed ==
    ASSUME NEW s, WellFormed(s), NEW learned, DOMAIN learned \subseteq Ids,
           \A id \in DOMAIN learned : learned[id] \in Capabilities \ {NoFacts},
           NEW t \in Recorded(s, learned)
    PROVE  /\ WellFormed(t)
           /\ DOMAIN s.byID \subseteq DOMAIN t.byID
           /\ t.channels = s.channels
<1>1. PICK index \in Indexings(DOMAIN learned) :
          t = [s EXCEPT !.byID = Over(learned, @), !.lower = Over(index, @)]
  BY DEF Recorded
<1> DEFINE ids == Over(learned, s.byID)
           keys == Over(index, s.lower)
<1>2. t = [byID |-> ids, lower |-> keys, channels |-> s.channels]
  BY <1>1 DEF WellFormed
<1>3. DOMAIN index = {Folded[id] : id \in DOMAIN learned}
      /\ \A key \in DOMAIN index : index[key] \in DOMAIN learned /\ Folded[index[key]] = key
  BY DEF Indexings
<1>4. DOMAIN ids = DOMAIN learned \cup DOMAIN s.byID
      /\ \A id \in DOMAIN ids :
            ids[id] = IF id \in DOMAIN learned THEN learned[id] ELSE s.byID[id]
  BY DEF Over
<1>5. DOMAIN keys = DOMAIN index \cup DOMAIN s.lower
      /\ \A key \in DOMAIN keys :
            keys[key] = IF key \in DOMAIN index THEN index[key] ELSE s.lower[key]
  BY DEF Over
<1> HIDE DEF ids, keys
<1>6. \A id \in DOMAIN ids : id \in Ids /\ ids[id] \in Capabilities \ {NoFacts}
  BY <1>4 DEF WellFormed
<1>7. \A id \in DOMAIN ids : Folded[id] \in DOMAIN keys
  BY <1>3, <1>4, <1>5 DEF WellFormed
<1>8. \A key \in DOMAIN keys : keys[key] \in DOMAIN ids /\ Folded[keys[key]] = key
  BY <1>3, <1>4, <1>5 DEF WellFormed
<1> QED
  BY <1>2, <1>4, <1>6, <1>7, <1>8 DEF WellFormed

(* What a lookup resolves to is stored.                                    *)
LEMMA ResolvesToStored ==
    ASSUME NEW s, WellFormed(s), NEW id \in Ids, Resolve(s, id) # NoId
    PROVE  /\ Resolve(s, id) \in DOMAIN s.byID
           /\ Folded[Resolve(s, id)] = Folded[id]
BY DEF Resolve, WellFormed

(* A lookup finds facts exactly if some spelling of the id is stored.      *)
LEMMA FoundIfStored ==
    ASSUME NEW s, WellFormed(s), NEW id \in Ids
    PROVE  Lookup(s, id) # NoFacts
              <=> \E known \in DOMAIN s.byID : Folded[known] = Folded[id]
<1>1. ASSUME NEW known \in DOMAIN s.byID, Folded[known] = Folded[id]
      PROVE  Lookup(s, id) # NoFacts
  <2>1. Resolve(s, id) \in DOMAIN s.byID
    BY <1>1 DEF Resolve, WellFormed
  <2>2. Resolve(s, id) # NoId
    BY <2>1, FactConstants DEF WellFormed
  <2> QED
    BY <2>1, <2>2 DEF Lookup, WellFormed
<1>2. ASSUME Lookup(s, id) # NoFacts
      PROVE  \E known \in DOMAIN s.byID : Folded[known] = Folded[id]
  BY <1>2, ResolvesToStored DEF Lookup
<1> QED
  BY <1>1, <1>2

-----------------------------------------------------------------------------
(* Channels.                                                               *)

(* The opinions of one file are typed.                                     *)
LEMMA ParsedTyped ==
    ASSUME NEW doc \in Documents
    PROVE  /\ DOMAIN Parsed(doc) \subseteq Ids
           /\ \A id \in DOMAIN Parsed(doc) : Parsed(doc)[id] \in Opinions
<1> DEFINE named == IF doc.valid
                    THEN {i \in DOMAIN doc.models : doc.models[i].id # NoId} ELSE {}
           about(id) == {i \in named : Folded[doc.models[i].id] = id}
           keys == {Folded[doc.models[i].id] : i \in named}
           opinion(id) == [channel |-> doc.channel,
                           context |-> ContextMax(doc, doc.models[Max(about(id))]),
                           levels |-> doc.models[Max(about(id))].levels]
           ModelType == [id : Ids \cup {NoId}, context : Nat, tiers : Tiers,
                         levels : SUBSET Levels]
<1>1. Parsed(doc) = [id \in keys |-> opinion(id)]
  BY DEF Parsed
<1>2. doc.models \in Seq(ModelType) /\ doc.channel \in Channels
  BY DEF Documents
<1>3. named \in SUBSET Nat /\ named \subseteq 1 .. Len(doc.models)
      /\ \A i \in named : doc.models[i] \in ModelType /\ doc.models[i].id # NoId
  <2> DEFINE models == doc.models
  <2>1. models \in Seq(ModelType) /\ DOMAIN models = 1 .. Len(models) /\ Len(models) \in Nat
    BY <1>2
  <2> HIDE DEF models, ModelType
  <2>2. \A i \in 1 .. Len(models) : i \in Nat /\ models[i] \in ModelType
    BY <2>1
  <2>3. \A i \in named : i \in DOMAIN models /\ models[i].id # NoId
    BY DEF models
  <2> QED
    BY <2>1, <2>2, <2>3 DEF models
<1>4. keys \subseteq Ids
  BY <1>3, FactConstants
<1>5. ASSUME NEW id \in keys PROVE opinion(id) \in Opinions
  <2> DEFINE model == doc.models[Max(about(id))]
  <2>1. about(id) \in SUBSET Nat /\ about(id) # {} /\ about(id) \subseteq 1 .. Len(doc.models)
    BY <1>3
  <2>2. IsFiniteSet(about(id))
    BY <1>2, <2>1, FS_Interval, FS_Subset
  <2>3. model \in ModelType
    <3>1. Max(about(id)) \in about(id)
      BY <2>1, <2>2, MaxIsGreatest
    <3> QED
      BY <1>3, <3>1
  <2>4. ContextMax(doc, model) \in Nat
    <3>1. model.context \in Nat /\ model.tiers \in SUBSET Nat /\ IsFiniteSet(model.tiers)
      BY <2>3 DEF Tiers
    <3> DEFINE windows == {model.context} \cup model.tiers
    <3>2. windows \in SUBSET Nat /\ windows # {} /\ IsFiniteSet(windows)
      <4>1. windows = model.tiers \cup {model.context}
        OBVIOUS
      <4> QED
        BY <3>1, <4>1, FS_AddElement
    <3>3. Max(windows) \in Nat
      BY <3>2, MaxIsGreatest
    <3> QED
      BY <3>1, <3>3 DEF ContextMax
  <2> QED
    BY <1>2, <2>3, <2>4 DEF Opinions
<1> HIDE DEF named, about, keys, opinion
<1> QED
  BY <1>1, <1>4, <1>5

(* So is the table they are gathered into.                                 *)
TypedTable(table) ==
    \A id \in DOMAIN table : id \in Ids /\ table[id] \subseteq Opinions

(* The table gathered from any provider files is typed: channels with      *)
(* facts per id.                                                           *)
LEMMA GatheredTyped ==
    ASSUME NEW docs \in Seq(Documents) PROVE TypedTable(Gathered(docs))
<1> DEFINE parsed == [i \in DOMAIN docs |-> Parsed(docs[i])]
           about(id) == {i \in DOMAIN docs : id \in DOMAIN parsed[i]}
           ahead(i, j, id) ==
               \/ parsed[i][id].context > parsed[j][id].context
               \/ parsed[i][id].context = parsed[j][id].context /\ i < j
           kept(id) == {i \in about(id) : \A j \in about(id) \ {i} :
                           parsed[i][id].channel = parsed[j][id].channel => ahead(i, j, id)}
           keys == UNION {DOMAIN parsed[i] : i \in DOMAIN docs}
           opinions(id) == {parsed[i][id] : i \in kept(id)}
<1>1. Gathered(docs) = [id \in keys |-> opinions(id)]
  BY DEF Gathered
<1>2. ASSUME NEW i \in DOMAIN docs, NEW id \in DOMAIN parsed[i]
      PROVE  id \in Ids /\ parsed[i][id] \in Opinions
  <2>1. docs[i] \in Documents
    OBVIOUS
  <2> QED
    BY <2>1, ParsedTyped
<1>3. \A id : kept(id) \subseteq about(id)
  OBVIOUS
<1> HIDE DEF parsed, kept
<1>4. \A id : opinions(id) \subseteq Opinions
  BY <1>2, <1>3
<1>5. keys \subseteq Ids
  BY <1>2
<1> HIDE DEF keys, opinions
<1> QED
  BY <1>1, <1>4, <1>5 DEF TypedTable
(* A correction leaves facts behind, within the window of every opinion    *)
(* that knows one, and with every level some opinion offers.               *)
LEMMA CorrectedAgrees ==
    ASSUME NEW facts \in Capabilities \ {NoFacts}, NEW opinions \in SUBSET Opinions
    PROVE  LET corrected == Corrected(facts, opinions)
           IN  /\ corrected \in Capabilities \ {NoFacts}
               /\ \A o \in opinions : /\ o.context > 0 => /\ corrected.context <= o.context
                                                          /\ corrected.maxContext <= o.context
                                      /\ o.levels \subseteq corrected.levels
<1> DEFINE context == AggregateContext(opinions)
           levels == AggregateLevels(opinions)
           known == {o.context : o \in opinions} \ {0}
           window == IF context > 0 THEN context ELSE facts.context
           maxWindow == IF context > 0 THEN context ELSE facts.maxContext
           offered == IF levels # {} THEN levels ELSE facts.levels
           default == IF levels # {} THEN NoLevel ELSE facts.default
           corrected == [context |-> window, maxContext |-> maxWindow,
                         modalities |-> facts.modalities, levels |-> offered,
                         default |-> default]
<1>1. known \in SUBSET Nat
  BY DEF Opinions
<1>2. context \in Nat /\ \A o \in opinions : o.context > 0 => context > 0 /\ context <= o.context
  <2>1. CASE known = {}
    BY <2>1 DEF AggregateContext, Opinions
  <2>2. CASE known # {}
    <3>1. Min(known) \in known /\ \A c \in known : Min(known) <= c
      BY <1>1, <2>2, MinIsLeast
    <3>2. context = Min(known)
      BY <2>2 DEF AggregateContext
    <3> HIDE DEF context
    <3> QED
      BY <1>1, <3>1, <3>2 DEF Opinions
  <2> QED
    BY <2>1, <2>2
<1>3. levels \in SUBSET Levels /\ \A o \in opinions : o.levels \subseteq levels
  BY DEF AggregateLevels, Opinions
<1>4. Corrected(facts, opinions) = corrected
  <2>1. Corrected(facts, opinions) = [facts EXCEPT !.context = window, !.maxContext = maxWindow,
                                                   !.levels = offered, !.default = default]
    BY DEF Corrected
  <2> HIDE DEF window, maxWindow, offered, default
  <2> QED
    BY <2>1 DEF Capabilities
<1> HIDE DEF context, levels
<1>5. corrected \in Capabilities
  BY <1>2, <1>3 DEF Capabilities
<1>6. corrected # NoFacts
  <2>1. CASE context > 0
    BY <1>2, <2>1 DEF NoFacts
  <2>2. CASE levels # {}
    BY <2>2 DEF NoFacts
  <2>3. CASE ~(context > 0) /\ levels = {}
    <3>1. corrected = facts
      BY <2>3 DEF Capabilities
    <3> QED
      BY <3>1
  <2> QED
    BY <2>1, <2>2, <2>3
<1>7. \A o \in opinions : /\ o.context > 0 => /\ corrected.context <= o.context
                                              /\ corrected.maxContext <= o.context
                          /\ o.levels \subseteq corrected.levels
  BY <1>2, <1>3
<1> HIDE DEF corrected
<1> QED
  BY <1>4, <1>5, <1>6, <1>7

(* Applying a table keeps the store well formed with the ids it had, and   *)
(* what the store then says of a contested model agrees with all its       *)
(* channels: whatever spelling asks if the model is stored under one, and  *)
(* at least what the lower-case id finds if it is stored under several.    *)
THEOREM AppliedAgrees ==
    ASSUME NEW s, WellFormed(s), NEW table, TypedTable(table)
    PROVE  LET t == Applied(s, table)
           IN  /\ WellFormed(t)
               /\ DOMAIN t.byID = DOMAIN s.byID
               /\ t.channels = table
               /\ \A id \in Ids :
                     /\ Folded[id] \in Contested(table)
                     /\ id = Folded[id] \/ StoredOnce(t, id)
                     => Agreed(t, id)
<1> DEFINE correcting(key) == {id \in Contested(table) : Resolve(s, id) = key}
           said(key) == UNION {table[id] : id \in correcting(key)}
           ids == [key \in DOMAIN s.byID |->
                     IF correcting(key) = {} THEN s.byID[key]
                     ELSE Corrected(s.byID[key], said(key))]
           t == Applied(s, table)
<1>1. t = [byID |-> ids, lower |-> s.lower, channels |-> table]
  <2>1. t = [s EXCEPT !.channels = table, !.byID = ids]
    BY DEF Applied
  <2> HIDE DEF ids, t
  <2> QED
    BY <2>1 DEF WellFormed
<1>2. \A key : said(key) \in SUBSET Opinions
  BY DEF TypedTable, Contested
<1>3. ASSUME NEW key \in DOMAIN s.byID PROVE ids[key] \in Capabilities \ {NoFacts}
  <2>1. s.byID[key] \in Capabilities \ {NoFacts} /\ said(key) \in SUBSET Opinions
    BY <1>2 DEF WellFormed
  <2>2. Corrected(s.byID[key], said(key)) \in Capabilities \ {NoFacts}
    BY <2>1, CorrectedAgrees
  <2> HIDE DEF correcting, said
  <2> QED
    BY <2>1, <2>2
<1>4. WellFormed(t) /\ DOMAIN t.byID = DOMAIN s.byID /\ t.channels = table
  <2> DEFINE all == DOMAIN ids
  <2>1. all = DOMAIN s.byID
    OBVIOUS
  <2> HIDE DEF ids, t
  <2> QED
    BY <1>1, <1>3, <2>1 DEF WellFormed
<1>5. ASSUME NEW id \in Ids, Folded[id] \in Contested(table),
             id = Folded[id] \/ StoredOnce(t, id),
             Lookup(t, id) # NoFacts, NEW o \in table[Folded[id]]
      PROVE  /\ o.context > 0 => /\ Lookup(t, id).context <= o.context
                                 /\ Lookup(t, id).maxContext <= o.context
             /\ o.levels \subseteq Lookup(t, id).levels
  <2> DEFINE key == Resolve(s, id)
  <2>1. Resolve(t, id) = key
    BY <1>1, <1>4 DEF Resolve
  <2>2. key # NoId /\ Lookup(t, id) = ids[key]
    <3>1. t.byID = ids
      BY <1>1
    <3> HIDE DEF ids, t, key
    <3> QED
      BY <1>5, <2>1, <3>1 DEF Lookup
  <2>3. key \in DOMAIN s.byID /\ Folded[key] = Folded[id]
    BY <2>2, ResolvesToStored
  <2>4. Resolve(s, Folded[id]) = key
    <3>1. CASE id = Folded[id]
      BY <3>1
    <3>2. CASE StoredOnce(t, id)
      <4> DEFINE other == Resolve(s, Folded[id])
      <4>1. Folded[id] \in Ids /\ Folded[Folded[id]] = Folded[id]
        BY FactConstants
      <4>2. Folded[id] \in DOMAIN s.lower
        BY <2>3 DEF WellFormed
      <4>3. other \in DOMAIN s.byID /\ Folded[other] = Folded[id]
        BY <4>1, <4>2 DEF Resolve, WellFormed
      <4> HIDE DEF t, other, key
      <4> QED
        BY <1>4, <2>3, <3>2, <4>3 DEF StoredOnce, other
    <3> QED
      BY <1>5, <3>1, <3>2
  <2>5. Folded[id] \in correcting(key) /\ o \in said(key)
    BY <1>5, <2>4
  <2>6. s.byID[key] \in Capabilities \ {NoFacts} /\ said(key) \in SUBSET Opinions
    BY <1>2, <2>3 DEF WellFormed
  <2>7. ids[key] = Corrected(s.byID[key], said(key))
    BY <2>3, <2>5
  <2> HIDE DEF ids, said, correcting, key
  <2> QED
    BY <2>2, <2>5, <2>6, <2>7, CorrectedAgrees
<1> HIDE DEF t
<1>6. \A id \in Ids :
         /\ Folded[id] \in Contested(table)
         /\ id = Folded[id] \/ StoredOnce(t, id)
         => Agreed(t, id)
  BY <1>4, <1>5 DEF Agreed
<1> QED
  BY <1>4, <1>6 DEF t

-----------------------------------------------------------------------------
(* The refresh.                                                            *)

ControlType ==
    /\ config \in Configs \cup {NoConfig}
    /\ lifecycle \in {"idle", "stop", "start"}
    /\ current \in Loops \cup {NoLoop}
    /\ loop \in [Loops -> LoopType]
    /\ source \in Sources
    /\ disk \in Disks

(* A loop whose context nobody cancelled is the one whose cancel function  *)
(* the fetcher holds.                                                      *)
RunningIsHeld == \A l \in Loops : Running(l) => l = current

(* A held cancel function belongs to a running loop.                       *)
HeldIsRunning == current # NoLoop => Running(current)

StartingHoldsNone == lifecycle = "start" => current = NoLoop

HeldAsConfigured ==
    (lifecycle = "idle" /\ config # NoConfig) =>
        IF Endpoint(config)
        THEN current # NoLoop /\ loop[current].period = Interval(config)
        ELSE current = NoLoop

PastIdleIsConfigured == lifecycle # "idle" => config # NoConfig

(* LoopFollowsConfig speaks of the moments between lifecycle calls; what   *)
(* carries it from one to the next is whose cancel function is held.       *)
RInv ==
    /\ ControlType
    /\ RunningIsHeld
    /\ HeldIsRunning
    /\ StartingHoldsNone
    /\ HeldAsConfigured
    /\ PastIdleIsConfigured

-----------------------------------------------------------------------------

(* An interval the configuration leaves out is an hour.                    *)
LEMMA IntervalIsNatural ==
    ASSUME NEW cfg \in Configs PROVE Interval(cfg) \in Nat /\ Endpoint(cfg) \in BOOLEAN
BY RefreshConstants DEF Interval, DefaultInterval, Endpoint

(* An ended loop is typed.                                                 *)
LEMMA EndedTyped == Ended \in LoopType
<1>1. <<>> \in Seq(Entries)
  OBVIOUS
<1> QED
  BY <1>1 DEF Ended, LoopType

(* A sleeping loop is typed, whatever its context and its period.          *)
LEMMA AsleepTyped ==
    ASSUME NEW cancelled \in BOOLEAN, NEW period \in Nat
    PROVE  LET next == Asleep(cancelled, period)
           IN  /\ next \in LoopType
               /\ next.pc = "asleep" /\ next.cancelled = cancelled /\ next.period = period
<1>1. <<>> \in Seq(Entries)
  OBVIOUS
<1> QED
  BY <1>1 DEF Ended, LoopType, Asleep

(* What CPA answers is typed.                                              *)
LEMMA BodiesTyped == \A s \in Sources : s.body \in Seq(Entries)
BY RefreshConstants

(* So is what the provider files yield.                                    *)
LEMMA TablesTyped == \A d \in Disks : TableOf[d] \in Range(TableOf)
BY DEF TableOf, Range

(* Initially nothing is configured and no loop exists.                     *)
LEMMA RInvInit == Init => RInv
<1> SUFFICES ASSUME Init PROVE RInv
  OBVIOUS
<1>1. ControlType
  BY EndedTyped DEF Init, ControlType
<1>2. \A l \in Loops : ~Running(l)
  BY DEF Init, Running, Ended
<1> QED
  BY <1>1, <1>2 DEF Init, RInv, RunningIsHeld, HeldIsRunning, StartingHoldsNone,
        HeldAsConfigured, PastIdleIsConfigured

(* A step of a loop that keeps its context and its period keeps the        *)
(* invariant, whatever else the loop does.                                 *)
LEMMA OwnSteps ==
    ASSUME RInv, NEW l \in Loops, NEW next \in LoopType,
           loop[l].pc # "none", next.pc # "none",
           next.cancelled = loop[l].cancelled, next.period = loop[l].period,
           loop' = [loop EXCEPT ![l] = next], UNCHANGED <<fetcher, environment>>
    PROVE  RInv'
<1> USE DEF RInv
<1>1. ControlType'
  BY DEF ControlType, fetcher, environment
<1>2. \A m \in Loops : Running(m)' = Running(m) /\ loop'[m].period = loop[m].period
  BY DEF Running, ControlType
<1>3. HeldIsRunning'
  BY <1>2, RefreshConstants DEF HeldIsRunning, ControlType, fetcher
<1>4. HeldAsConfigured'
  BY <1>2, RefreshConstants DEF HeldAsConfigured, ControlType, fetcher, Interval
<1> QED
  BY <1>1, <1>2, <1>3, <1>4 DEF RunningIsHeld, StartingHoldsNone, PastIdleIsConfigured, fetcher

(* Every step of a loop but its end is such a step.                        *)
LEMMA RunKeeps ==
    ASSUME RInv, NEW l \in Loops, Run(l) PROVE RInv'
<1>1. loop[l] \in LoopType /\ loop \in [Loops -> LoopType]
  BY DEF RInv, ControlType
<1>2. ASSUME NEW pc, Goto(l, pc), pc \in {"asleep", "fetch", "sent"},
             loop[l].pc # "none", UNCHANGED <<fetcher, environment>>
      PROVE  RInv'
  <2> DEFINE next == [loop[l] EXCEPT !.pc = pc]
  <2>1. next \in LoopType /\ next.pc = pc /\ next.cancelled = loop[l].cancelled
        /\ next.period = loop[l].period
    BY <1>1, <1>2 DEF LoopType
  <2>2. loop' = [loop EXCEPT ![l] = next]
    BY <1>1, <1>2 DEF Goto
  <2> QED
    BY <2>1, <2>2, <1>2, OwnSteps
<1>3. ASSUME NEW outcome, Finish(l, outcome), outcome \in {"ok", "failed", "endpoint"},
             loop[l].pc # "none", UNCHANGED <<fetcher, environment>>
      PROVE  RInv'
  <2> DEFINE next == [loop[l] EXCEPT !.pc = "report", !.outcome = outcome,
                                     !.body = <<>>, !.table = <<>>]
  <2>1. next \in LoopType /\ next.pc = "report" /\ next.cancelled = loop[l].cancelled
        /\ next.period = loop[l].period
    <3>1. <<>> \in Seq(Entries)
      OBVIOUS
    <3> QED
      BY <1>1, <1>3, <3>1 DEF LoopType
  <2>2. loop' = [loop EXCEPT ![l] = next]
    BY <1>1, <1>3 DEF Finish
  <2> QED
    BY <2>1, <2>2, <1>3, OwnSteps
<1>4. CASE Wake(l)
  BY <1>2, <1>4 DEF Wake
<1>5. CASE Request(l)
  BY <1>2, <1>3, <1>5 DEF Request
<1>6. CASE NoAnswer(l)
  BY <1>2, <1>3, <1>6 DEF NoAnswer
<1>7. CASE FetchFails(l)
  BY <1>3, <1>7 DEF FetchFails
<1>8. CASE Answered(l)
  <2> DEFINE next == [loop[l] EXCEPT !.pc = "read", !.body = source.body]
  <2>1. source.body \in Seq(Entries)
    BY BodiesTyped DEF RInv, ControlType
  <2>2. next \in LoopType /\ next.pc = "read" /\ next.cancelled = loop[l].cancelled
        /\ next.period = loop[l].period
    BY <1>1, <2>1 DEF LoopType
  <2>3. loop' = [loop EXCEPT ![l] = next] /\ loop[l].pc # "none"
    BY <1>1, <1>8 DEF Answered
  <2> QED
    BY <2>2, <2>3, <1>8, OwnSteps DEF Answered
<1>9. CASE ReadFails(l)
  BY <1>3, <1>9 DEF ReadFails
<1>10. CASE Learn(l)
  <2> DEFINE next == [loop[l] EXCEPT !.pc = "gather", !.body = <<>>]
  <2>1. next \in LoopType /\ next.pc = "gather" /\ next.cancelled = loop[l].cancelled
        /\ next.period = loop[l].period
    <3>1. <<>> \in Seq(Entries)
      OBVIOUS
    <3> QED
      BY <1>1, <3>1 DEF LoopType
  <2>2. CASE loop' = [loop EXCEPT ![l].pc = "gather", ![l].body = <<>>]
    <3>1. loop' = [loop EXCEPT ![l] = next]
      BY <1>1, <2>2
    <3> QED
      BY <1>10, <2>1, <3>1, OwnSteps DEF Learn
  <2> QED
    BY <1>3, <1>10, <2>2 DEF Learn
<1>11. CASE Gather(l)
  <2> DEFINE next == [loop[l] EXCEPT !.pc = "apply", !.table = TableOf[disk]]
  <2>1. TableOf[disk] \in Range(TableOf)
    BY TablesTyped DEF RInv, ControlType
  <2>2. next \in LoopType /\ next.pc = "apply" /\ next.cancelled = loop[l].cancelled
        /\ next.period = loop[l].period
    BY <1>1, <2>1 DEF LoopType
  <2>3. loop' = [loop EXCEPT ![l] = next] /\ loop[l].pc # "none"
    BY <1>1, <1>11 DEF Gather
  <2> QED
    BY <2>2, <2>3, <1>11, OwnSteps DEF Gather
<1>12. CASE Apply(l)
  BY <1>3, <1>12 DEF Apply
<1>13. CASE Report(l)
  <2> DEFINE next == Asleep(loop[l].cancelled, loop[l].period)
  <2>1. next \in LoopType /\ next.pc = "asleep" /\ next.cancelled = loop[l].cancelled
        /\ next.period = loop[l].period
    <3>1. loop[l].cancelled \in BOOLEAN /\ loop[l].period \in Nat
      BY <1>1 DEF LoopType
    <3> QED
      BY <3>1, AsleepTyped
  <2>2. loop' = [loop EXCEPT ![l] = next] /\ loop[l].pc # "none"
    BY <1>1, <1>13 DEF Report
  <2> QED
    BY <2>1, <2>2, <1>13, OwnSteps DEF Report
<1> QED
  BY <1>4, <1>5, <1>6, <1>7, <1>8, <1>9, <1>10, <1>11, <1>12, <1>13 DEF Run

(* A cancelled loop that ends was not the held one.                        *)
LEMMA QuitKeeps ==
    ASSUME RInv, NEW l \in Loops, Quit(l) PROVE RInv'
<1> USE DEF RInv
<1>1. ControlType'
  BY EndedTyped DEF Quit, ControlType, fetcher, environment
<1>2. l # current
  BY RefreshConstants DEF Quit, HeldIsRunning, Running
<1>3. \A m \in Loops : m # l => loop'[m] = loop[m]
  BY DEF Quit, ControlType
<1>4. ~Running(l)'
  BY DEF Quit, Running, Ended, ControlType
<1>5. UNCHANGED fetcher
  BY DEF Quit
<1>6. RunningIsHeld'
  BY <1>3, <1>4, <1>5 DEF RunningIsHeld, Running, fetcher
<1>7. HeldIsRunning'
  BY <1>2, <1>3, <1>5 DEF HeldIsRunning, Running, fetcher, ControlType
<1>8. HeldAsConfigured'
  BY <1>2, <1>3, <1>5 DEF HeldAsConfigured, Interval, fetcher, ControlType
<1> QED
  BY <1>1, <1>5, <1>6, <1>7, <1>8 DEF StartingHoldsNone, PastIdleIsConfigured, fetcher

(* The steps of a lifecycle call: cancel what is held, then start one loop *)
(* or none.                                                                *)
LEMMA LifecycleKeeps ==
    ASSUME RInv, Lifecycle PROVE RInv'
<1> USE DEF RInv
<1>1. ASSUME NEW cfg \in Configs, LoadConfig(cfg) PROVE RInv'
  BY <1>1, RefreshConstants DEF LoadConfig, ControlType, RunningIsHeld, HeldIsRunning, Running,
        StartingHoldsNone, HeldAsConfigured, PastIdleIsConfigured, environment
<1>2. CASE StopLoop
  <2>1. \A l \in Loops : loop[l] \in LoopType
    BY DEF ControlType
  <2>2. ControlType'
    <3>1. \A l \in Loops : [loop[l] EXCEPT !.cancelled = TRUE] \in LoopType
      BY <2>1 DEF LoopType
    <3>2. loop' \in [Loops -> LoopType]
      BY <1>2, <2>1, <3>1 DEF StopLoop
    <3> QED
      BY <1>2, <3>2 DEF StopLoop, ControlType, environment
  <2>3. ASSUME NEW l \in Loops PROVE ~Running(l)'
    <3>1. CASE l = current /\ loop[l].pc # "none"
      BY <1>2, <2>1, <3>1 DEF StopLoop, Running, LoopType
    <3>2. CASE ~(l = current /\ loop[l].pc # "none")
      BY <1>2, <2>1, <3>2 DEF StopLoop, Running, RunningIsHeld
    <3> QED
      BY <3>1, <3>2
  <2> QED
    BY <1>2, <2>2, <2>3 DEF StopLoop, RunningIsHeld, HeldIsRunning, StartingHoldsNone,
          HeldAsConfigured, PastIdleIsConfigured
<1>3. CASE LeaveLoopOff
  BY <1>3 DEF LeaveLoopOff, ControlType, RunningIsHeld, HeldIsRunning, Running,
        StartingHoldsNone, HeldAsConfigured, PastIdleIsConfigured, environment
<1>4. ASSUME NEW l \in Loops, StartLoop(l) PROVE RInv'
  <2> DEFINE next == Asleep(FALSE, Interval(config))
  <2>1. config \in Configs /\ config # NoConfig
    BY <1>4 DEF StartLoop, PastIdleIsConfigured, ControlType
  <2>2. next \in LoopType /\ next.pc = "asleep" /\ next.cancelled = FALSE
        /\ next.period = Interval(config)
    <3>1. Interval(config) \in Nat
      BY <2>1, IntervalIsNatural
    <3> QED
      BY <3>1, AsleepTyped
  <2>3. loop' = [loop EXCEPT ![l] = next]
    BY <1>4 DEF StartLoop
  <2>4. ControlType'
    BY <1>4, <2>2, <2>3 DEF StartLoop, ControlType, environment
  <2>5. loop'[l] = next /\ \A m \in Loops : m # l => loop'[m] = loop[m]
    BY <2>3 DEF ControlType
  <2>6. \A m \in Loops : ~Running(m)
    BY <1>4, RefreshConstants DEF StartLoop, RunningIsHeld, StartingHoldsNone
  <2>7. \A m \in Loops : Running(m)' <=> m = l
    BY <2>2, <2>5, <2>6 DEF Running
  <2>8. current' = l /\ lifecycle' = "idle" /\ config' = config /\ Endpoint(config)
    BY <1>4 DEF StartLoop
  <2>9. HeldAsConfigured'
    BY <2>1, <2>2, <2>5, <2>8, RefreshConstants DEF HeldAsConfigured, Interval
  <2> QED
    BY <2>4, <2>7, <2>8, <2>9 DEF RunningIsHeld, HeldIsRunning, StartingHoldsNone,
          PastIdleIsConfigured
<1> QED
  BY <1>1, <1>2, <1>3, <1>4 DEF Lifecycle, LoadConfig, StopLoop, LeaveLoopOff, StartLoop

(* RInv holds in every state.                                              *)
THEOREM RInvHolds == Spec => []RInv
<1>1. ASSUME RInv, [Next]_vars PROVE RInv'
  <2>1. ASSUME UNCHANGED <<fetcher, loop>>, source' \in Sources, disk' \in Disks PROVE RInv'
    BY <1>1, <2>1 DEF RInv, ControlType, RunningIsHeld, HeldIsRunning, Running,
          StartingHoldsNone, HeldAsConfigured, Interval, PastIdleIsConfigured, fetcher
  <2>2. source \in Sources /\ disk \in Disks
    BY <1>1 DEF RInv, ControlType
  <2>3. CASE Lifecycle
    BY <1>1, <2>3, LifecycleKeeps
  <2>4. ASSUME NEW l \in Loops, Quit(l) \/ Run(l) PROVE RInv'
    BY <1>1, <2>4, QuitKeeps, RunKeeps
  <2>5. ASSUME NEW body \in Traffic, LiveCatalog(body) PROVE RInv'
    BY <2>1, <2>2, <2>5 DEF LiveCatalog, environment
  <2>6. CASE SourceChanges
    BY <2>1, <2>2, <2>6 DEF SourceChanges
  <2>7. CASE DiskChanges
    BY <2>1, <2>2, <2>7 DEF DiskChanges
  <2>8. CASE UNCHANGED vars
    BY <2>1, <2>2, <2>8 DEF vars, environment
  <2> QED
    BY <1>1, <2>3, <2>4, <2>5, <2>6, <2>7, <2>8 DEF Next
<1> QED
  BY <1>1, RInvInit, PTL DEF Spec

(* Between lifecycle calls the one loop the configuration asks for runs,   *)
(* or none.  startCatalogRefresh, catalogfetch.go:109-162.                 *)
THEOREM LoopFollows == Spec => []LoopFollowsConfig
<1>1. RInv => LoopFollowsConfig
  <2> SUFFICES ASSUME RInv, lifecycle = "idle", config # NoConfig
               PROVE  IF Endpoint(config)
                      THEN \E l \in Loops : /\ {m \in Loops : Running(m)} = {l}
                                            /\ loop[l].period = Interval(config)
                      ELSE {m \in Loops : Running(m)} = {}
    BY DEF LoopFollowsConfig
  <2>1. CASE Endpoint(config)
    <3>1. current \in Loops /\ Running(current) /\ loop[current].period = Interval(config)
      BY <2>1 DEF RInv, ControlType, HeldAsConfigured, HeldIsRunning
    <3>2. {m \in Loops : Running(m)} = {current}
      BY <3>1 DEF RInv, RunningIsHeld
    <3> QED
      BY <2>1, <3>1, <3>2
  <2>2. CASE ~Endpoint(config)
    BY <2>2, RefreshConstants DEF RInv, HeldAsConfigured, RunningIsHeld
  <2> QED
    BY <2>1, <2>2
<1> QED
  BY <1>1, RInvHolds, PTL

-----------------------------------------------------------------------------

(* What a report may leave in the status record.                           *)
StatusType == [err : {"", "failed", "endpoint"}, ok : BOOLEAN]

ReportsKnown ==
    \A l \in Loops : loop[l].pc = "report" => loop[l].outcome \in {"ok", "failed", "endpoint"}

(* The loops are typed by RInv; the rest of TypeOK needs that the store is *)
(* well formed and that what a loop reports was decided before.            *)
SInv ==
    /\ RInv
    /\ WellFormed(store)
    /\ interval \in Nat
    /\ status \in StatusType
    /\ ReportsKnown

-----------------------------------------------------------------------------

(* The table a loop carries is typed.                                      *)
LEMMA CarriedTableTyped ==
    ASSUME RInv, NEW l \in Loops PROVE TypedTable(loop[l].table)
<1>1. loop[l].table \in Range(TableOf) \cup {<<>>}
  BY DEF RInv, ControlType, LoopType
<1>2. CASE loop[l].table = <<>>
  BY <1>2 DEF TypedTable
<1>3. CASE loop[l].table \in Range(TableOf)
  <2>1. PICK d \in Disks : loop[l].table = Gathered(d)
    BY <1>3 DEF Range, TableOf
  <2>2. d \in Seq(Documents)
    BY RefreshConstants
  <2> QED
    BY <2>1, <2>2, GatheredTyped
<1> QED
  BY <1>1, <1>2, <1>3

(* The body a loop carries is a listing.                                   *)
LEMMA CarriedBodyTyped ==
    ASSUME RInv, NEW l \in Loops PROVE loop[l].body \in Seq(Entries)
BY DEF RInv, ControlType, LoopType

(* Learning from a listing keeps the store well formed and every id in it. *)
LEMMA LearningKeeps ==
    ASSUME WellFormed(store), NEW body \in Seq(Entries),
           store' \in Recorded(store, Learned(body))
    PROVE  WellFormed(store') /\ DOMAIN store.byID \subseteq DOMAIN store'.byID
BY LearnedTyped, RecordedWellFormed

(* So does every step.                                                     *)
LEMMA StoreKept ==
    ASSUME RInv, WellFormed(store), [Next]_vars
    PROVE  WellFormed(store') /\ DOMAIN store.byID \subseteq DOMAIN store'.byID
<1>1. CASE UNCHANGED store
  BY <1>1
<1>2. ASSUME NEW l \in Loops, Learn(l)
      PROVE  WellFormed(store') /\ DOMAIN store.byID \subseteq DOMAIN store'.byID
  BY <1>2, CarriedBodyTyped, LearningKeeps DEF Learn
<1>3. ASSUME NEW l \in Loops, Apply(l)
      PROVE  WellFormed(store') /\ DOMAIN store.byID \subseteq DOMAIN store'.byID
  <2>1. store' = Applied(store, loop[l].table) /\ TypedTable(loop[l].table)
    BY <1>3, CarriedTableTyped DEF Apply
  <2> QED
    BY <2>1, AppliedAgrees
<1>4. ASSUME NEW body \in Traffic, LiveCatalog(body)
      PROVE  WellFormed(store') /\ DOMAIN store.byID \subseteq DOMAIN store'.byID
  BY <1>4, LearningKeeps, RefreshConstants DEF LiveCatalog
<1> QED
  BY <1>1, <1>2, <1>3, <1>4 DEF Next, Lifecycle, LoadConfig, StopLoop, LeaveLoopOff, StartLoop,
        Quit, Run, Wake, Request, NoAnswer, FetchFails, Answered, ReadFails, Gather, Report,
        SourceChanges, DiskChanges, vars

(* A loop reports what the step before decided.                            *)
LEMMA ReportsStayKnown ==
    ASSUME RInv, ReportsKnown, [Next]_vars PROVE ReportsKnown'
<1> SUFFICES ASSUME NEW l \in Loops, loop'[l].pc = "report"
             PROVE  loop'[l].outcome \in {"ok", "failed", "endpoint"}
  BY DEF ReportsKnown
<1>1. loop \in [Loops -> LoopType] /\ loop[l] \in LoopType
  BY DEF RInv, ControlType
<1>2. CASE loop'[l] = loop[l]
  BY <1>2 DEF ReportsKnown
<1>3. ASSUME NEW m \in Loops, m # l, Quit(m) \/ Run(m) PROVE loop'[l] = loop[l]
  BY <1>1, <1>3 DEF Quit, Run, Wake, Request, NoAnswer, FetchFails, Answered, ReadFails, Learn,
        Gather, Apply, Report, Goto, Finish
<1>4. CASE Quit(l)
  BY <1>1, <1>4 DEF Quit, Ended
<1>5. CASE Wake(l) \/ Request(l)
  BY <1>1, <1>5 DEF Wake, Request, Goto, Finish, LoopType
<1>6. CASE NoAnswer(l) \/ FetchFails(l) \/ ReadFails(l)
  BY <1>1, <1>6 DEF NoAnswer, FetchFails, ReadFails, Goto, Finish, LoopType
<1>7. CASE Answered(l) \/ Gather(l)
  BY <1>1, <1>7 DEF Answered, Gather, LoopType
<1>8. CASE Learn(l) \/ Apply(l)
  BY <1>1, <1>8 DEF Learn, Apply, Goto, Finish, LoopType
<1>9. CASE Report(l)
  <2>1. Asleep(loop[l].cancelled, loop[l].period).pc = "asleep"
    BY <1>1, AsleepTyped DEF LoopType
  <2> QED
    BY <1>1, <1>9, <2>1 DEF Report
<1>10. ASSUME NEW m \in Loops, StartLoop(m) PROVE loop'[l].outcome \in {"ok", "failed", "endpoint"}
  <2>1. config \in Configs
    BY <1>10 DEF RInv, ControlType, PastIdleIsConfigured, StartLoop
  <2>2. Asleep(FALSE, Interval(config)).pc = "asleep"
    BY <2>1, IntervalIsNatural, AsleepTyped
  <2> QED
    BY <1>1, <1>2, <1>10, <2>2 DEF StartLoop
<1>11. CASE StopLoop
  BY <1>1, <1>11 DEF StopLoop, LoopType, ReportsKnown
<1> QED
  BY <1>2, <1>3, <1>4, <1>5, <1>6, <1>7, <1>8, <1>9, <1>10, <1>11 DEF Next, Lifecycle, Run,
        LoadConfig, LeaveLoopOff, LiveCatalog, SourceChanges, DiskChanges, vars

(* The status record keeps its type.                                       *)
LEMMA StatusKept ==
    ASSUME SInv, [Next]_vars PROVE interval' \in Nat /\ status' \in StatusType
<1>1. CASE UNCHANGED <<interval, status>>
  BY <1>1 DEF SInv
<1>2. ASSUME NEW l \in Loops, StartLoop(l) PROVE interval' \in Nat /\ status' \in StatusType
  <2>1. config \in Configs
    BY <1>2 DEF SInv, RInv, ControlType, PastIdleIsConfigured, StartLoop
  <2> QED
    BY <1>2, <2>1, IntervalIsNatural DEF StartLoop, SInv
<1>3. CASE LeaveLoopOff
  <2>1. config \in Configs
    BY <1>3 DEF SInv, RInv, ControlType, PastIdleIsConfigured, LeaveLoopOff
  <2> QED
    BY <1>3, <2>1, IntervalIsNatural DEF LeaveLoopOff, SInv, StatusType
<1>4. ASSUME NEW l \in Loops, Report(l) PROVE interval' \in Nat /\ status' \in StatusType
  <2>1. loop[l].outcome \in {"ok", "failed", "endpoint"}
    BY <1>4 DEF SInv, ReportsKnown, Report
  <2> QED
    BY <1>4, <2>1 DEF Report, SInv, StatusType, fetcher
<1> QED
  BY <1>1, <1>2, <1>3, <1>4 DEF Next, Lifecycle, LoadConfig, StopLoop, Quit, Run, Wake, Request,
        NoAnswer, FetchFails, Answered, ReadFails, Learn, Gather, Apply, LiveCatalog,
        SourceChanges, DiskChanges, vars, fetcher

(* SInv holds in every state.                                              *)
THEOREM SInvHolds == Spec => []SInv
<1>1. Init => WellFormed(store) /\ interval \in Nat /\ status \in StatusType /\ ReportsKnown
  <2> SUFFICES ASSUME Init
               PROVE  WellFormed(store) /\ interval \in Nat /\ status \in StatusType /\ ReportsKnown
    OBVIOUS
  <2>1. store = EmptyStore
    BY DEF Init
  <2>2. WellFormed(store)
    BY <2>1, EmptyWellFormed
  <2>3. interval \in Nat /\ status \in StatusType
    BY DEF Init, StatusType
  <2>4. ReportsKnown
    BY DEF Init, ReportsKnown, Ended
  <2> QED
    BY <2>2, <2>3, <2>4
<1>2. ASSUME RInv, RInv', SInv, [Next]_vars PROVE SInv'
  BY <1>2, StoreKept, ReportsStayKnown, StatusKept DEF SInv
<1>3. Init /\ RInv => SInv
  BY <1>1 DEF SInv
<1> QED
  BY <1>2, <1>3, RInvHolds, PTL DEF Spec

-----------------------------------------------------------------------------

(* Every variable stays in its type, and a stored id always has facts,     *)
(* also after a correction.                                                *)
THEOREM RefreshTyped == Spec => []TypeOK
<1>1. SInv => TypeOK
  <2> SUFFICES ASSUME SInv PROVE TypeOK
    OBVIOUS
  <2>1. StoreType
    <3>1. ASSUME NEW key \in DOMAIN store.lower
          PROVE  key \in Range(Folded) /\ store.lower[key] \in Ids
      <4>1. store.lower[key] \in Ids /\ Folded[store.lower[key]] = key
        BY DEF SInv, WellFormed
      <4> QED
        BY <4>1, FactConstants DEF Range
    <3> QED
      BY <3>1 DEF StoreType, SInv, WellFormed
  <2> QED
    BY <2>1 DEF TypeOK, SInv, RInv, ControlType, StatusType
<1> QED
  BY <1>1, SInvHolds, PTL

(* A stored model is found under every spelling of its id.                 *)
(* capability.go:113-150.                                                  *)
THEOREM FoundBySpelling == Spec => []FoundInAnyCase
<1>1. SInv => FoundInAnyCase
  BY FoundIfStored DEF SInv, FoundInAnyCase
<1> QED
  BY <1>1, SInvHolds, PTL

(* No refresh, correction or listing makes the store forget a model.       *)
(* capability.go:113-128, 201-237.                                         *)
THEOREM NothingForgotten == Spec => NothingIsForgotten
<1>1. ASSUME SInv, SInv', [Next]_vars, NEW id \in Ids, Lookup(store, id) # NoFacts
      PROVE  Lookup(store', id) # NoFacts
  <2>1. PICK known \in DOMAIN store.byID : Folded[known] = Folded[id]
    BY <1>1, FoundIfStored DEF SInv
  <2>2. known \in DOMAIN store'.byID /\ WellFormed(store')
    BY <1>1, <2>1, StoreKept DEF SInv
  <2> QED
    BY <2>1, <2>2, FoundIfStored
<1>2. ASSUME SInv, SInv', [Next]_vars
      PROVE  [\A id \in Ids : Lookup(store, id) # NoFacts => Lookup(store', id) # NoFacts]_vars
  BY <1>1, <1>2
<1> QED
  BY <1>2, SInvHolds, PTL DEF Spec, NothingIsForgotten

(* When a refresh has applied its table, what the store says of a model    *)
(* that several channels serve agrees with all of them: under any spelling *)
(* if the model is stored under one, and under the lower-case id if it is  *)
(* stored under several.  capability.go:195-249.                           *)
THEOREM RefreshesCorrect == Spec => RefreshCorrects
<1> DEFINE Applies == \E l \in Loops : loop[l].pc = "apply" /\ loop'[l].pc # "apply"
           Agrees == \A id \in Ids :
                        /\ Folded[id] \in Contested(store'.channels)
                        /\ id = Folded[id] \/ StoredOnce(store', id)
                        => Agreed(store', id)
<1>1. ASSUME SInv, [Next]_vars, NEW l \in Loops, loop[l].pc = "apply", loop'[l].pc # "apply"
      PROVE  Apply(l)
  <2>1. loop \in [Loops -> LoopType] /\ loop[l] \in LoopType
    BY <1>1 DEF SInv, RInv, ControlType
  <2>2. loop' # loop
    BY <1>1
  <2>3. ~StopLoop
    BY <1>1, <2>1 DEF StopLoop, LoopType
  <2>4. ASSUME NEW m \in Loops, StartLoop(m) PROVE FALSE
    BY <1>1, <2>1, <2>4 DEF StartLoop
  <2>5. ASSUME NEW m \in Loops, Quit(m) \/ Run(m) PROVE m = l
    BY <1>1, <2>1, <2>5 DEF Quit, Run, Wake, Request, NoAnswer, FetchFails, Answered, ReadFails,
          Learn, Gather, Apply, Report, Goto, Finish
  <2>6. ~Quit(l)
    BY <1>1 DEF Quit
  <2>7. Run(l) => Apply(l)
    BY <1>1 DEF Run, Wake, Request, NoAnswer, FetchFails, Answered, ReadFails, Learn, Gather, Report
  <2> QED
    BY <1>1, <2>2, <2>3, <2>4, <2>5, <2>6, <2>7 DEF Next, Lifecycle, LoadConfig, LeaveLoopOff,
          LiveCatalog, SourceChanges, DiskChanges, vars
<1>2. ASSUME SInv, NEW l \in Loops, Apply(l) PROVE Agrees
  <2>1. store' = Applied(store, loop[l].table) /\ TypedTable(loop[l].table)
    BY <1>2, CarriedTableTyped DEF Apply, SInv
  <2>2. WellFormed(store)
    BY <1>2 DEF SInv
  <2> QED
    BY <2>1, <2>2, AppliedAgrees
<1>3. ASSUME SInv, [Next]_vars PROVE [Applies => Agrees]_vars
  BY <1>1, <1>2, <1>3
<1> QED
  BY <1>3, SInvHolds, PTL DEF Spec, RefreshCorrects
=============================================================================
