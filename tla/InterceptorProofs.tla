-------------------------- MODULE InterceptorProofs --------------------------
(***************************************************************************)
(* Proofs about the interceptor, for every set of ids, patterns, callers,  *)
(* inputs and configurations and any number of calls in flight: first what *)
(* a call serves, then what it leaves in the stores that calls share.      *)
(***************************************************************************)
EXTENDS Interceptor, ListingRulesProofs, FiniteSetTheorems

-----------------------------------------------------------------------------
(* What the operators return.                                              *)

(* A call's body is a sequence of items, named by their positions.         *)
LEMMA CallFacts ==
    ASSUME NEW c \in Calls
    PROVE  /\ c.list \in Seq(Items)
           /\ Positions(c) = 1 .. Len(c.list)
           /\ Len(c.list) \in Nat
           /\ \A i \in Positions(c) : c.list[i].key \in Models
           /\ Port(c) \in Ports
           /\ AfterFilter(c) \in {"learn", "backfill", "reorder"}
<1>1. c.list \in Seq(Items)
  BY InputTypes DEF CallType
<1>2. /\ Positions(c) = 1 .. Len(c.list)
      /\ Len(c.list) \in Nat
  BY <1>1 DEF Positions
<1>3. \A i \in Positions(c) : c.list[i].key \in Models
  <2>1. \A i \in Positions(c) : c.list[i] \in Items
    BY <1>1, <1>2
  <2> QED BY <2>1 DEF Items
<1>4. c.format \in {"openai", "claude", "gemini"}
  BY InputTypes DEF CallType
<1>5. Port(c) \in Ports
  BY <1>4 DEF Port, PortFor, Ports
<1>6. AfterFilter(c) \in {"learn", "backfill", "reorder"}
  BY <1>5 DEF AfterFilter, Ports
<1> QED BY <1>1, <1>2, <1>3, <1>5, <1>6

(* The ids of a sequence of positions are models.                          *)
LEMMA KeysAreModels ==
    ASSUME NEW c \in Calls, NEW s \in Seq(Positions(c))
    PROVE  Keys(c, s) \in Seq(Models)
<1>1. DOMAIN s = 1 .. Len(s) /\ Len(s) \in Nat
  OBVIOUS
<1>2. \A p \in 1 .. Len(s) : c.list[s[p]].key \in Models
  BY CallFacts
<1>3. Keys(c, s) \in [1 .. Len(s) -> Models]
  BY <1>1, <1>2 DEF Keys
<1> QED BY <1>1, <1>3

(* CPA's own order is a sequence of the positions of the body.             *)
LEMMA IdentityIsSequence ==
    ASSUME NEW c \in Calls
    PROVE  /\ Identity(c) \in Seq(Positions(c))
           /\ Identity(c) \in [Positions(c) -> Positions(c)]
BY CallFacts DEF Identity

(* A stable sort of some positions is a sequence of just these.            *)
LEMMA SortsAreSequences ==
    ASSUME NEW c \in Calls, NEW S \in SUBSET Positions(c), NEW cfg,
           NEW s \in StableSorts(cfg, c.list, S)
    PROVE  /\ s \in Seq(S)
           /\ s \in Seq(Positions(c))
           /\ Range(s) = S
<1>1. IsFiniteSet(S)
  <2>1. Positions(c) = 1 .. Len(c.list) /\ 1 \in Int /\ Len(c.list) \in Int
    BY CallFacts
  <2>2. IsFiniteSet(Positions(c))
    BY <2>1, FS_Interval
  <2> QED BY <2>2, FS_Subset
<1>2. Cardinality(S) \in Nat
  BY <1>1, FS_CardinalityType
<1>3. s \in Bijection(1 .. Cardinality(S), S)
  BY DEF StableSorts, Arrangements
<1>4. s \in [1 .. Cardinality(S) -> S] /\ \A i \in S : \E p \in 1 .. Cardinality(S) : s[p] = i
  BY <1>3 DEF Bijection, Injection, Surjection
<1>5. s \in Seq(S) /\ s \in Seq(Positions(c))
  BY <1>2, <1>4
<1>6. Range(s) = S
  BY <1>4 DEF Range
<1> QED BY <1>5, <1>6

(* The defaults are a configuration.                                       *)
LEMMA DefaultIsConfig == DefaultConfig \in Configs
BY DEF DefaultConfig, Configs

(* So is what loadConfig compiles from an accepted payload.                *)
LEMMA CompiledIsConfig ==
    ASSUME NEW p \in Payloads, Accepts(p)
    PROVE  Compiled(p) \in Configs
<1>1. /\ p.strategy \in {"", "grouped", "name", "unknown"}
      /\ p.order \in Seq(Patterns)
      /\ p.cs \in BOOLEAN
      /\ p.access \in Seq(RawEntries)
  BY InputTypes DEF PayloadType, RawEntries
<1>2. CompileAccess(p.access) \in Tables
  BY <1>1, FirstEntryWins
<1>3. CASE ~p.readable \/ ~p.yaml
  BY <1>3, DefaultIsConfig DEF Compiled
<1>4. CASE p.readable /\ p.yaml
  BY <1>1, <1>2, <1>4 DEF Compiled, Configs, Accepts
<1> QED BY <1>3, <1>4

(* So is whatever currentConfig returns.                                   *)
LEMMA InForceIsConfig == StoresTyped => InForce \in Configs
BY DefaultIsConfig DEF StoresTyped, InForce

(* A policy leaves a part of what it filters.                              *)
LEMMA VisibleIsSubset ==
    ASSUME NEW cfg, NEW c
    PROVE  VisibleUnder(cfg, c) \in SUBSET Positions(c)
BY DEF VisibleUnder

-----------------------------------------------------------------------------
(* Type correctness.                                                       *)

(* The initial stores and calls are typed.                                 *)
LEMMA InitTyped == Init => TypeOK
<1> SUFFICES ASSUME Init PROVE TypeOK
  OBVIOUS
<1>1. StoresTyped
  BY DEF Init, StoresTyped
<1>2. (CHOOSE c \in Calls : TRUE) \in Calls
  BY InputTypes
<1>3. CallsTyped
  BY <1>2 DEF Init, CallsTyped, CallTyped, PcType
<1> QED BY <1>1, <1>3 DEF TypeOK

(* An accepted lifecycle call keeps the types.                             *)
LEMMA ConfigureTyped ==
    ASSUME TypeOK, NEW p \in Payloads, Configure(p)
    PROVE  TypeOK'
<1>1. Compiled(p) \in Configs
  BY CompiledIsConfig DEF Configure
<1>2. StoresTyped'
  BY <1>1 DEF Configure, Install, TypeOK, StoresTyped
<1>3. during' \in [Requests -> [configs : SUBSET Configs, known : SUBSET Models]]
  BY <1>1 DEF Configure, Install, TypeOK, CallsTyped
<1>4. CallsTyped'
  BY <1>3 DEF Configure, TypeOK, CallsTyped, CallTyped, locals
<1> QED BY <1>2, <1>4 DEF TypeOK

(* The window a new call opens is typed.                                   *)
LEMMA BeginTyped ==
    ASSUME TypeOK, NEW r \in Requests, NEW c \in Calls, Begin(r, c),
           pc' \in [Requests -> PcType]
    PROVE  CallsTyped'
<1>1. during' \in [Requests -> [configs : SUBSET Configs, known : SUBSET Models]]
  BY InForceIsConfig DEF Begin, TypeOK, CallsTyped, StoresTyped
<1>2. CallTyped(r)'
  <2>1. /\ call'[r] = c /\ kept'[r] = Positions(c) /\ todo'[r] = {}
        /\ filled'[r] = {} /\ order'[r] = <<>>
    BY DEF Begin, TypeOK, CallsTyped
  <2>2. <<>> \in Seq(Positions(c))
    OBVIOUS
  <2> QED BY <2>1, <2>2 DEF CallTyped
<1>3. ASSUME NEW q \in Requests, q # r PROVE CallTyped(q)'
  BY <1>3 DEF Begin, TypeOK, CallsTyped, CallTyped
<1> QED BY <1>1, <1>2, <1>3 DEF Begin, TypeOK, CallsTyped

(* A call that is not governed keeps the types.                            *)
LEMMA PassThroughTyped ==
    ASSUME TypeOK, NEW r \in Requests, NEW c \in Calls, PassThrough(r, c)
    PROVE  TypeOK'
<1>1. pc' \in [Requests -> PcType]
  BY DEF PassThrough, TypeOK, CallsTyped, PcType
<1>2. StoresTyped'
  BY DEF PassThrough, Begin, TypeOK, StoresTyped
<1> QED BY <1>1, <1>2, BeginTyped DEF PassThrough, TypeOK

(* Recording the listing before the policy keeps the types.                *)
LEMMA CaptureTyped ==
    ASSUME TypeOK, NEW r \in Requests, NEW c \in Calls, Capture(r, c)
    PROVE  TypeOK'
<1>1. pc' \in [Requests -> PcType]
  BY CallFacts DEF Capture, TypeOK, CallsTyped, PcType
<1>2. Keys(c, Identity(c)) \in Seq(Models)
  BY IdentityIsSequence, KeysAreModels
<1>3. StoresTyped'
  BY <1>2 DEF Capture, Begin, TypeOK, StoresTyped
<1> QED BY <1>1, <1>3, BeginTyped DEF Capture, TypeOK

(* Every later step of a call keeps the types.                             *)
LEMMA HandleTyped ==
    ASSUME TypeOK, NEW r \in Requests, Handle(r)
    PROVE  TypeOK'
<1> USE DEF TypeOK, CallsTyped, PcType
<1>1. CASE InitDefaults(r)
  <2>1. StoresTyped'
    BY <1>1, DefaultIsConfig DEF InitDefaults, Install, StoresTyped
  <2>2. during' \in [Requests -> [configs : SUBSET Configs, known : SUBSET Models]]
    BY <1>1, DefaultIsConfig DEF InitDefaults, Install
  <2> QED BY <1>1, <2>1, <2>2 DEF InitDefaults, CallTyped, locals
<1>2. CASE FilterFindsNoConfig(r)
  BY <1>2 DEF FilterFindsNoConfig, StoresTyped, CallTyped, stores, locals
<1>3. CASE Filter(r)
  <2>1. VisibleUnder(config, call[r]) \in SUBSET Positions(call[r])
    BY VisibleIsSubset
  <2>2. pc' \in [Requests -> PcType]
    BY <1>3, CallFacts DEF Filter
  <2>3. ASSUME NEW q \in Requests PROVE CallTyped(q)'
    BY <1>3, <2>1 DEF Filter, CallTyped
  <2>4. changed' \in [Requests -> BOOLEAN]
    BY <1>3 DEF Filter
  <2> QED BY <1>3, <2>2, <2>3, <2>4 DEF Filter, StoresTyped, stores
<1>4. CASE LearnCodex(r)
  <2>1. known' \in SUBSET Models
    <3>1. call[r] \in Calls /\ kept[r] \subseteq Positions(call[r])
      BY DEF CallTyped
    <3>2. call[r].list \in Seq(Items) /\ Positions(call[r]) = 1 .. Len(call[r].list)
      BY <3>1, CallFacts
    <3>3. \A i \in kept[r] : call[r].list[i] \in Items
      BY <3>1, <3>2
    <3>4. \A i \in kept[r] : call[r].list[i].slug # NoSlug => call[r].list[i].slug \in Models
      BY <3>3 DEF Items
    <3> QED BY <1>4, <3>4 DEF LearnCodex, StoresTyped
  <2> QED BY <1>4, <2>1 DEF LearnCodex, StoresTyped, CallTyped, locals
<1>5. CASE StartBackfill(r)
  <2>1. ASSUME NEW q \in Requests PROVE CallTyped(q)'
    BY <1>5 DEF StartBackfill, CallTyped
  <2> QED BY <1>5, <2>1 DEF StartBackfill, StoresTyped, stores
<1>6. CASE Inject(r)
  <2>1. ASSUME NEW q \in Requests PROVE CallTyped(q)'
    BY <1>6 DEF Inject, CallTyped
  <2>2. changed' \in [Requests -> BOOLEAN]
    BY <1>6 DEF Inject
  <2> QED BY <1>6, <2>1, <2>2 DEF Inject, StoresTyped, stores
<1>7. CASE EndBackfill(r)
  BY <1>7 DEF EndBackfill, StoresTyped, CallTyped, stores, locals
<1>8. CASE ReorderFindsNoConfig(r)
  BY <1>8 DEF ReorderFindsNoConfig, StoresTyped, CallTyped, stores, locals
<1>9. CASE Reorder(r)
  <2>1. PICK sorted \in StableSorts(config, call[r].list, kept[r]) :
           /\ order' = [order EXCEPT ![r] = sorted]
           /\ changed' = [changed EXCEPT ![r] =
                            @ \/ \E p \in DOMAIN sorted : sorted[p] # p]
    BY <1>9 DEF Reorder
  <2>2. sorted \in Seq(Positions(call[r]))
    BY SortsAreSequences DEF CallTyped
  <2>3. ASSUME NEW q \in Requests PROVE CallTyped(q)'
    BY <1>9, <2>1, <2>2 DEF Reorder, CallTyped
  <2>4. changed' \in [Requests -> BOOLEAN]
    BY <2>1
  <2> QED BY <1>9, <2>1, <2>3, <2>4 DEF Reorder, StoresTyped, stores
<1>10. CASE Publish(r)
  <2>1. Keys(call[r], order[r]) \in Seq(Models)
    BY KeysAreModels DEF CallTyped
  <2>2. Port(call[r]) \in Ports
    BY CallFacts
  <2> QED BY <1>10, <2>1, <2>2 DEF Publish, StoresTyped, CallTyped, locals
<1> QED BY <1>1, <1>2, <1>3, <1>4, <1>5, <1>6, <1>7, <1>8, <1>9, <1>10 DEF Handle

(* Every step keeps the type.                                              *)
LEMMA StepTyped ==
    ASSUME TypeOK, [Next]_vars
    PROVE  TypeOK'
<1>1. CASE \E p \in Payloads : Configure(p)
  BY <1>1, ConfigureTyped
<1>2. CASE UNCHANGED vars
  BY <1>2 DEF vars, stores, locals, TypeOK, StoresTyped, CallsTyped, CallTyped
<1>3. CASE \E p \in Payloads : RejectConfigure(p)
  BY <1>2, <1>3 DEF RejectConfigure
<1>4. CASE \E r \in Requests : \E c \in Calls : PassThrough(r, c)
  BY <1>4, PassThroughTyped
<1>5. CASE \E r \in Requests : \E c \in Calls : Capture(r, c)
  BY <1>5, CaptureTyped
<1>6. CASE \E r \in Requests : Handle(r)
  BY <1>6, HandleTyped
<1> QED BY <1>1, <1>2, <1>3, <1>4, <1>5, <1>6 DEF Next

(* The plugin's stores and the state of every call in flight stay typed,   *)
(* for any inputs and any number of calls.                                 *)
THEOREM TypeCorrect == Spec => []TypeOK
<1>1. TypeOK /\ [Next]_vars => TypeOK'
  BY StepTyped
<1> QED BY InitTyped, <1>1, PTL DEF Spec

-----------------------------------------------------------------------------
(* The inductive invariant.  ServedIsVisible speaks of finished calls      *)
(* only; to be inductive it has to say what each stage of governBody owes  *)
(* the next one: the filter leaves what one snapshot of the window shows,  *)
(* with `changed` raised as soon as anything was dropped, and the sort     *)
(* arranges exactly that, with `changed` raised unless nothing moved.      *)

Filtered(r) ==
    /\ \E cfg \in during[r].configs : kept[r] = VisibleUnder(cfg, call[r])
    /\ ~changed[r] => kept[r] = Positions(call[r])

Sorted(r) ==
    /\ \E cfg \in during[r].configs :
            order[r] \in StableSorts(cfg, call[r].list, kept[r])
    /\ ~changed[r] => order[r] = Identity(call[r])

Stage(r) ==
    /\ pc[r] \notin {"idle", "done"} =>
          /\ Governed(call[r])
          /\ InForce \in during[r].configs
    /\ pc[r] \in {"filter", "filterDefaults"} =>
          ~changed[r] /\ kept[r] = Positions(call[r])
    /\ (pc[r] \notin {"idle", "filter", "filterDefaults"} /\ Governed(call[r])) => Filtered(r)
    /\ (pc[r] \in {"publish", "done"} /\ Governed(call[r])) => Sorted(r)

IInv == \A r \in Requests : Stage(r)

(* A step of another call, or of the configuration, that leaves a call's   *)
(* own state alone and only widens its window keeps its stage.             *)
LEMMA StageKept ==
    ASSUME NEW r \in Requests, Stage(r), TypeOK,
           pc'[r] = pc[r], call'[r] = call[r], kept'[r] = kept[r],
           changed'[r] = changed[r], order'[r] = order[r],
           during[r].configs \subseteq during'[r].configs,
           r \in Busy => InForce' \in during'[r].configs
    PROVE  Stage(r)'
BY DEF Stage, Filtered, Sorted, Busy

(* Installing a snapshot only widens the windows of the calls in flight.   *)
LEMMA InstallWidens ==
    ASSUME TypeOK, NEW cfg \in Configs, Install(cfg), NEW r \in Requests
    PROVE  /\ during[r].configs \subseteq during'[r].configs
           /\ r \in Busy => InForce' \in during'[r].configs
           /\ InForce' = cfg
BY InterceptorConstants DEF Install, InForce, TypeOK, CallsTyped

(* A sort of the whole body that moves nothing is CPA's own order.         *)
LEMMA FullSortIsIdentity ==
    ASSUME NEW c \in Calls, NEW cfg, NEW s \in StableSorts(cfg, c.list, Positions(c)),
           \A p \in DOMAIN s : s[p] = p
    PROVE  s = Identity(c)
<1>1. Positions(c) = 1 .. Len(c.list) /\ Len(c.list) \in Nat
  BY CallFacts
<1>2. Cardinality(Positions(c)) = Len(c.list)
  BY <1>1, FS_Interval, 1 \in Int
<1>3. s \in [Positions(c) -> Positions(c)]
  BY <1>1, <1>2 DEF StableSorts, Arrangements, Bijection, Injection
<1> QED BY <1>3 DEF Identity

(* A step of a call keeps what every call has established.                 *)
LEMMA HandleKeepsStage ==
    ASSUME TypeOK, IInv, NEW r \in Requests, Handle(r)
    PROVE  IInv'
<1>1. ASSUME NEW q \in Requests, q # r PROVE Stage(q)'
  <2>1. Stage(q)
    BY DEF IInv
  <2>2. /\ pc'[q] = pc[q] /\ call'[q] = call[q] /\ kept'[q] = kept[q]
        /\ changed'[q] = changed[q] /\ order'[q] = order[q]
    BY <1>1 DEF Handle, InitDefaults, FilterFindsNoConfig, Filter, LearnCodex,
         StartBackfill, Inject, EndBackfill, ReorderFindsNoConfig, Reorder, Publish,
         locals, TypeOK, CallsTyped
  <2>3. /\ during[q].configs \subseteq during'[q].configs
        /\ q \in Busy => InForce' \in during'[q].configs
    <3>1. CASE InitDefaults(r)
      BY <3>1, InstallWidens, DefaultIsConfig DEF InitDefaults
    <3>2. CASE ~InitDefaults(r)
      <4>1. config' = config /\ during' = during
        BY <3>2 DEF Handle, FilterFindsNoConfig, Filter, LearnCodex, StartBackfill,
             Inject, EndBackfill, ReorderFindsNoConfig, Reorder, Publish, stores
      <4> QED BY <2>1, <4>1 DEF Stage, Busy, InForce
    <3> QED BY <3>1, <3>2
  <2> QED BY <2>1, <2>2, <2>3, StageKept
<1> SUFFICES Stage(r)'
  BY <1>1 DEF IInv
<1> DEFINE c == call[r]
<1>2. Stage(r) /\ c \in Calls
  BY DEF IInv, TypeOK, CallsTyped
<1>3. AfterFilter(c) \in {"learn", "backfill", "reorder"}
  BY <1>2, CallFacts
<1>4. pc[r] \in PcType /\ pc \in [Requests -> PcType] /\ r \in DOMAIN pc
  BY DEF TypeOK, CallsTyped
<1> HIDE DEF c
<1>5. CASE InitDefaults(r)
  <2>1. /\ during[r].configs \subseteq during'[r].configs
        /\ InForce' \in during'[r].configs
    BY <1>5, InstallWidens, DefaultIsConfig DEF InitDefaults, Busy
  <2> QED BY <1>2, <1>4, <1>5, <2>1 DEF InitDefaults, Stage, Filtered, locals
<1>6. CASE FilterFindsNoConfig(r) \/ ReorderFindsNoConfig(r)
  BY <1>2, <1>4, <1>6 DEF FilterFindsNoConfig, ReorderFindsNoConfig, Stage, Filtered,
       InForce, stores, locals
<1>7. CASE Filter(r)
  <2>1. InForce = config /\ config \in during[r].configs
    BY <1>2, <1>7 DEF Filter, Stage, InForce
  <2>2. /\ kept'[r] = VisibleUnder(config, call[r])
        /\ changed'[r] = (kept'[r] # Positions(call[r]))
        /\ pc'[r] = AfterFilter(c)
    BY <1>2, <1>4, <1>7 DEF Filter, Stage, TypeOK, CallsTyped, c
  <2> QED BY <1>2, <1>3, <1>7, <2>1, <2>2 DEF Filter, Stage, Filtered, InForce, stores
<1>8. CASE LearnCodex(r) \/ StartBackfill(r) \/ EndBackfill(r)
  BY <1>2, <1>4, <1>8 DEF LearnCodex, StartBackfill, EndBackfill, Stage, Filtered,
       InForce, stores, locals
<1>9. CASE Inject(r)
  <2>1. changed[r] => changed'[r]
    BY <1>9 DEF Inject, TypeOK, CallsTyped
  <2> QED BY <1>2, <1>9, <2>1 DEF Inject, Stage, Filtered, InForce, stores
<1>10. CASE Reorder(r)
  <2>1. PICK sorted \in StableSorts(config, call[r].list, kept[r]) :
           /\ order' = [order EXCEPT ![r] = sorted]
           /\ changed' = [changed EXCEPT ![r] =
                            @ \/ \E p \in DOMAIN sorted : sorted[p] # p]
    BY <1>10 DEF Reorder
  <2>2. config \in during[r].configs /\ Filtered(r)
    BY <1>2, <1>10 DEF Reorder, Stage, InForce
  <2>3. order'[r] = sorted
    BY <2>1 DEF TypeOK, CallsTyped
  <2>4. ~changed'[r] => ~changed[r] /\ \A p \in DOMAIN sorted : sorted[p] = p
    BY <2>1 DEF TypeOK, CallsTyped
  <2>5. ~changed'[r] => sorted = Identity(call[r])
    BY <1>2, <2>2, <2>4, FullSortIsIdentity DEF Filtered, c
  <2>6. /\ during' = during /\ call' = call /\ kept' = kept /\ config' = config
        /\ pc'[r] = "publish"
    BY <1>4, <1>10 DEF Reorder, stores
  <2>7. Filtered(r)'
    BY <2>2, <2>4, <2>6 DEF Filtered
  <2>8. Sorted(r)'
    BY <2>2, <2>3, <2>5, <2>6 DEF Sorted
  <2>9. Governed(call[r]) /\ InForce \in during[r].configs
    BY <1>2, <1>10 DEF Reorder, Stage
  <2> QED BY <2>6, <2>7, <2>8, <2>9 DEF Stage, InForce
<1>11. CASE Publish(r)
  BY <1>2, <1>4, <1>11 DEF Publish, Stage, Filtered, Sorted, InForce, locals
<1> QED BY <1>5, <1>6, <1>7, <1>8, <1>9, <1>10, <1>11 DEF Handle

(* So does a call that begins.                                             *)
LEMMA BeginKeepsStage ==
    ASSUME TypeOK, IInv, NEW r \in Requests, NEW c \in Calls,
           PassThrough(r, c) \/ Capture(r, c)
    PROVE  IInv'
<1>1. ASSUME NEW q \in Requests, q # r PROVE Stage(q)'
  <2>1. Stage(q)
    BY DEF IInv
  <2>2. /\ pc'[q] = pc[q] /\ call'[q] = call[q] /\ kept'[q] = kept[q]
        /\ changed'[q] = changed[q] /\ order'[q] = order[q] /\ during'[q] = during[q]
        /\ InForce' = InForce
    BY <1>1 DEF PassThrough, Capture, Begin, TypeOK, CallsTyped, InForce
  <2>3. q \in Busy => InForce \in during[q].configs
    BY <2>1 DEF Stage, Busy
  <2> QED BY <2>1, <2>2, <2>3, StageKept
<1>2. /\ call'[r] = c /\ kept'[r] = Positions(c) /\ ~changed'[r]
      /\ during'[r].configs = {InForce} /\ InForce' = InForce
  BY DEF PassThrough, Capture, Begin, TypeOK, CallsTyped, InForce
<1>3. CASE PassThrough(r, c)
  <2>1. pc'[r] = "done" /\ ~Governed(c)
    BY <1>3 DEF PassThrough, TypeOK, CallsTyped
  <2> QED BY <1>1, <1>2, <2>1 DEF IInv, Stage
<1>4. CASE Capture(r, c)
  <2>1. /\ Governed(c)
        /\ pc'[r] = IF Identified(c) THEN "filter" ELSE AfterFilter(c)
    BY <1>4 DEF Capture, TypeOK, CallsTyped
  <2>2. CASE Identified(c)
    BY <1>1, <1>2, <2>1, <2>2 DEF IInv, Stage
  <2>3. CASE ~Identified(c)
    <3>1. Filtered(r)'
      BY <1>2, <2>3 DEF Filtered, VisibleUnder
    <3>2. pc'[r] \in {"learn", "backfill", "reorder"}
      BY <2>1, <2>3, CallFacts
    <3> QED BY <1>1, <1>2, <2>1, <3>1, <3>2 DEF IInv, Stage
  <2> QED BY <2>2, <2>3
<1> QED BY <1>3, <1>4

(* What each stage of a call established stays true (IInv); governBody,    *)
(* intercept.go:37-93.                                                     *)
THEOREM StagesHold == Spec => []IInv
<1>1. Init => IInv
  BY DEF Init, IInv, Stage
<1>2. TypeOK /\ IInv /\ [Next]_vars => IInv'
  <2> SUFFICES ASSUME TypeOK, IInv, [Next]_vars PROVE IInv'
    OBVIOUS
  <2>1. ASSUME NEW p \in Payloads, Configure(p) PROVE IInv'
    <3>1. Compiled(p) \in Configs
      BY <2>1, CompiledIsConfig DEF Configure
    <3> SUFFICES ASSUME NEW r \in Requests PROVE Stage(r)'
      BY DEF IInv
    <3>2. /\ during[r].configs \subseteq during'[r].configs
          /\ r \in Busy => InForce' \in during'[r].configs
      BY <2>1, <3>1, InstallWidens DEF Configure
    <3> QED BY <2>1, <3>2, StageKept DEF Configure, IInv, locals
  <2>2. CASE UNCHANGED vars
    BY <2>2 DEF vars, stores, locals, IInv, Stage, Filtered, Sorted, InForce
  <2>3. CASE \E p \in Payloads : RejectConfigure(p)
    BY <2>2, <2>3 DEF RejectConfigure
  <2>4. CASE \E r \in Requests : \E c \in Calls : PassThrough(r, c) \/ Capture(r, c)
    BY <2>4, BeginKeepsStage
  <2>5. CASE \E r \in Requests : Handle(r)
    BY <2>5, HandleKeepsStage
  <2> QED BY <2>1, <2>2, <2>3, <2>4, <2>5 DEF Next
<1> QED BY <1>1, <1>2, TypeCorrect, PTL DEF Spec

(* What a finished call served is what the sort arranged, `changed` or not. *)
LEMMA ServedIsOrder ==
    ASSUME NEW r \in Requests, Sorted(r)
    PROVE  Served(r) = order[r]
BY DEF Sorted, Served

(* A client never receives an entry that every snapshot in force during    *)
(* its call hides from it, and never misses one they all show: the served  *)
(* entries are exactly those one such snapshot lets it see, also when the  *)
(* plugin answers "unchanged" and the host keeps its bytes.                *)
THEOREM ServedVisible == Spec => []ServedIsVisible
<1>1. TypeOK /\ IInv => ServedIsVisible
  <2> SUFFICES ASSUME TypeOK, IInv, NEW r \in Requests, Answered(r)
               PROVE  \E cfg \in during[r].configs :
                         Range(Served(r)) = VisibleUnder(cfg, call[r])
    BY DEF ServedIsVisible
  <2>1. Filtered(r) /\ Sorted(r)
    BY DEF IInv, Stage, Answered
  <2>2. PICK cfg \in during[r].configs :
           order[r] \in StableSorts(cfg, call[r].list, kept[r])
    BY <2>1 DEF Sorted
  <2>3. call[r] \in Calls /\ kept[r] \in SUBSET Positions(call[r])
    BY DEF TypeOK, CallsTyped, CallTyped
  <2>4. Range(order[r]) = kept[r]
    BY <2>2, <2>3, SortsAreSequences
  <2> QED BY <2>1, <2>4, ServedIsOrder DEF Filtered
<1> QED BY <1>1, TypeCorrect, StagesHold, PTL

(* What a client receives is stably sorted under one snapshot in force     *)
(* during its call.                                                        *)
THEOREM ServedSorted == Spec => []ServedIsSorted
<1>1. IInv => ServedIsSorted
  BY ServedIsOrder DEF IInv, Stage, Answered, Sorted, StableSorts, ServedIsSorted
<1> QED BY <1>1, StagesHold, PTL

-----------------------------------------------------------------------------
(* The interceptor implements ListingPromise: a reconfigure is a Change,   *)
(* the capture of a listing is the Ask, Publish is the Answer, and every   *)
(* other step of governBody stutters.                                      *)

(* ListingPromise extends the same rules: its copies of them mean the same. *)
LEMMA SameRules ==
    /\ Promise!Configs = Configs
    /\ \A c : Promise!Governed(c) <=> Governed(c)
    /\ \A c : Promise!Identity(c) = Identity(c)
    /\ \A cfg, c : Promise!VisibleUnder(cfg, c) = VisibleUnder(cfg, c)
    /\ \A cfg, list, S : Promise!StableSorts(cfg, list, S) = StableSorts(cfg, list, S)
<1>1. Promise!Configs = Configs
  BY DEF Promise!Configs, Configs, Promise!Tables, Tables, Promise!PolicyBodies, PolicyBodies
<1>2. \A c : Promise!Governed(c) <=> Governed(c)
  BY DEF Promise!Governed, Governed, Promise!IsModelListing, IsModelListing
<1>3. \A c : /\ Promise!Identity(c) = Identity(c)
            /\ Promise!Positions(c) = Positions(c)
            /\ Promise!Port(c) = Port(c)
            /\ Promise!CallerScope(c) = CallerScope(c)
  BY DEF Promise!Identity, Identity, Promise!Positions, Positions, Promise!Port, Port,
         Promise!PortFor, PortFor, Promise!CallerScope, CallerScope,
         Promise!CallerCredential, CallerCredential
<1>4. \A c : Promise!Identified(c) <=> Identified(c)
  BY <1>3 DEF Promise!Identified, Identified, Promise!FilterPort, FilterPort
<1>5. \A table, scope : Promise!HasPolicy(table, scope) <=> HasPolicy(table, scope)
  BY DEF Promise!HasPolicy, HasPolicy
<1>6. \A policy, id : Promise!Allows(policy, id) <=> Allows(policy, id)
  BY DEF Promise!Allows, Allows, Promise!MatchesAny, MatchesAny
<1>7. \A cfg, c : Promise!VisibleUnder(cfg, c) = VisibleUnder(cfg, c)
  BY <1>3, <1>4, <1>5, <1>6 DEF Promise!VisibleUnder, VisibleUnder
<1>8. \A cfg, id : Promise!BucketsOf(cfg, id) = BucketsOf(cfg, id)
  BY DEF Promise!BucketsOf, BucketsOf
<1>9. \A cfg, a, b : Promise!Less(cfg, a, b) <=> Less(cfg, a, b)
  BY <1>8 DEF Promise!Less, Less, Promise!EarlierBucket, EarlierBucket
<1>10. \A cfg, list, order_ : Promise!StablySorted(cfg, list, order_)
                                <=> StablySorted(cfg, list, order_)
  BY <1>9 DEF Promise!StablySorted, StablySorted
<1>11. \A S : Promise!Arrangements(S) = Arrangements(S)
  <2>1. \A S, T : Promise!Injection(S, T) = Injection(S, T)
    BY DEF Promise!Injection, Injection, Promise!IsInjective, IsInjective
  <2>2. \A S, T : Promise!Surjection(S, T) = Surjection(S, T)
    BY DEF Promise!Surjection, Surjection
  <2>3. \A S : Promise!Cardinality(S) = Cardinality(S)
    BY DEF Promise!Cardinality, Cardinality
  <2> QED BY <2>1, <2>2, <2>3 DEF Promise!Arrangements, Arrangements, Promise!Bijection, Bijection
<1>12. \A cfg, list, S : Promise!StableSorts(cfg, list, S) = StableSorts(cfg, list, S)
  BY <1>10, <1>11 DEF Promise!StableSorts, StableSorts
<1> QED BY <1>1, <1>2, <1>3, <1>7, <1>12

(* The refinement mapping sees a call in flight as busy and an answered    *)
(* one as done.                                                            *)
LEMMA PhaseFacts ==
    ASSUME TypeOK, NEW r \in Requests
    PROVE  /\ (r \in Busy) <=> (Phases[r] = "busy")
           /\ (pc[r] = "done") <=> (Phases[r] = "done")
BY DEF TypeOK, CallsTyped, Phases, Busy, PcType

(* Installing a snapshot is the promise's change of configuration.         *)
LEMMA ChangeStep ==
    ASSUME TypeOK, TypeOK', NEW cfg \in Configs, Install(cfg), UNCHANGED locals,
           Phases' = Phases
    PROVE  Promise!Change
<1>1. InForce' = cfg
  BY InterceptorConstants DEF Install, InForce
<1>2. ASSUME NEW r \in Requests PROVE (pc'[r] = "done") <=> (pc[r] = "done")
  <2>1. (pc[r] = "done") <=> (Phases[r] = "done")
    BY PhaseFacts
  <2>2. (pc'[r] = "done") <=> (Phases'[r] = "done")
    BY DEF TypeOK, CallsTyped, Phases, PcType
  <2> QED BY <2>1, <2>2
<1>3. Windows' = [r \in Requests |-> IF Phases[r] = "busy" THEN Windows[r] \cup {InForce'}
                                                           ELSE Windows[r]]
  <2>1. ASSUME NEW r \in Requests
        PROVE  during'[r].configs = IF Phases[r] = "busy" THEN during[r].configs \cup {cfg}
                                                          ELSE during[r].configs
    BY PhaseFacts DEF Install, TypeOK, CallsTyped
  <2> QED BY <1>1, <2>1 DEF Windows
<1>4. Answers' = Answers
  BY <1>2 DEF Answers, Served, locals
<1> QED BY <1>1, <1>3, <1>4, SameRules DEF Promise!Change, locals

(* A step that changes no snapshot, window or input, and finishes no call. *)
LEMMA InnerStep ==
    ASSUME TypeOK, TypeOK', config' = config, during' = during, call' = call,
           Phases' = Phases,
           \A r \in Requests : pc[r] = "done" => changed'[r] = changed[r] /\ order'[r] = order[r]
    PROVE  UNCHANGED <<InForce, Phases, call, Windows, Answers>>
<1>1. ASSUME NEW r \in Requests PROVE (pc'[r] = "done") <=> (pc[r] = "done")
  <2>1. (pc[r] = "done") <=> (Phases[r] = "done")
    BY PhaseFacts
  <2>2. (pc'[r] = "done") <=> (Phases'[r] = "done")
    BY DEF TypeOK, CallsTyped, Phases, PcType
  <2> QED BY <2>1, <2>2
<1>2. Answers' = Answers
  BY <1>1 DEF Answers, Served
<1>3. Windows' = Windows
  BY DEF Windows
<1>4. InForce' = InForce
  BY DEF InForce
<1> QED BY <1>2, <1>3, <1>4

(* A call that begins is the promise's question.                           *)
LEMMA AskStep ==
    ASSUME TypeOK, NEW r \in Requests, NEW c \in Calls,
           PassThrough(r, c) \/ Capture(r, c)
    PROVE  Promise!Ask(r, c)
<1>1. /\ call' = [call EXCEPT ![r] = c]
      /\ InForce' = InForce
      /\ pc[r] \in {"idle", "done"}
  BY DEF PassThrough, Capture, Begin, InForce
<1>2. Phases[r] # "busy"
  BY <1>1 DEF Phases
<1>3. Windows' = [Windows EXCEPT ![r] = {InForce}]
  <2>1. during' = [during EXCEPT ![r] = [configs |-> {InForce}, known |-> known]]
    BY DEF PassThrough, Capture, Begin
  <2> QED BY <2>1 DEF Windows, TypeOK, CallsTyped
<1>4. /\ ~changed'[r] /\ call'[r] = c
      /\ \A q \in Requests : q # r => /\ pc'[q] = pc[q] /\ changed'[q] = changed[q]
                                      /\ order'[q] = order[q] /\ call'[q] = call[q]
  BY DEF PassThrough, Capture, Begin, TypeOK, CallsTyped
<1>5. CASE PassThrough(r, c)
  <2>1. pc' = [pc EXCEPT ![r] = "done"] /\ ~Governed(c)
    BY <1>5 DEF PassThrough
  <2>2. Phases' = [Phases EXCEPT ![r] = "done"]
    BY <2>1 DEF Phases, TypeOK, CallsTyped
  <2>3. pc'[r] = "done"
    BY <2>1 DEF TypeOK, CallsTyped
  <2>4. Answers' = [Answers EXCEPT ![r] = Identity(c)]
    BY <1>4, <2>3 DEF Answers, Served
  <2> QED BY <1>1, <1>2, <1>3, <2>1, <2>2, <2>4, SameRules DEF Promise!Ask
<1>6. CASE Capture(r, c)
  <2>1. Governed(c)
    BY <1>6 DEF Capture
  <2>2. pc'[r] \notin {"idle", "done"} /\ pc' = [pc EXCEPT ![r] = pc'[r]]
    BY <1>6, CallFacts DEF Capture, TypeOK, CallsTyped
  <2>3. Phases' = [Phases EXCEPT ![r] = "busy"]
    BY <1>4, <2>2 DEF Phases
  <2>4. Answers' = [Answers EXCEPT ![r] = <<>>]
    BY <1>4, <2>2 DEF Answers, Served
  <2> QED BY <1>1, <1>2, <1>3, <2>1, <2>3, <2>4, SameRules DEF Promise!Ask
<1> QED BY <1>5, <1>6

(* Publishing is the promise's answer.                                     *)
LEMMA AnswerStep ==
    ASSUME TypeOK, IInv, NEW r \in Requests, Publish(r)
    PROVE  Promise!Answer(r)
<1>1. /\ pc[r] = "publish" /\ pc' = [pc EXCEPT ![r] = "done"]
      /\ config' = config /\ during' = during
      /\ call' = call /\ order' = order /\ changed' = changed
  BY DEF Publish, locals
<1>2. Phases[r] = "busy" /\ Phases' = [Phases EXCEPT ![r] = "done"]
  BY <1>1 DEF Phases, TypeOK, CallsTyped
<1>3. Filtered(r) /\ Sorted(r) /\ Governed(call[r])
  BY <1>1 DEF IInv, Stage
<1>4. PICK hiding \in during[r].configs : kept[r] = VisibleUnder(hiding, call[r])
  BY <1>3 DEF Filtered
<1>5. PICK sorting \in during[r].configs :
         order[r] \in StableSorts(sorting, call[r].list, kept[r])
  BY <1>3 DEF Sorted
<1>6. order[r] \in Promise!Promised(call[r], Windows[r])
  <2>1. order[r] \in StableSorts(sorting, call[r].list, VisibleUnder(hiding, call[r]))
    BY <1>4, <1>5
  <2>2. hiding \in Windows[r] /\ sorting \in Windows[r]
    BY DEF Windows
  <2> QED BY <1>3, <2>1, <2>2, SameRules DEF Promise!Promised
<1>7. Answers' = [Answers EXCEPT ![r] = order[r]]
  <2>1. pc'[r] = "done" /\ \A q \in Requests : q # r => pc'[q] = pc[q]
    BY <1>1 DEF TypeOK, CallsTyped
  <2>2. Served(r)' = order[r]
    BY <1>1, <1>3, ServedIsOrder DEF Served
  <2> QED BY <1>1, <2>1, <2>2 DEF Answers, Served
<1>8. InForce' = InForce /\ Windows' = Windows
  BY <1>1 DEF InForce, Windows
<1> QED BY <1>1, <1>2, <1>6, <1>7, <1>8 DEF Promise!Answer

(* Every step of the interceptor is one of the promise or a stutter.       *)
LEMMA PromiseSteps ==
    ASSUME TypeOK, TypeOK', IInv, [Next]_vars
    PROVE  [Promise!Next]_(Promise!promiseVars)
<1> USE DEF Promise!promiseVars
<1>1. CASE UNCHANGED vars
  BY <1>1 DEF vars, stores, locals, InForce, Phases, Windows, Answers, Served
<1>2. ASSUME NEW p \in Payloads, Configure(p)
      PROVE  Promise!Change
  <2>1. Compiled(p) \in Configs /\ Install(Compiled(p))
    BY <1>2, CompiledIsConfig DEF Configure
  <2>2. UNCHANGED locals /\ Phases' = Phases
    BY <1>2 DEF Configure, Phases
  <2> QED BY <2>1, <2>2, ChangeStep
<1>3. CASE \E p \in Payloads : RejectConfigure(p)
  BY <1>1, <1>3 DEF RejectConfigure
<1>4. ASSUME NEW r \in Requests, InitDefaults(r)
      PROVE  Promise!Change
  <2>1. DefaultConfig \in Configs /\ Install(DefaultConfig) /\ UNCHANGED locals
    BY <1>4, DefaultIsConfig DEF InitDefaults
  <2>2. Phases' = Phases
    BY <1>4 DEF InitDefaults, Phases, TypeOK, CallsTyped
  <2> QED BY <2>1, <2>2, ChangeStep
<1>5. ASSUME NEW r \in Requests, Handle(r), ~InitDefaults(r), ~Publish(r)
      PROVE  UNCHANGED <<InForce, Phases, call, Windows, Answers>>
  <2>1. config' = config /\ during' = during /\ call' = call
    BY <1>5 DEF Handle, FilterFindsNoConfig, Filter, LearnCodex, StartBackfill, Inject,
         EndBackfill, ReorderFindsNoConfig, Reorder, stores, locals
  <2>2. /\ pc[r] \notin {"idle", "done"} /\ pc'[r] \notin {"idle", "done"}
        /\ \A q \in Requests : q # r => pc'[q] = pc[q]
    BY <1>5, CallFacts DEF Handle, FilterFindsNoConfig, Filter, LearnCodex, StartBackfill,
         Inject, EndBackfill, ReorderFindsNoConfig, Reorder, TypeOK, CallsTyped
  <2>3. Phases' = Phases
    BY <2>2 DEF Phases
  <2>4. \A q \in Requests : q # r => changed'[q] = changed[q] /\ order'[q] = order[q]
    BY <1>5 DEF Handle, FilterFindsNoConfig, Filter, LearnCodex, StartBackfill, Inject,
         EndBackfill, ReorderFindsNoConfig, Reorder, locals, TypeOK, CallsTyped
  <2> QED BY <2>1, <2>2, <2>3, <2>4, InnerStep
<1>6. CASE \E r \in Requests : \E c \in Calls : PassThrough(r, c) \/ Capture(r, c)
  BY <1>6, AskStep DEF Promise!Next
<1>7. ASSUME NEW r \in Requests, Publish(r) PROVE Promise!Next
  BY <1>7, AnswerStep DEF Promise!Next
<1> QED BY <1>1, <1>2, <1>3, <1>4, <1>5, <1>6, <1>7 DEF Next, Promise!Next

(* Every behaviour of the interceptor is a behaviour of ListingPromise: to *)
(* a client, filter, backfill, sort and record look like one step, taken   *)
(* under snapshots that were in force during its call.                     *)
THEOREM PromiseKept == Spec => KeepsPromise
<1>1. Init => Promise!Init
  <2>1. (CHOOSE c \in Calls : TRUE) \in Calls
    BY InputTypes
  <2>2. ASSUME Init PROVE InForce = Promise!DefaultConfig
    BY <2>2 DEF Init, InForce, DefaultConfig, Promise!DefaultConfig
  <2>3. ASSUME Init
        PROVE  /\ Phases = [r \in Requests |-> "idle"]
               /\ Windows = [r \in Requests |-> {}]
               /\ Answers = [r \in Requests |-> <<>>]
    BY <2>3 DEF Init, Phases, Windows, Answers
  <2> QED BY <2>1, <2>2, <2>3 DEF Init, Promise!Init
<1> QED BY <1>1, PromiseSteps, TypeCorrect, StagesHold, PTL
        DEF Spec, KeepsPromise, Promise!Spec

-----------------------------------------------------------------------------
(* The listing catalogs.  A call that is past its capture has the          *)
(* pre-policy listing of its port recorded, and nobody takes it away.      *)

Captured(r) == pc[r] \notin {"idle", "done"} => fullCatalog[Port(call[r])] # NoSnapshot

CaptureInv ==
    /\ \A r \in Requests : Captured(r)
    /\ ServedPortsAreRestorable

(* Recording the listing of one call keeps what the others recorded.       *)
LEMMA CaptureKeepsRecorded ==
    ASSUME TypeOK, CaptureInv, NEW r \in Requests, NEW c \in Calls, Capture(r, c)
    PROVE  CaptureInv'
<1>1. Keys(c, Identity(c)) # NoSnapshot
  <2>1. Keys(c, Identity(c)) \in Seq(Models)
    BY IdentityIsSequence, KeysAreModels
  <2> QED BY <2>1, InterceptorConstants
<1>2. /\ \A p \in Ports : fullCatalog[p] # NoSnapshot => fullCatalog'[p] # NoSnapshot
      /\ fullCatalog'[Port(c)] # NoSnapshot
  BY <1>1, CallFacts DEF Capture, TypeOK, StoresTyped
<1>3. ASSUME NEW q \in Requests PROVE Captured(q)'
  <2>1. CASE q = r
    BY <1>2, <2>1 DEF Capture, Begin, Captured, TypeOK, CallsTyped
  <2>2. CASE q # r
    <3>1. Port(call[q]) \in Ports
      BY CallFacts DEF TypeOK, CallsTyped
    <3>2. pc'[q] = pc[q] /\ call'[q] = call[q]
      BY <2>2 DEF Capture, Begin, TypeOK, CallsTyped
    <3> QED BY <1>2, <3>1, <3>2 DEF CaptureInv, Captured
  <2> QED BY <2>1, <2>2
<1>4. ServedPortsAreRestorable'
  BY <1>2 DEF Capture, Begin, CaptureInv, ServedPortsAreRestorable
<1> QED BY <1>3, <1>4 DEF CaptureInv

(* Only publishing writes the served listing, and by then the pre-policy   *)
(* one is recorded.                                                        *)
LEMMA HandleKeepsRecorded ==
    ASSUME TypeOK, CaptureInv, NEW r \in Requests, Handle(r)
    PROVE  CaptureInv'
<1>1. /\ fullCatalog' = fullCatalog /\ call' = call
      /\ \A q \in Requests : pc'[q] \notin {"idle", "done"} => pc[q] \notin {"idle", "done"}
  BY DEF Handle, InitDefaults, FilterFindsNoConfig, Filter, LearnCodex,
       StartBackfill, Inject, EndBackfill, ReorderFindsNoConfig, Reorder, Publish,
       stores, locals, TypeOK, CallsTyped
<1>2. \A q \in Requests : Captured(q)'
  BY <1>1 DEF CaptureInv, Captured
<1>3. ServedPortsAreRestorable'
  <2>1. CASE Publish(r)
    <3>1. fullCatalog[Port(call[r])] # NoSnapshot
      BY <2>1 DEF CaptureInv, Captured, Publish
    <3>2. \A p \in Ports : catalog'[p] = catalog[p] \/ p = Port(call[r])
      BY <2>1 DEF Publish, TypeOK, StoresTyped
    <3> QED BY <1>1, <3>1, <3>2 DEF CaptureInv, ServedPortsAreRestorable
  <2>2. CASE ~Publish(r)
    <3>1. catalog' = catalog
      BY <2>2 DEF Handle, InitDefaults, FilterFindsNoConfig, Filter, LearnCodex,
           StartBackfill, Inject, EndBackfill, ReorderFindsNoConfig, Reorder, stores
    <3> QED BY <1>1, <3>1 DEF CaptureInv, ServedPortsAreRestorable
  <2> QED BY <2>1, <2>2
<1> QED BY <1>2, <1>3 DEF CaptureInv

(* Every step keeps the recorded listings.                                 *)
LEMMA StepKeepsRecorded ==
    ASSUME TypeOK, CaptureInv, [Next]_vars
    PROVE  CaptureInv'
<1>1. CASE UNCHANGED <<catalog, fullCatalog, pc, call>>
  BY <1>1 DEF CaptureInv, Captured, ServedPortsAreRestorable
<1>2. CASE UNCHANGED vars \/ \E p \in Payloads : Configure(p) \/ RejectConfigure(p)
  BY <1>1, <1>2 DEF vars, stores, locals, Configure, RejectConfigure
<1>3. ASSUME NEW r \in Requests, NEW c \in Calls, PassThrough(r, c) PROVE CaptureInv'
  <2>1. /\ catalog' = catalog /\ fullCatalog' = fullCatalog /\ pc'[r] = "done"
        /\ \A q \in Requests \ {r} : pc'[q] = pc[q] /\ call'[q] = call[q]
    BY <1>3 DEF PassThrough, Begin, TypeOK, CallsTyped
  <2> QED BY <2>1 DEF CaptureInv, Captured, ServedPortsAreRestorable
<1>4. CASE \E r \in Requests : \E c \in Calls : Capture(r, c)
  BY <1>4, CaptureKeepsRecorded
<1>5. CASE \E r \in Requests : Handle(r)
  BY <1>5, HandleKeepsRecorded
<1> QED BY <1>2, <1>3, <1>4, <1>5 DEF Next

(* A pre-policy listing that was recorded is replaced, never dropped.      *)
LEMMA RecordedStays ==
    ASSUME TypeOK, [Next]_vars, NEW p \in Ports, fullCatalog[p] # NoSnapshot
    PROVE  fullCatalog'[p] # NoSnapshot
<1>1. CASE fullCatalog' = fullCatalog
  BY <1>1
<1>2. ASSUME NEW r \in Requests, NEW c \in Calls, Capture(r, c)
      PROVE  fullCatalog'[p] # NoSnapshot
  <2>1. Keys(c, Identity(c)) \in Seq(Models)
    BY IdentityIsSequence, KeysAreModels
  <2> QED BY <1>2, <2>1, InterceptorConstants DEF Capture, TypeOK, StoresTyped
<1>3. ASSUME NEW r \in Requests, Handle(r) PROVE fullCatalog' = fullCatalog
  BY <1>3 DEF Handle, InitDefaults, FilterFindsNoConfig, Filter, LearnCodex,
       StartBackfill, Inject, EndBackfill, ReorderFindsNoConfig, Reorder, Publish, stores
<1> QED BY <1>1, <1>2, <1>3
      DEF Next, vars, stores, Configure, RejectConfigure, PassThrough

(* Every port with a served listing has a pre-policy listing too, under    *)
(* every interleaving of calls and lifecycle calls: a row the policy hides *)
(* stays restorable.                                                       *)
THEOREM PortsRestorable == Spec => []ServedPortsAreRestorable
<1>1. Init => CaptureInv
  BY DEF Init, CaptureInv, Captured, ServedPortsAreRestorable
<1>2. TypeOK /\ CaptureInv /\ [Next]_vars => CaptureInv'
  BY StepKeepsRecorded
<1>3. CaptureInv => ServedPortsAreRestorable
  BY DEF CaptureInv
<1> QED BY <1>1, <1>2, <1>3, TypeCorrect, PTL DEF Spec

-----------------------------------------------------------------------------
(* The capability store.  It only grows, so what was known when a call     *)
(* began is known whenever backfill looks: once an entry was visited it    *)
(* carries its facts, and nothing takes them away before the answer.       *)

Covered(r, i) ==
    call[r].list[i].key \in during[r].known =>
        call[r].list[i].rich \/ (i \in filled[r] /\ changed[r])

FactsKept(r) ==
    /\ pc[r] \notin {"idle", "done"} => during[r].known \subseteq known
    /\ pc[r] = "learn" => Port(call[r]) = "codex"
    /\ pc[r] = "inject" => \A i \in kept[r] \ todo[r] : Covered(r, i)
    /\ (pc[r] \in {"reorder", "reorderDefaults", "publish", "done"}
          /\ Governed(call[r]) /\ Port(call[r]) = "openai")
        => \A i \in kept[r] : Covered(r, i)

FactsInv == \A r \in Requests : FactsKept(r)

(* A step that leaves a call alone, and forgets nothing, keeps its facts.  *)
LEMMA OthersKeepFacts ==
    ASSUME NEW q \in Requests, FactsKept(q), known \subseteq known',
           pc'[q] = pc[q], call'[q] = call[q], kept'[q] = kept[q], todo'[q] = todo[q],
           filled'[q] = filled[q], changed'[q] = changed[q],
           during'[q].known = during[q].known
    PROVE  FactsKept(q)'
BY DEF FactsKept, Covered

(* Installing a configuration does not touch what a call knew.             *)
LEMMA InstallKeepsKnown ==
    ASSUME TypeOK, NEW cfg, Install(cfg), NEW q \in Requests
    PROVE  during'[q].known = during[q].known
BY DEF Install, TypeOK, CallsTyped

(* The steps of a call keep its own facts and those of the others.         *)
LEMMA HandleKeepsFacts ==
    ASSUME TypeOK, FactsInv, NEW r \in Requests, Handle(r)
    PROVE  FactsInv'
<1>1. \A q \in Requests : during'[q].known = during[q].known
  <2>1. CASE InitDefaults(r)
    BY <2>1, InstallKeepsKnown DEF InitDefaults
  <2>2. CASE ~InitDefaults(r)
    BY <2>2 DEF Handle, FilterFindsNoConfig, Filter, LearnCodex, StartBackfill,
         Inject, EndBackfill, ReorderFindsNoConfig, Reorder, Publish
  <2> QED BY <2>1, <2>2
<1>2. known \subseteq known' /\ call' = call
  BY DEF Handle, InitDefaults, FilterFindsNoConfig, Filter, LearnCodex, StartBackfill,
       Inject, EndBackfill, ReorderFindsNoConfig, Reorder, Publish, stores, locals
<1>3. ASSUME NEW q \in Requests, q # r PROVE FactsKept(q)'
  <2>1. /\ pc'[q] = pc[q] /\ kept'[q] = kept[q] /\ todo'[q] = todo[q]
        /\ filled'[q] = filled[q] /\ changed'[q] = changed[q]
    BY <1>3 DEF Handle, InitDefaults, FilterFindsNoConfig, Filter, LearnCodex,
         StartBackfill, Inject, EndBackfill, ReorderFindsNoConfig, Reorder, Publish,
         locals, TypeOK, CallsTyped
  <2> QED BY <1>1, <1>2, <2>1, OthersKeepFacts DEF FactsInv
<1> SUFFICES FactsKept(r)'
  BY <1>3 DEF FactsInv
<1>4. FactsKept(r) /\ call[r] \in Calls
  BY DEF FactsInv, TypeOK, CallsTyped
<1>5. pc \in [Requests -> PcType] /\ changed \in [Requests -> BOOLEAN]
  BY DEF TypeOK, CallsTyped
<1>6. DOMAIN todo = Requests /\ DOMAIN filled = Requests /\ DOMAIN kept = Requests
  BY DEF TypeOK, CallsTyped
<1>7. CASE InitDefaults(r) \/ FilterFindsNoConfig(r) \/ ReorderFindsNoConfig(r)
  BY <1>1, <1>2, <1>4, <1>5, <1>7 DEF InitDefaults, FilterFindsNoConfig,
       ReorderFindsNoConfig, FactsKept, Covered, stores, locals
<1>8. CASE Filter(r)
  <2>1. pc'[r] = AfterFilter(call[r]) /\ pc[r] = "filter"
    BY <1>5, <1>8 DEF Filter
  <2>2. /\ Port(call[r]) = "openai" => pc'[r] = "backfill"
        /\ pc'[r] = "learn" => Port(call[r]) = "codex"
        /\ pc'[r] \in {"learn", "backfill", "reorder"}
    BY <1>4, <2>1, CallFacts DEF AfterFilter, Ports
  <2> QED BY <1>1, <1>2, <1>4, <2>1, <2>2 DEF FactsKept
<1>9. CASE LearnCodex(r)
  <2>1. pc'[r] = "reorder" /\ Port(call[r]) = "codex"
    BY <1>4, <1>5, <1>9 DEF LearnCodex, FactsKept
  <2> QED BY <1>1, <1>2, <1>4, <1>9, <2>1 DEF FactsKept, LearnCodex
<1>10. CASE StartBackfill(r)
  <2>1. /\ pc'[r] = "inject" /\ pc[r] = "backfill" /\ kept' = kept /\ known' = known
        /\ todo'[r] = IF known = {} THEN {} ELSE kept[r]
    BY <1>5, <1>6, <1>10 DEF StartBackfill, stores
  <2>2. during[r].known \subseteq known
    BY <1>4, <2>1 DEF FactsKept
  <2>3. \A i \in kept'[r] \ todo'[r] : Covered(r, i)'
    BY <1>1, <2>1, <2>2 DEF Covered
  <2> QED BY <1>1, <1>2, <2>1, <2>2, <2>3 DEF FactsKept
<1>11. CASE Inject(r)
  <2>1. PICK i \in todo[r] :
           LET item == call[r].list[i]
               hit  == item.key \in known /\ ~item.rich
           IN  /\ todo' = [todo EXCEPT ![r] = @ \ {i}]
               /\ filled' = [filled EXCEPT ![r] = IF hit THEN @ \cup {i} ELSE @]
               /\ changed' = [changed EXCEPT ![r] = @ \/ hit]
    BY <1>11 DEF Inject
  <2> DEFINE item == call[r].list[i]
             hit  == item.key \in known /\ ~item.rich
  <2>2. /\ todo'[r] = todo[r] \ {i}
        /\ filled'[r] = IF hit THEN filled[r] \cup {i} ELSE filled[r]
        /\ hit => changed'[r]
        /\ changed[r] => changed'[r]
    BY <1>5, <1>6, <2>1
  <2>3. /\ pc' = pc /\ pc[r] = "inject" /\ kept' = kept /\ known' = known
    BY <1>11 DEF Inject, stores
  <2>4. during[r].known \subseteq known
    BY <1>4, <2>3 DEF FactsKept
  <2>5. Covered(r, i)'
    BY <1>1, <1>2, <2>2, <2>4 DEF Covered
  <2>6. ASSUME NEW j \in kept[r] \ todo[r] PROVE Covered(r, j)'
    <3>1. Covered(r, j)
      BY <1>4, <2>3 DEF FactsKept
    <3> QED BY <1>1, <1>2, <2>2, <3>1 DEF Covered
  <2>7. \A j \in kept'[r] \ todo'[r] : Covered(r, j)'
    BY <2>2, <2>3, <2>5, <2>6
  <2> QED BY <1>1, <1>2, <2>3, <2>4, <2>7 DEF FactsKept
<1>12. CASE EndBackfill(r)
  <2>1. /\ pc'[r] = "reorder" /\ pc[r] = "inject" /\ todo[r] = {} /\ kept' = kept
        /\ filled' = filled /\ changed' = changed
    BY <1>5, <1>12 DEF EndBackfill, locals
  <2>2. \A i \in kept'[r] : Covered(r, i)'
    BY <1>1, <1>2, <1>4, <2>1 DEF FactsKept, Covered
  <2> QED BY <1>1, <1>2, <1>4, <2>1, <2>2 DEF FactsKept
<1>13. CASE Reorder(r)
  <2>1. changed[r] => changed'[r]
    BY <1>5, <1>13 DEF Reorder
  <2>2. /\ pc'[r] = "publish" /\ pc[r] = "reorder" /\ kept' = kept /\ filled' = filled
    BY <1>5, <1>13 DEF Reorder, stores
  <2> QED BY <1>1, <1>2, <1>4, <2>1, <2>2 DEF FactsKept, Covered
<1>14. CASE Publish(r)
  <2>1. /\ pc'[r] = "done" /\ pc[r] = "publish" /\ kept' = kept /\ filled' = filled
        /\ changed' = changed
    BY <1>5, <1>14 DEF Publish, locals
  <2> QED BY <1>1, <1>2, <1>4, <2>1 DEF FactsKept, Covered
<1> QED BY <1>7, <1>8, <1>9, <1>10, <1>11, <1>12, <1>13, <1>14 DEF Handle

(* A call that begins notes what is known and owes nothing yet.            *)
LEMMA BeginKeepsFacts ==
    ASSUME TypeOK, FactsInv, NEW r \in Requests, NEW c \in Calls,
           PassThrough(r, c) \/ Capture(r, c)
    PROVE  FactsInv'
<1>1. Begin(r, c) /\ known' = known
  BY DEF PassThrough, Capture, Begin
<1>2. ASSUME NEW q \in Requests, q # r PROVE FactsKept(q)'
  <2>1. /\ pc'[q] = pc[q] /\ call'[q] = call[q] /\ kept'[q] = kept[q]
        /\ todo'[q] = todo[q] /\ filled'[q] = filled[q] /\ changed'[q] = changed[q]
        /\ during'[q] = during[q]
    BY <1>2 DEF PassThrough, Capture, Begin, TypeOK, CallsTyped
  <2> QED BY <1>1, <2>1, OthersKeepFacts DEF FactsInv
<1>3. call'[r] = c /\ during'[r].known = known
  BY <1>1 DEF Begin, TypeOK, CallsTyped
<1>4. CASE PassThrough(r, c)
  <2>1. pc'[r] = "done" /\ ~Governed(c)
    BY <1>4 DEF PassThrough, TypeOK, CallsTyped
  <2>2. FactsKept(r)'
    BY <1>3, <2>1 DEF FactsKept
  <2> QED BY <1>2, <2>2 DEF FactsInv
<1>5. CASE Capture(r, c)
  <2>1. pc'[r] = IF Identified(c) THEN "filter" ELSE AfterFilter(c)
    BY <1>5 DEF Capture, TypeOK, CallsTyped
  <2>2. /\ Port(c) = "openai" => AfterFilter(c) = "backfill"
        /\ AfterFilter(c) = "learn" => Port(c) = "codex"
        /\ AfterFilter(c) \in {"learn", "backfill", "reorder"}
    BY CallFacts DEF AfterFilter, Ports
  <2>3. FactsKept(r)'
    BY <1>1, <1>3, <2>1, <2>2 DEF FactsKept
  <2> QED BY <1>2, <2>3 DEF FactsInv
<1> QED BY <1>4, <1>5

(* The inductive invariant of the capability facts.                        *)
THEOREM FactsHold == Spec => []FactsInv
<1>1. Init => FactsInv
  BY DEF Init, FactsInv, FactsKept
<1>2. TypeOK /\ FactsInv /\ [Next]_vars => FactsInv'
  <2> SUFFICES ASSUME TypeOK, FactsInv, [Next]_vars PROVE FactsInv'
    OBVIOUS
  <2>1. ASSUME NEW p \in Payloads, Configure(p) PROVE FactsInv'
    <3>1. \A q \in Requests : during'[q].known = during[q].known
      BY <2>1, InstallKeepsKnown DEF Configure
    <3> QED BY <2>1, <3>1, OthersKeepFacts DEF Configure, FactsInv, locals
  <2>2. CASE UNCHANGED vars
    BY <2>2, OthersKeepFacts DEF vars, stores, locals, FactsInv
  <2>3. CASE \E p \in Payloads : RejectConfigure(p)
    BY <2>2, <2>3 DEF RejectConfigure
  <2>4. CASE \E r \in Requests : \E c \in Calls : PassThrough(r, c) \/ Capture(r, c)
    BY <2>4, BeginKeepsFacts
  <2>5. CASE \E r \in Requests : Handle(r)
    BY <2>5, HandleKeepsFacts
  <2> QED BY <2>1, <2>2, <2>3, <2>4, <2>5 DEF Next
<1> QED BY <1>1, <1>2, TypeCorrect, PTL DEF Spec

(* Every entry of the OpenAI listing whose facts were known when the call  *)
(* began is served with facts, whatever other calls and the refresh learn  *)
(* meanwhile, and the answer says that the body changed.                   *)
THEOREM FactsServed == Spec => []KnownFactsAreServed
<1>1. TypeOK /\ IInv /\ FactsInv => KnownFactsAreServed
  <2> SUFFICES ASSUME TypeOK, IInv, FactsInv, NEW r \in Requests, Answered(r),
                      Port(call[r]) = "openai", NEW i \in Range(Served(r))
               PROVE  Covered(r, i)
    BY DEF KnownFactsAreServed, Covered
  <2>1. Sorted(r)
    BY DEF IInv, Stage, Answered
  <2>2. PICK cfg \in during[r].configs :
           order[r] \in StableSorts(cfg, call[r].list, kept[r])
    BY <2>1 DEF Sorted
  <2>3. call[r] \in Calls /\ kept[r] \in SUBSET Positions(call[r])
    BY DEF TypeOK, CallsTyped, CallTyped
  <2>4. Range(order[r]) = kept[r]
    BY <2>2, <2>3, SortsAreSequences
  <2>5. Served(r) = order[r]
    BY <2>1, ServedIsOrder
  <2>6. i \in kept[r]
    BY <2>4, <2>5
  <2> QED BY <2>6 DEF FactsInv, FactsKept, Answered
<1> QED BY <1>1, TypeCorrect, StagesHold, FactsHold, PTL

-----------------------------------------------------------------------------
(* The configuration.  Where the host registers before it sends traffic,   *)
(* no call finds the snapshot unset, so nobody installs the defaults.      *)

RegisteredFirst ==
    /\ config = accepted
    /\ accepted = NoConfig => \A r \in Requests : pc[r] = "idle"
    /\ \A r \in Requests : pc[r] \notin {"filterDefaults", "reorderDefaults"}

(* The snapshot in force is the last accepted one for any host that        *)
(* registers first; without that premise run interceptor_eager refutes it. *)
THEOREM AcceptedStays == Spec => [](RegisterFirst => AcceptedConfigInForce)
<1> DEFINE Inv == RegisterFirst => RegisteredFirst
<1>1. Init => Inv
  BY DEF Init, RegisteredFirst
<1>2. TypeOK /\ Inv /\ [Next]_vars => Inv'
  <2> SUFFICES ASSUME TypeOK, RegisterFirst, RegisteredFirst, [Next]_vars
               PROVE  RegisteredFirst'
    BY InterceptorConstants
  <2>1. ASSUME NEW p \in Payloads, Configure(p) PROVE RegisteredFirst'
    <3>1. Compiled(p) # NoConfig
      BY <2>1, CompiledIsConfig, InterceptorConstants DEF Configure
    <3> QED BY <2>1, <3>1 DEF Configure, Install, RegisteredFirst
  <2>2. CASE UNCHANGED vars
    BY <2>2 DEF vars, stores, RegisteredFirst
  <2>3. CASE \E p \in Payloads : RejectConfigure(p)
    BY <2>2, <2>3 DEF RejectConfigure
  <2>4. ASSUME NEW r \in Requests, NEW c \in Calls, PassThrough(r, c) \/ Capture(r, c)
        PROVE  RegisteredFirst'
    <3>1. /\ accepted # NoConfig /\ config' = config /\ accepted' = accepted
          /\ pc'[r] \in {"done", "filter", "learn", "backfill", "reorder"}
          /\ \A q \in Requests \ {r} : pc'[q] = pc[q]
      BY <2>4, CallFacts DEF PassThrough, Capture, Begin, TypeOK, CallsTyped
    <3> QED BY <3>1 DEF RegisteredFirst
  <2>5. ASSUME NEW r \in Requests, Handle(r) PROVE RegisteredFirst'
    <3>1. pc[r] # "idle"
      BY <2>5 DEF Handle, InitDefaults, FilterFindsNoConfig, Filter, LearnCodex,
           StartBackfill, Inject, EndBackfill, ReorderFindsNoConfig, Reorder, Publish
    <3>2. accepted # NoConfig /\ config # NoConfig
      BY <3>1 DEF RegisteredFirst
    <3>3. ~InitDefaults(r) /\ ~FilterFindsNoConfig(r) /\ ~ReorderFindsNoConfig(r)
      BY <3>2 DEF RegisteredFirst, InitDefaults, FilterFindsNoConfig, ReorderFindsNoConfig
    <3>4. AfterFilter(call[r]) \in {"learn", "backfill", "reorder"}
      BY CallFacts DEF TypeOK, CallsTyped
    <3>5. /\ config' = config /\ accepted' = accepted
          /\ pc'[r] \notin {"filterDefaults", "reorderDefaults"}
          /\ \A q \in Requests \ {r} : pc'[q] = pc[q]
      BY <2>5, <3>3, <3>4 DEF Handle, Filter, LearnCodex, StartBackfill, Inject,
           EndBackfill, Reorder, Publish, stores, TypeOK, CallsTyped, RegisteredFirst
    <3> QED BY <3>2, <3>5 DEF RegisteredFirst
  <2> QED BY <2>1, <2>2, <2>3, <2>4, <2>5 DEF Next
<1>3. Inv => (RegisterFirst => AcceptedConfigInForce)
  BY DEF RegisteredFirst, AcceptedConfigInForce
<1> QED BY <1>1, <1>2, <1>3, TypeCorrect, PTL DEF Spec
=============================================================================
