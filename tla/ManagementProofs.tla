-------------------------- MODULE ManagementProofs --------------------------
(***************************************************************************)
(* Proofs about the status and preview requests, for every interleaving    *)
(* with any number of intercepted responses and lifecycle calls.           *)
(***************************************************************************)
EXTENDS Management, InterceptorProofs

(* The inductive invariant.  A preview ends where a status ends too, so it *)
(* says which steps are a preview's; and a port that was seen served has   *)
(* its pre-policy listing recorded by the time that is read.               *)
PreviewSteps == {"port", "listing", "served", "rule", "ruleDefaults", "policy", "policyDefaults"}

DeskInv ==
    /\ step \in PreviewSteps => query.kind = "preview"
    /\ step = "fullCatalogs" => view.ports \subseteq Recorded(fullCatalog)
    /\ StatusPortsRestorable

MInv == TypeOK /\ CaptureInv /\ ManagedTypeOK /\ DeskInv

(* What a management request may be.                                       *)
LEMMA QueryFacts ==
    ASSUME NEW q \in Queries
    PROVE  /\ q.kind \in {"status", "preview"}
           /\ q.strategy \in {"", "grouped", "name"}
           /\ q.order \in Seq(Patterns)
           /\ q.cs \in BOOLEAN
           /\ q.port \in Ports \cup {NoPort}
           /\ q.ids \in Seq(Models)
           /\ q.allow \in (SUBSET Patterns) \cup {NoList}
           /\ q.deny \in (SUBSET Patterns) \cup {NoList}
BY ManagementConstants DEF QueryType

(* The policy of a preview is a policy, whatever the request overrides.    *)
LEMMA PreviewPolicyTyped ==
    ASSUME query \in Queries, NEW cfg,
           (query.scope # NoScope /\ FilterPort(view.port)) => cfg \in Configs
    PROVE  PreviewPolicy(cfg) \in PolicyBodies \cup {NoPolicy}
<1>1. CASE query.scope = NoScope \/ ~FilterPort(view.port)
  BY <1>1 DEF PreviewPolicy
<1>2. CASE ~(query.scope = NoScope \/ ~FilterPort(view.port))
  <2> DEFINE stored == IF HasPolicy(cfg.access, query.scope)
                       THEN cfg.access[query.scope] ELSE Unrestricted
  <2>1. cfg.access \in Tables \cup {NoTable}
    BY <1>2 DEF Configs
  <2>2. stored \in PolicyBodies
    <3>1. Unrestricted \in PolicyBodies
      BY DEF Unrestricted, PolicyBodies
    <3>2. HasPolicy(cfg.access, query.scope) => cfg.access[query.scope] \in PolicyBodies
      BY <2>1 DEF HasPolicy, Tables
    <3> QED BY <3>1, <3>2
  <2> DEFINE allow == IF query.allow = NoList THEN stored.allow ELSE query.allow
             deny  == IF query.deny = NoList THEN stored.deny ELSE query.deny
  <2>3. PreviewPolicy(cfg) = [stored EXCEPT !.allow = allow, !.deny = deny]
    BY <1>2 DEF PreviewPolicy
  <2> HIDE DEF stored
  <2>4. allow \in SUBSET Patterns /\ deny \in SUBSET Patterns
    <3>1. stored.allow \in SUBSET Patterns /\ stored.deny \in SUBSET Patterns
      BY <2>2 DEF PolicyBodies
    <3>2. /\ query.allow \in (SUBSET Patterns) \cup {NoList}
          /\ query.deny \in (SUBSET Patterns) \cup {NoList}
      BY QueryFacts
    <3> QED BY <3>1, <3>2
  <2> HIDE DEF allow, deny
  <2> QED BY <2>2, <2>3, <2>4 DEF PolicyBodies
<1> QED BY <1>1, <1>2

ViewType == [port : Ports \cup {NoPort}, ids : Seq(Models), rule : Configs,
             policy : PolicyBodies \cup {NoPolicy},
             ports : SUBSET Ports, fullPorts : SUBSET Ports]

(* Nothing was read yet.                                                   *)
LEMMA BlankTyped == Blank \in ViewType
BY DefaultIsConfig DEF Blank, ViewType

(* A snapshot is a listing, and so is what a preview takes of it.          *)
LEMMA TakeTyped ==
    ASSUME MInv, NEW listing \in Seq(Models), Take(listing)
    PROVE  /\ view' \in ViewType /\ view'.ids = listing
           /\ step' \in {"done", "rule"}
           /\ step' = "done" => view'.ids = <<>>
<1>1. view \in ViewType
  BY DEF MInv, ManagedTypeOK, ViewType
<1>2. /\ view' = [view EXCEPT !.ids = listing]
      /\ step' = IF listing = <<>> THEN "done" ELSE "rule"
  BY DEF Take, Goto
<1> QED BY <1>1, <1>2 DEF ViewType

(* What the two reads of the listing find.                                 *)
LEMMA ReadsFind ==
    ASSUME MInv
    PROVE  /\ ReadListing => \/ \E listing \in Seq(Models) : Take(listing)
                             \/ Goto("served") /\ UNCHANGED view
           /\ ReadServed => \E listing \in Seq(Models) : Take(listing)
<1>1. \A p \in Ports : /\ fullCatalog[p] \in Seq(Models) \cup {NoSnapshot}
                       /\ catalog[p] \in Seq(Models) \cup {NoSnapshot}
  BY DEF MInv, TypeOK, StoresTyped
<1>2. view.port \in Ports \cup {NoPort} /\ <<>> \in Seq(Models)
  BY DEF MInv, ManagedTypeOK
<1>3. /\ Snapshot(fullCatalog) \in Seq(Models) \cup {NoSnapshot}
      /\ Snapshot(catalog) \in Seq(Models) \cup {NoSnapshot}
  BY <1>1, <1>2 DEF Snapshot
<1> QED BY <1>2, <1>3 DEF ReadListing, ReadServed

(* The interceptor's own steps disturb no request: its invariants hold on, *)
(* and what a request noted as recorded stays recorded.                    *)
LEMMA ElsewhereKeeps ==
    ASSUME MInv, Elsewhere
    PROVE  MInv'
<1>1. TypeOK' /\ CaptureInv'
  BY StepTyped, StepKeepsRecorded DEF MInv, Elsewhere
<1>2. newest' \in Ports \cup {NoPort}
  <2>1. CASE \E r \in Requests : Publishing(r)
    <3>1. (CHOOSE r \in Requests : Publishing(r)) \in Requests
      BY <2>1
    <3> QED BY <2>1, <3>1, CallFacts DEF Elsewhere, MInv, TypeOK, CallsTyped
  <2>2. CASE ~\E r \in Requests : Publishing(r)
    BY <2>2 DEF Elsewhere, MInv, ManagedTypeOK
  <2> QED BY <2>1, <2>2
<1>3. seen' \subseteq Configs
  <2>1. InForce' \in Configs
    BY <1>1, DefaultIsConfig DEF TypeOK, StoresTyped, InForce
  <2> QED BY <2>1 DEF Elsewhere, MInv, ManagedTypeOK
<1>4. ManagedTypeOK'
  BY <1>2, <1>3 DEF Elsewhere, MInv, ManagedTypeOK
<1>5. Recorded(fullCatalog) \subseteq Recorded(fullCatalog')
  BY RecordedStays DEF Elsewhere, MInv, Recorded
<1>6. DeskInv'
  BY <1>5 DEF Elsewhere, MInv, DeskInv, StatusPortsRestorable
<1> QED BY <1>1, <1>4, <1>6 DEF MInv

(* A new request starts from nothing.                                      *)
LEMMA ReceiveKeeps ==
    ASSUME MInv, NEW q \in Queries, Receive(q)
    PROVE  MInv'
<1>1. TypeOK' /\ CaptureInv'
  BY DEF Receive, MInv, TypeOK, StoresTyped, CallsTyped, CallTyped, CaptureInv, Captured,
       ServedPortsAreRestorable, vars, stores, locals
<1>2. InForce \in Configs
  BY InForceIsConfig DEF MInv, TypeOK
<1>3. ManagedTypeOK'
  <2>1. view' \in ViewType
    <3>1. q.port \in Ports \cup {NoPort} /\ q.ids \in Seq(Models)
      BY QueryFacts
    <3>2. view' = [Blank EXCEPT !.port = q.port, !.ids = q.ids]
      BY DEF Receive
    <3> QED BY <3>1, <3>2, BlankTyped DEF ViewType
  <2> QED BY <1>2, <2>1 DEF Receive, MInv, ManagedTypeOK, Steps, ViewType
<1>4. DeskInv'
  BY QueryFacts DEF Receive, DeskInv, PreviewSteps, StatusPortsRestorable
<1> QED BY <1>1, <1>3, <1>4 DEF MInv

(* The reads of a request that change nothing shared.                      *)
LEMMA ReadsKeep ==
    ASSUME MInv, Manage, ~QueryInitDefaults
    PROVE  MInv'
<1>1. UNCHANGED <<vars, newest, query, seen>>
  BY DEF Manage, QueryFindsNoConfig, StatusPolicies, StatusCatalogs, StatusFullCatalogs,
       ReadPort, ReadListing, ReadServed, Take, ReadRule, ReadPolicy, Goto
<1>2. TypeOK' /\ CaptureInv'
  BY <1>1 DEF MInv, TypeOK, StoresTyped, CallsTyped, CallTyped, CaptureInv, Captured,
       ServedPortsAreRestorable, vars, stores, locals
<1>3. /\ query \in Queries /\ view \in ViewType /\ newest \in Ports \cup {NoPort}
      /\ fullCatalog' = fullCatalog
  BY <1>1 DEF MInv, ManagedTypeOK, ViewType, vars, stores
<1> SUFFICES step' \in Steps /\ view' \in ViewType /\ DeskInv'
  BY <1>1, <1>2, <1>3 DEF MInv, ManagedTypeOK, ViewType
<1>4. CASE QueryFindsNoConfig
  <2>1. /\ step' \in {"statusDefaults", "ruleDefaults", "policyDefaults"}
        /\ step \in {"status", "rule", "policy"}
        /\ step' # "statusDefaults" => step \in PreviewSteps
    BY <1>4 DEF QueryFindsNoConfig, WantsConfig, Goto, PreviewSteps
  <2> QED BY <1>1, <1>3, <1>4, <2>1
        DEF QueryFindsNoConfig, Steps, MInv, DeskInv, PreviewSteps, StatusPortsRestorable
<1>5. CASE StatusPolicies
  BY <1>1, <1>3, <1>5
    DEF StatusPolicies, Goto, Steps, MInv, DeskInv, PreviewSteps, StatusPortsRestorable,
        Recorded, ViewType
<1>6. CASE StatusCatalogs
  <2>1. step' = "fullCatalogs" /\ view' = [view EXCEPT !.ports = Recorded(catalog)]
    BY <1>6 DEF StatusCatalogs, Goto
  <2>2. view' \in ViewType /\ view'.ports = Recorded(catalog)
    BY <1>3, <2>1 DEF ViewType, Recorded
  <2>3. Recorded(catalog) \subseteq Recorded(fullCatalog)
    BY DEF MInv, CaptureInv, ServedPortsAreRestorable, Recorded
  <2> QED BY <1>3, <2>1, <2>2, <2>3 DEF Steps, DeskInv, PreviewSteps, StatusPortsRestorable
<1>7. CASE StatusFullCatalogs
  <2>1. /\ step' = "done" /\ step = "fullCatalogs"
        /\ view' = [view EXCEPT !.fullPorts = Recorded(fullCatalog)]
    BY <1>7 DEF StatusFullCatalogs, Goto
  <2>2. /\ view' \in ViewType /\ view'.ports = view.ports
        /\ view'.fullPorts = Recorded(fullCatalog)
    BY <1>3, <2>1 DEF ViewType, Recorded
  <2> QED BY <2>1, <2>2 DEF Steps, MInv, DeskInv, PreviewSteps, StatusPortsRestorable
<1>8. CASE ReadPort \/ ReadListing \/ ReadServed \/ ReadRule \/ ReadPolicy
  <2>1. /\ step' \in {"done", "listing", "served", "rule", "policy"}
        /\ query.kind = "preview"
    BY <1>8 DEF ReadPort, ReadListing, ReadServed, Take, ReadRule, ReadPolicy, Goto, MInv,
         DeskInv, PreviewSteps
  <2>2. view' \in ViewType
    <3>1. CASE ReadListing \/ ReadServed
      BY <1>3, <3>1, ReadsFind, TakeTyped
    <3>2. CASE ReadRule
      <4> DEFINE rule == [strategy |-> IF query.strategy = "" THEN "grouped" ELSE query.strategy,
                          order    |-> IF WantsConfig THEN config.order ELSE query.order,
                          cs       |-> query.cs,
                          access   |-> NoTable]
      <4>1. WantsConfig => config.order \in Seq(Patterns)
        BY <3>2 DEF ReadRule, MInv, TypeOK, StoresTyped, Configs
      <4>2. rule \in Configs
        BY <1>3, <4>1, QueryFacts DEF Configs
      <4>3. view' = [view EXCEPT !.rule = rule]
        BY <3>2 DEF ReadRule
      <4> HIDE DEF rule
      <4> QED BY <1>3, <4>2, <4>3 DEF ViewType
    <3>3. CASE ReadPolicy
      <4>1. (query.scope # NoScope /\ FilterPort(view.port)) => config \in Configs
        BY <3>3 DEF ReadPolicy, WantsConfig, MInv, TypeOK, StoresTyped
      <4>2. PreviewPolicy(config) \in PolicyBodies \cup {NoPolicy}
        BY <1>3, <4>1, PreviewPolicyTyped
      <4>3. view' = [view EXCEPT !.policy = PreviewPolicy(config)]
        BY <3>3 DEF ReadPolicy
      <4> QED BY <1>3, <4>2, <4>3 DEF ViewType
    <3>4. CASE ReadPort
      BY <1>3, <3>4 DEF ReadPort, MInv, ManagedTypeOK, ViewType
    <3> QED BY <1>8, <3>1, <3>2, <3>3, <3>4
  <2> QED BY <1>1, <2>1, <2>2 DEF Steps, DeskInv, PreviewSteps, StatusPortsRestorable
<1> QED BY <1>4, <1>5, <1>6, <1>7, <1>8 DEF Manage

(* A request that finds nothing loaded installs the defaults, as a call    *)
(* does.                                                                   *)
LEMMA DefaultsKeep ==
    ASSUME MInv, QueryInitDefaults
    PROVE  MInv'
<1>1. /\ config' = DefaultConfig
      /\ UNCHANGED <<catalog, fullCatalog, known, pc, locals, accepted, newest, query, view>>
  BY DEF QueryInitDefaults, Install
<1>2. during' \in [Requests -> [configs : SUBSET Configs, known : SUBSET Models]]
  BY DefaultIsConfig DEF QueryInitDefaults, Install, MInv, TypeOK, CallsTyped
<1>3. TypeOK'
  BY <1>1, <1>2, DefaultIsConfig
    DEF MInv, TypeOK, StoresTyped, CallsTyped, CallTyped, locals
<1>4. CaptureInv'
  BY <1>1 DEF MInv, CaptureInv, Captured, ServedPortsAreRestorable, locals
<1>5. /\ step' \in {"status", "rule", "policy"}
      /\ step' \in PreviewSteps => step \in PreviewSteps
      /\ seen' = seen \cup {DefaultConfig}
  BY DEF QueryInitDefaults, PreviewSteps
<1>6. ManagedTypeOK'
  BY <1>1, <1>5, DefaultIsConfig DEF MInv, ManagedTypeOK, Steps
<1>7. DeskInv'
  BY <1>1, <1>5 DEF MInv, DeskInv, PreviewSteps, StatusPortsRestorable
<1> QED BY <1>3, <1>4, <1>6, <1>7 DEF MInv

(* The inductive invariant holds.                                          *)
THEOREM MInvHolds == ManagedSpec => []MInv
<1>1. ManagedInit => MInv
  <2> SUFFICES ASSUME ManagedInit PROVE MInv
    OBVIOUS
  <2>1. TypeOK /\ CaptureInv
    BY InitTyped DEF ManagedInit, Init, CaptureInv, Captured, ServedPortsAreRestorable
  <2>2. ManagedTypeOK
    BY BlankTyped DEF ManagedInit, ManagedTypeOK, ViewType, Steps
  <2>3. DeskInv
    BY DEF ManagedInit, DeskInv, PreviewSteps, StatusPortsRestorable
  <2> QED BY <2>1, <2>2, <2>3 DEF MInv
<1>2. MInv /\ [ManagedNext]_<<vars, desk>> => MInv'
  <2> SUFFICES ASSUME MInv, [ManagedNext]_<<vars, desk>> PROVE MInv'
    OBVIOUS
  <2>1. CASE UNCHANGED <<vars, desk>>
    BY <2>1 DEF MInv, TypeOK, StoresTyped, CallsTyped, CallTyped, CaptureInv, Captured,
         ServedPortsAreRestorable, ManagedTypeOK, DeskInv, StatusPortsRestorable,
         vars, stores, locals, desk
  <2>2. CASE Elsewhere
    BY <2>2, ElsewhereKeeps
  <2>3. CASE \E q \in Queries : Receive(q)
    BY <2>3, ReceiveKeeps
  <2>4. CASE Manage
    <3>1. CASE QueryInitDefaults
      BY <3>1, DefaultsKeep
    <3>2. CASE ~QueryInitDefaults
      BY <2>4, <3>2, ReadsKeep
    <3> QED BY <3>1, <3>2
  <2> QED BY <2>1, <2>2, <2>3, <2>4 DEF ManagedNext
<1> QED BY <1>1, <1>2, PTL DEF ManagedSpec

(* Every variable of a request stays in its type, for any requests and any *)
(* traffic meanwhile.                                                      *)
THEOREM ManagedTyped == ManagedSpec => []ManagedTypeOK
BY MInvHolds, PTL DEF MInv

(* A status reply shows no port as served that it does not show before the *)
(* policy too, whatever is recorded between its two reads.                 *)
THEOREM StatusRestorable == ManagedSpec => []StatusPortsRestorable
<1>1. MInv => StatusPortsRestorable
  BY DEF MInv, DeskInv
<1> QED BY <1>1, MInvHolds, PTL

-----------------------------------------------------------------------------
(* A preview and the listing it stands for.                                *)

StatusSteps == {"status", "statusDefaults", "panic", "catalogs", "fullCatalogs"}

(* The inductive invariant: while a request is answered the snapshot in    *)
(* force is among those seen, and a preview that went through the read of  *)
(* the policy took it from one of them.                                    *)
PreviewInv ==
    /\ step \in StatusSteps => query.kind = "status"
    /\ step \notin {"idle", "done"} => InForce \in seen
    /\ Previewed => \E cfg \in seen : view.policy = PreviewPolicy(cfg)

LEMMA PreviewStep ==
    ASSUME MInv, PreviewInv, [ManagedNext]_<<vars, desk>>
    PROVE  PreviewInv'
<1>1. CASE UNCHANGED <<vars, desk>>
  BY <1>1 DEF PreviewInv, Previewed, PreviewPolicy, InForce, vars, stores, desk
<1>2. CASE Elsewhere
  BY <1>2 DEF Elsewhere, PreviewInv, Previewed, PreviewPolicy
<1>3. ASSUME NEW q \in Queries, Receive(q) PROVE PreviewInv'
  BY <1>3, QueryFacts DEF Receive, PreviewInv, Previewed, InForce, StatusSteps, vars, stores
<1>4. CASE QueryInitDefaults
  <2>1. InForce' = DefaultConfig
    BY <1>4 DEF QueryInitDefaults, Install, InForce
  <2>2. /\ step' \in {"status", "rule", "policy"}
        /\ step' \in StatusSteps => step \in StatusSteps
        /\ query' = query
        /\ seen' = seen \cup {DefaultConfig}
    BY <1>4 DEF QueryInitDefaults, StatusSteps
  <2> QED BY <2>1, <2>2 DEF PreviewInv, Previewed
<1>5. CASE Manage /\ ~QueryInitDefaults
  <2>1. UNCHANGED <<vars, newest, query, seen>>
    BY <1>5 DEF Manage, QueryFindsNoConfig, StatusPolicies, StatusCatalogs,
         StatusFullCatalogs, ReadPort, ReadListing, ReadServed, Take, ReadRule, ReadPolicy, Goto
  <2>2. InForce' = InForce
    BY <2>1 DEF InForce, vars, stores
  <2>3. CASE QueryFindsNoConfig \/ StatusPolicies \/ StatusCatalogs \/ ReadPort \/ ReadRule
    <3>1. /\ step' \notin {"idle", "done"} /\ step \notin {"idle", "done"}
          /\ step' \in StatusSteps => step \in StatusSteps
      BY <2>3 DEF QueryFindsNoConfig, WantsConfig, StatusPolicies, StatusCatalogs, ReadPort,
           ReadRule, Goto, StatusSteps
    <3> QED BY <2>1, <2>2, <3>1 DEF PreviewInv, Previewed
  <2>4. CASE StatusFullCatalogs
    <3>1. step' = "done" /\ query.kind = "status"
      BY <2>4 DEF StatusFullCatalogs, Goto, PreviewInv, StatusSteps
    <3> QED BY <2>1, <3>1 DEF PreviewInv, Previewed, StatusSteps
  <2>5. CASE ReadListing \/ ReadServed
    <3>1. /\ step \in {"listing", "served"} /\ step' \in {"done", "rule", "served"}
          /\ step' = "done" => view'.ids = <<>>
      <4>1. step \in {"listing", "served"}
        BY <2>5 DEF ReadListing, ReadServed
      <4>2. \/ \E listing \in Seq(Models) : Take(listing)
            \/ Goto("served")
        BY <2>5, ReadsFind
      <4> QED BY <4>1, <4>2, TakeTyped DEF Goto
    <3> QED BY <2>1, <2>2, <3>1 DEF PreviewInv, Previewed, StatusSteps
  <2>6. CASE ReadPolicy
    <3>1. step = "policy" /\ step' = "done" /\ InForce \in seen
      BY <2>6 DEF ReadPolicy, Goto, PreviewInv
    <3>2. view' = [view EXCEPT !.policy = PreviewPolicy(config)] /\ view \in ViewType
      BY <2>6 DEF ReadPolicy, MInv, ManagedTypeOK, ViewType
    <3>3. view'.policy = PreviewPolicy(config) /\ view'.port = view.port
      BY <3>2 DEF ViewType
    <3>4. PreviewPolicy(config) = PreviewPolicy(InForce)
      BY <2>6, <3>1 DEF ReadPolicy, WantsConfig, InForce, PreviewPolicy
    <3>5. view'.policy = PreviewPolicy(InForce)'
      BY <2>1, <2>2, <3>3, <3>4 DEF PreviewPolicy
    <3> QED BY <2>1, <2>2, <3>1, <3>5 DEF PreviewInv, StatusSteps
  <2> QED BY <1>5, <2>3, <2>4, <2>5, <2>6 DEF Manage
<1> QED BY <1>1, <1>2, <1>3, <1>4, <1>5 DEF ManagedNext

(* Without unsaved edits, the policy a preview marks by denies what the    *)
(* policy of the snapshot denies to the caller, and nothing if there is    *)
(* none.                                                                   *)
LEMMA DeniedUnder ==
    ASSUME Stored, NEW cfg \in Configs, view.policy = PreviewPolicy(cfg),
           NEW id \in Range(view.ids)
    PROVE  id \notin Denied <=>
             ((FilterPort(view.port) /\ HasPolicy(cfg.access, query.scope))
                => Allows(cfg.access[query.scope], id))
<1>1. CASE query.scope = NoScope \/ ~FilterPort(view.port)
  BY <1>1 DEF PreviewPolicy, Denied, HasPolicy
<1> DEFINE stored == IF HasPolicy(cfg.access, query.scope)
                     THEN cfg.access[query.scope] ELSE Unrestricted
<1>2. CASE ~(query.scope = NoScope \/ ~FilterPort(view.port))
  <2>1. stored \in PolicyBodies
    <3>1. Unrestricted \in PolicyBodies
      BY DEF Unrestricted, PolicyBodies
    <3>2. cfg.access \in Tables \cup {NoTable}
      BY DEF Configs
    <3>3. HasPolicy(cfg.access, query.scope) => cfg.access[query.scope] \in PolicyBodies
      BY <3>2 DEF HasPolicy, Tables
    <3> QED BY <3>1, <3>3
  <2>2. view.policy = [stored EXCEPT !.allow = stored.allow, !.deny = stored.deny]
    BY <1>2 DEF PreviewPolicy, Stored
  <2>3. view.policy = stored
    <3> HIDE DEF stored
    <3> QED BY <2>1, <2>2 DEF PolicyBodies
  <2>4. stored # NoPolicy
    BY <2>1, ManagementConstants
  <2>5. id \notin Denied <=> Allows(stored, id)
    <3> HIDE DEF stored
    <3> QED BY <2>3, <2>4 DEF Denied
  <2>6. Allows(Unrestricted, id)
    BY DEF Allows, MatchesAny, Unrestricted
  <2> QED BY <1>2, <2>5, <2>6
<1> QED BY <1>1, <1>2

(* Sorting everything and marking shows what filtering first and sorting   *)
(* afterwards serves.                                                      *)
LEMMA NotGreyedIsServed ==
    ASSUME MInv, Stored, NEW cfg \in Configs, view.policy = PreviewPolicy(cfg)
    PROVE  NotGreyed \in ServedUnder(cfg)
<1> DEFINE ids == view.ids
           n == Len(ids)
           rows == Rows(ids)
           D == DOMAIN ids
           visible == {i \in D : (FilterPort(view.port) /\ HasPolicy(cfg.access, query.scope))
                                    => Allows(cfg.access[query.scope], ids[i])}
           denied == Denied
<1>1. /\ view.rule \in Configs /\ ids \in Seq(Models)
      /\ D = 1 .. n /\ n \in Nat
  BY DEF MInv, ManagedTypeOK
<1>2. IsFiniteSet(D) /\ Cardinality(D) = n /\ D \in SUBSET Int
  <2>1. 1 \in Int /\ n \in Int /\ (1 > n => n = 0)
    BY <1>1
  <2>2. IsFiniteSet(1 .. n) /\ Cardinality(1 .. n) = n
    BY <2>1, FS_Interval
  <2> QED BY <1>1, <2>2
<1>3. \A i \in D : rows[i].key = ids[i] /\ ids[i] \in Models /\ ids[i] \in Range(ids)
  BY <1>1 DEF Rows, Range
<1> HIDE DEF rows
<1>4. StableSorts(view.rule, rows, D) # {}
  <2>1. \A i \in D : rows[i].key \in Models
    BY <1>3
  <2> HIDE DEF D
  <2> QED BY <1>1, <1>2, <2>1, StableSortsExist
<1>5. PICK sorted \in StableSorts(view.rule, rows, D) :
         Ordered = [p \in DOMAIN sorted |-> ids[sorted[p]]]
  BY <1>4 DEF Ordered, Arranged, rows
<1>6. sorted \in [1 .. n -> D]
  BY <1>2 DEF StableSorts, Arrangements, Bijection, Injection
<1>7. Ordered \in Seq(Models) /\ DOMAIN Ordered = 1 .. n
      /\ \A p \in 1 .. n : Ordered[p] = ids[sorted[p]]
  BY <1>1, <1>3, <1>5, <1>6
<1> DEFINE T == {p \in 1 .. n : Ordered[p] \notin denied}
           m == Cardinality(T)
<1>8. NotGreyed = [k \in 1 .. m |-> Ordered[Nth(T, k)]]
  BY <1>7 DEF NotGreyed, Only
<1>9. \A i \in D : ids[i] \notin denied <=> i \in visible
  BY <1>3, DeniedUnder
<1> HIDE DEF visible, denied
<1>10. visible \in SUBSET D
  BY DEF visible
<1>11. \A p \in 1 .. n : p \in T <=> sorted[p] \in visible
  BY <1>6, <1>7, <1>9
<1> DEFINE f == [k \in 1 .. m |-> sorted[Nth(T, k)]]
<1>12. f \in StableSorts(view.rule, rows, visible)
  <2>1. T \in SUBSET (1 .. n)
    OBVIOUS
  <2> HIDE DEF T, D
  <2> QED BY <1>1, <1>2, <1>5, <1>10, <1>11, <2>1, FilteredSortIsSort
<1>13. \A k \in 1 .. m : Nth(T, k) \in T
  <2>1. T \in SUBSET DOMAIN Ordered
    BY <1>7
  <2>2. T \in SUBSET Int /\ IsFiniteSet(T)
    BY <1>7, <2>1, PositionsAreFinite
  <2> HIDE DEF T
  <2> QED BY <2>2, NthFacts
<1>14. NotGreyed = [k \in DOMAIN f |-> ids[f[k]]]
  <2>1. \A k \in 1 .. m : Ordered[Nth(T, k)] = ids[sorted[Nth(T, k)]]
    BY <1>7, <1>13
  <2> QED BY <1>8, <2>1
<1>15. [k \in DOMAIN f |-> ids[f[k]]] \in Arranged(view.rule, ids, visible)
  <2> HIDE DEF f
  <2> QED BY <1>12 DEF Arranged, rows
<1> QED BY <1>14, <1>15 DEF ServedUnder, visible

(* A preview without unsaved edits, less the rows it greys out, is what    *)
(* the caller is served under one snapshot that was in force during the    *)
(* request, for any listing, rule, policy and traffic meanwhile.           *)
(* management.go:289-402.                                                  *)
THEOREM PreviewIsServed == ManagedSpec => []PreviewShowsTheServedListing
<1>1. ManagedInit => PreviewInv
  BY DEF ManagedInit, PreviewInv, StatusSteps, Previewed
<1>2. MInv /\ PreviewInv => PreviewShowsTheServedListing
  <2> SUFFICES ASSUME MInv, PreviewInv, Previewed, Stored
               PROVE  \E cfg \in seen : NotGreyed \in ServedUnder(cfg)
    BY DEF PreviewShowsTheServedListing
  <2>1. PICK cfg \in seen : view.policy = PreviewPolicy(cfg)
    BY DEF PreviewInv
  <2>2. cfg \in Configs
    BY DEF MInv, ManagedTypeOK
  <2> QED BY <2>1, <2>2, NotGreyedIsServed
<1> QED BY <1>1, <1>2, MInvHolds, PreviewStep, PTL DEF ManagedSpec
=============================================================================
