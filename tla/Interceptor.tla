---------------------------- MODULE Interceptor ----------------------------
(***************************************************************************)
(* The response interceptor (main.go, intercept.go) with the stores it     *)
(* shares: the atomic configuration snapshot (config.go), the two listing  *)
(* catalogs (catalog.go) and the capability store, of which this module    *)
(* keeps only which ids have facts: module CapabilityFacts has the rest.   *)
(*                                                                         *)
(* CPA calls the plugin from one goroutine per HTTP response, so calls     *)
(* interleave with each other and with a reconfigure at every access to a  *)
(* shared store.  A call is a slot of Requests; `pc` says which access it  *)
(* makes next.  The array elements of a listing are named by their         *)
(* position in the body CPA sent.                                          *)
(***************************************************************************)
EXTENDS ListingRules

CONSTANTS
    Requests,       \* slots for calls in flight
    Calls,          \* what the host may hand to response.intercept_after
    Payloads,       \* what the host may hand to plugin.register/reconfigure
    NoConfig,       \* the nil snapshot before anything was loaded
    NoSnapshot,     \* a port no listing was recorded for
    RegisterFirst   \* TRUE: the host sends no traffic before a configuration
                    \* was accepted.  The code does not rely on it.

ASSUME InterceptorConstants ==
    /\ RegisterFirst \in BOOLEAN
    /\ NoConfig \notin Configs
    /\ NoSnapshot \notin Seq(Models)

(* A lifecycle request: unreadable JSON, JSON without yaml, or a yaml      *)
(* section that is sound or not.                                           *)
PayloadType ==
    [readable : BOOLEAN, yaml : BOOLEAN, wellFormed : BOOLEAN,
     strategy : {"", "grouped", "name", "unknown"},
     order : Seq(Patterns), cs : BOOLEAN,
     access : Seq([scope : Scopes \cup {NoScope}, allow : SUBSET Patterns,
                   deny : SUBSET Patterns, cs : BOOLEAN]),
     refreshOk : BOOLEAN]

ASSUME InputTypes ==
    /\ Calls \subseteq CallType
    /\ Calls # {}
    /\ Payloads \subseteq PayloadType

VARIABLES
    config,         \* configStore: the active snapshot
    catalog,        \* the last served listing of each port
    fullCatalog,    \* the last pre-policy listing of each port
    known,          \* ids the capability store has facts for
    pc,             \* the next shared access of each call
    call,           \* its input
    kept,           \* positions still in list.elements
    todo,           \* positions backfill has not visited yet
    filled,         \* positions backfill rewrote
    changed,        \* the flag of governBody
    order,          \* the arrangement reorder produced
    accepted,       \* history: the snapshot of the last accepted lifecycle call
    during          \* history: per call, the snapshots in force since it began
                    \* and the ids with facts when it began

stores == <<config, catalog, fullCatalog, known>>
locals == <<call, kept, todo, filled, changed, order>>
vars == <<stores, pc, locals, accepted, during>>

-----------------------------------------------------------------------------
(* The configuration store.                                                *)

InForce == IF config = NoConfig THEN DefaultConfig ELSE config

Busy == {r \in Requests : pc[r] \notin {"idle", "done"}}

Install(cfg) ==
    /\ config' = cfg
    /\ during' = [r \in Requests |->
                    IF r \in Busy
                    THEN [during[r] EXCEPT !.configs = @ \cup {cfg}]
                    ELSE during[r]]

Accepts(p) ==
    (p.readable /\ p.yaml) =>
        (p.wellFormed /\ p.strategy # "unknown" /\ p.refreshOk)

(* Mutant: a missing strategy is stored as it came.                        *)
CompiledKeepingBlank(p) ==
    IF ~p.readable \/ ~p.yaml THEN DefaultConfig
    ELSE [strategy |-> p.strategy, order |-> p.order, cs |-> p.cs,
          access |-> CompileAccess(p.access)]

(* The snapshot loadConfig builds.  An unreadable request, or one without  *)
(* yaml, loads the defaults.                                               *)
Compiled(p) ==
    IF ~p.readable \/ ~p.yaml THEN DefaultConfig
    ELSE [strategy |-> IF p.strategy = "" THEN "grouped" ELSE p.strategy,
          order    |-> p.order,
          cs       |-> p.cs,
          access   |-> CompileAccess(p.access)]

Configure(p) ==
    /\ Accepts(p)
    /\ Install(Compiled(p))
    /\ accepted' = Compiled(p)
    /\ UNCHANGED <<catalog, fullCatalog, known, pc, locals>>

(* Mutant: a refused configuration falls back to the defaults.             *)
RejectConfigureResetting(p) ==
    /\ ~Accepts(p)
    /\ Install(DefaultConfig)
    /\ UNCHANGED <<catalog, fullCatalog, known, pc, locals, accepted>>

RejectConfigure(p) ==
    /\ ~Accepts(p)
    /\ UNCHANGED vars

(* currentConfig found no snapshot and stores the defaults; the caller     *)
(* then loads again.  The load and the store are separate.                 *)
InitDefaults(r) ==
    /\ pc[r] \in {"filterDefaults", "reorderDefaults"}
    /\ Install(DefaultConfig)
    /\ pc' = [pc EXCEPT ![r] =
                IF @ = "filterDefaults" THEN "filter" ELSE "reorder"]
    /\ UNCHANGED <<catalog, fullCatalog, known, locals, accepted>>

-----------------------------------------------------------------------------
(* The steps of one intercepted response.                                  *)

AfterFilter(c) ==
    CASE Port(c) = "codex"  -> "learn"
      [] Port(c) = "openai" -> "backfill"
      [] OTHER              -> "reorder"

Init ==
    /\ config = NoConfig
    /\ catalog = [p \in Ports |-> NoSnapshot]
    /\ fullCatalog = [p \in Ports |-> NoSnapshot]
    /\ known = {}
    /\ pc = [r \in Requests |-> "idle"]
    /\ call \in [Requests -> {CHOOSE c \in Calls : TRUE}]
    /\ kept = [r \in Requests |-> {}]
    /\ todo = [r \in Requests |-> {}]
    /\ filled = [r \in Requests |-> {}]
    /\ changed = [r \in Requests |-> FALSE]
    /\ order = [r \in Requests |-> <<>>]
    /\ accepted = NoConfig
    /\ during = [r \in Requests |-> [configs |-> {}, known |-> {}]]

Begin(r, c) ==
    /\ pc[r] \in {"idle", "done"}
    /\ RegisterFirst => accepted # NoConfig
    /\ call' = [call EXCEPT ![r] = c]
    /\ kept' = [kept EXCEPT ![r] = Positions(c)]
    /\ todo' = [todo EXCEPT ![r] = {}]
    /\ filled' = [filled EXCEPT ![r] = {}]
    /\ changed' = [changed EXCEPT ![r] = FALSE]
    /\ order' = [order EXCEPT ![r] = <<>>]
    /\ during' = [during EXCEPT ![r] = [configs |-> {InForce}, known |-> known]]
    /\ UNCHANGED <<config, catalog, known, accepted>>

(* Not readable, not a listing, or not a model array: no body is returned  *)
(* and the host keeps its own bytes.                                       *)
PassThrough(r, c) ==
    /\ ~Governed(c)
    /\ Begin(r, c)
    /\ pc' = [pc EXCEPT ![r] = "done"]
    /\ UNCHANGED fullCatalog

(* Mutant: the pre-policy listing is filed under the answer's format, so a *)
(* Codex listing is taken for an OpenAI one.                               *)
CaptureByFormat(r, c) ==
    /\ Governed(c)
    /\ Begin(r, c)
    /\ fullCatalog' =
         [fullCatalog EXCEPT ![PortFor(c.format, <<>>)] = Keys(c, Identity(c))]
    /\ pc' = [pc EXCEPT ![r] = IF Identified(c) THEN "filter" ELSE AfterFilter(c)]

(* Mutant: the pre-policy listing is recorded where a policy may apply.    *)
CaptureForPolicies(r, c) ==
    /\ Governed(c)
    /\ Begin(r, c)
    /\ fullCatalog' = IF Identified(c)
                      THEN [fullCatalog EXCEPT ![Port(c)] = Keys(c, Identity(c))]
                      ELSE fullCatalog
    /\ pc' = [pc EXCEPT ![r] = IF Identified(c) THEN "filter" ELSE AfterFilter(c)]

(* The listing is parsed and its pre-policy entries are recorded.          *)
Capture(r, c) ==
    /\ Governed(c)
    /\ Begin(r, c)
    /\ fullCatalog' = [fullCatalog EXCEPT ![Port(c)] = Keys(c, Identity(c))]
    /\ pc' = [pc EXCEPT ![r] = IF Identified(c) THEN "filter" ELSE AfterFilter(c)]

FilterFindsNoConfig(r) ==
    /\ pc[r] = "filter"
    /\ config = NoConfig
    /\ pc' = [pc EXCEPT ![r] = "filterDefaults"]
    /\ UNCHANGED <<stores, locals, accepted, during>>

(* Mutant: hiding an entry is not reported as a change.                    *)
FilterUnreported(r) ==
    /\ pc[r] = "filter"
    /\ config # NoConfig
    /\ kept' = [kept EXCEPT ![r] = VisibleUnder(config, call[r])]
    /\ pc' = [pc EXCEPT ![r] = AfterFilter(call[r])]
    /\ UNCHANGED <<stores, call, todo, filled, changed, order, accepted, during>>

(* Mutant: the Codex port is not filtered.                                 *)
FilterOpenAIOnly(r) ==
    /\ pc[r] = "filter"
    /\ config # NoConfig
    /\ kept' = [kept EXCEPT ![r] =
                  IF Port(call[r]) = "openai" THEN VisibleUnder(config, call[r]) ELSE @]
    /\ changed' = [changed EXCEPT ![r] = @ \/ kept'[r] # Positions(call[r])]
    /\ pc' = [pc EXCEPT ![r] = AfterFilter(call[r])]
    /\ UNCHANGED <<stores, call, todo, filled, order, accepted, during>>

Filter(r) ==
    /\ pc[r] = "filter"
    /\ config # NoConfig
    /\ kept' = [kept EXCEPT ![r] = VisibleUnder(config, call[r])]
    /\ changed' = [changed EXCEPT ![r] = @ \/ kept'[r] # Positions(call[r])]
    /\ pc' = [pc EXCEPT ![r] = AfterFilter(call[r])]
    /\ UNCHANGED <<stores, call, todo, filled, order, accepted, during>>

(* A Codex listing teaches the store what its visible entries declare,     *)
(* each under its slug, also where an entry has another identity.          *)
LearnCodex(r) ==
    /\ pc[r] = "learn"
    /\ known' = known \cup {call[r].list[i].slug :
                              i \in {j \in kept[r] : /\ call[r].list[j].slug # NoSlug
                                                     /\ call[r].list[j].rich}}
    /\ pc' = [pc EXCEPT ![r] = "reorder"]
    /\ UNCHANGED <<config, catalog, fullCatalog, locals, accepted, during>>

(* backfill looks once whether the store is empty, then takes the lock     *)
(* again for every element.                                                *)
StartBackfill(r) ==
    /\ pc[r] = "backfill"
    /\ todo' = [todo EXCEPT ![r] = IF known = {} THEN {} ELSE kept[r]]
    /\ pc' = [pc EXCEPT ![r] = "inject"]
    /\ UNCHANGED <<stores, call, kept, filled, changed, order, accepted, during>>

(* Mutant: filling an entry in is not reported as a change.                *)
InjectUnreported(r) ==
    /\ pc[r] = "inject"
    /\ \E i \in todo[r] :
        LET item == call[r].list[i]
            hit  == item.key \in known /\ ~item.rich
        IN  /\ \A j \in todo[r] : i <= j
            /\ todo' = [todo EXCEPT ![r] = @ \ {i}]
            /\ filled' = [filled EXCEPT ![r] = IF hit THEN @ \cup {i} ELSE @]
    /\ UNCHANGED <<stores, pc, call, kept, changed, order, accepted, during>>

Inject(r) ==
    /\ pc[r] = "inject"
    /\ \E i \in todo[r] :
        LET item == call[r].list[i]
            hit  == item.key \in known /\ ~item.rich
        IN  /\ \A j \in todo[r] : i <= j
            /\ todo' = [todo EXCEPT ![r] = @ \ {i}]
            /\ filled' = [filled EXCEPT ![r] = IF hit THEN @ \cup {i} ELSE @]
            /\ changed' = [changed EXCEPT ![r] = @ \/ hit]
    /\ UNCHANGED <<stores, pc, call, kept, order, accepted, during>>

(* Mutant: backfill stops only once every entry was filled in.             *)
EndBackfillWhenAllFilled(r) ==
    /\ pc[r] = "inject"
    /\ filled[r] = kept[r]
    /\ pc' = [pc EXCEPT ![r] = "reorder"]
    /\ UNCHANGED <<stores, locals, accepted, during>>

EndBackfill(r) ==
    /\ pc[r] = "inject"
    /\ todo[r] = {}
    /\ pc' = [pc EXCEPT ![r] = "reorder"]
    /\ UNCHANGED <<stores, locals, accepted, during>>

ReorderFindsNoConfig(r) ==
    /\ pc[r] = "reorder"
    /\ config = NoConfig
    /\ pc' = [pc EXCEPT ![r] = "reorderDefaults"]
    /\ UNCHANGED <<stores, locals, accepted, during>>

(* Mutant: moving an entry is not reported as a change.                    *)
ReorderUnreported(r) ==
    /\ pc[r] = "reorder"
    /\ config # NoConfig
    /\ \E sorted \in StableSorts(config, call[r].list, kept[r]) :
        order' = [order EXCEPT ![r] = sorted]
    /\ pc' = [pc EXCEPT ![r] = "publish"]
    /\ UNCHANGED <<stores, call, kept, todo, filled, changed, accepted, during>>

(* Mutant: the sort starts again from the list as it was parsed.           *)
ReorderParsed(r) ==
    /\ pc[r] = "reorder"
    /\ config # NoConfig
    /\ \E sorted \in StableSorts(config, call[r].list, Positions(call[r])) :
        /\ order' = [order EXCEPT ![r] = sorted]
        /\ changed' = [changed EXCEPT ![r] =
                         @ \/ \E p \in DOMAIN sorted : sorted[p] # p]
    /\ pc' = [pc EXCEPT ![r] = "publish"]
    /\ UNCHANGED <<stores, call, kept, todo, filled, accepted, during>>

(* Mutant: a list that was rewritten already is left in its order.         *)
ReorderUntouched(r) ==
    /\ pc[r] = "reorder"
    /\ config # NoConfig
    /\ \E sorted \in Arrangements(kept[r]) :
        /\ IF changed[r]
           THEN \A p, q \in DOMAIN sorted : p < q => sorted[p] < sorted[q]
           ELSE StablySorted(config, call[r].list, sorted)
        /\ order' = [order EXCEPT ![r] = sorted]
        /\ changed' = [changed EXCEPT ![r] =
                         @ \/ \E p \in DOMAIN sorted : sorted[p] # p]
    /\ pc' = [pc EXCEPT ![r] = "publish"]
    /\ UNCHANGED <<stores, call, kept, todo, filled, accepted, during>>

(* The second, separate read of the snapshot.  Once the filter removed an  *)
(* entry `changed` is set already, so comparing a position with the        *)
(* original one decides exactly as the code's comparison in the filtered   *)
(* slice does.                                                             *)
Reorder(r) ==
    /\ pc[r] = "reorder"
    /\ config # NoConfig
    /\ \E sorted \in StableSorts(config, call[r].list, kept[r]) :
        /\ order' = [order EXCEPT ![r] = sorted]
        /\ changed' = [changed EXCEPT ![r] =
                         @ \/ \E p \in DOMAIN sorted : sorted[p] # p]
    /\ pc' = [pc EXCEPT ![r] = "publish"]
    /\ UNCHANGED <<stores, call, kept, todo, filled, accepted, during>>

(* The served listing is recorded and the answer returned: the spliced     *)
(* body when `changed`, no body otherwise.                                 *)
Publish(r) ==
    /\ pc[r] = "publish"
    /\ catalog' = [catalog EXCEPT ![Port(call[r])] = Keys(call[r], order[r])]
    /\ pc' = [pc EXCEPT ![r] = "done"]
    /\ UNCHANGED <<config, fullCatalog, known, locals, accepted, during>>

Handle(r) ==
    \/ InitDefaults(r)
    \/ FilterFindsNoConfig(r) \/ Filter(r)
    \/ LearnCodex(r)
    \/ StartBackfill(r) \/ Inject(r) \/ EndBackfill(r)
    \/ ReorderFindsNoConfig(r) \/ Reorder(r)
    \/ Publish(r)

Next ==
    \/ \E p \in Payloads : Configure(p) \/ RejectConfigure(p)
    \/ \E r \in Requests : \E c \in Calls : PassThrough(r, c) \/ Capture(r, c)
    \/ \E r \in Requests : Handle(r)

Spec == Init /\ [][Next]_vars

(* A goroutine that is running a call is scheduled; nobody owes the plugin *)
(* another call or another configuration.                                  *)
FairSpec == Spec /\ \A r \in Requests : WF_vars(Handle(r))

-----------------------------------------------------------------------------
(* Properties.                                                             *)

PcType == {"idle", "filter", "filterDefaults", "learn", "backfill", "inject",
           "reorder", "reorderDefaults", "publish", "done"}

StoresTyped ==
    /\ config \in Configs \cup {NoConfig}
    /\ accepted \in Configs \cup {NoConfig}
    /\ catalog \in [Ports -> Seq(Models) \cup {NoSnapshot}]
    /\ fullCatalog \in [Ports -> Seq(Models) \cup {NoSnapshot}]
    /\ known \in SUBSET Models

CallTyped(r) ==
    /\ kept[r] \in SUBSET Positions(call[r])
    /\ todo[r] \in SUBSET Positions(call[r])
    /\ filled[r] \in SUBSET Positions(call[r])
    /\ order[r] \in Seq(Positions(call[r]))

CallsTyped ==
    /\ pc \in [Requests -> PcType]
    /\ call \in [Requests -> Calls]
    /\ changed \in [Requests -> BOOLEAN]
    /\ during \in [Requests -> [configs : SUBSET Configs, known : SUBSET Models]]
    /\ DOMAIN kept = Requests /\ DOMAIN todo = Requests
    /\ DOMAIN filled = Requests /\ DOMAIN order = Requests
    /\ \A r \in Requests : CallTyped(r)

(* Every variable stays in its type: in particular a call never works on a *)
(* position that is not in the body it was given.                          *)
TypeOK == StoresTyped /\ CallsTyped

Answered(r) == pc[r] = "done" /\ Governed(call[r])

(* What the client receives: the governed listing, or the host's own bytes *)
(* when the plugin returned no body.                                       *)
Served(r) == IF changed[r] THEN order[r] ELSE Identity(call[r])

(* The client receives exactly the entries that one snapshot in force      *)
(* during the call lets its caller see: nothing hidden comes back by the   *)
(* sort, by a concurrent reconfigure or by an "unchanged" answer that      *)
(* keeps the host's bytes, and nothing visible is lost.  governBody,       *)
(* intercept.go:54-67 and 88-92.                                           *)
ServedIsVisible ==
    \A r \in Requests : Answered(r) =>
        \E cfg \in during[r].configs :
            Range(Served(r)) = VisibleUnder(cfg, call[r])

(* The client receives its entries in the order of one snapshot in force   *)
(* during the call, also when the plugin reports "unchanged".  reorder,    *)
(* intercept.go:119-145.                                                   *)
ServedIsSorted ==
    \A r \in Requests : Answered(r) =>
        \E cfg \in during[r].configs :
            StablySorted(cfg, call[r].list, Served(r))

(* On the OpenAI port every served entry whose facts were known when the   *)
(* call began is served with facts, whatever is learned meanwhile.         *)
(* backfill, capability.go:157-177.                                        *)
KnownFactsAreServed ==
    \A r \in Requests : (Answered(r) /\ Port(call[r]) = "openai") =>
        \A i \in Range(Served(r)) :
            LET item == call[r].list[i]
            IN  item.key \in during[r].known =>
                    item.rich \/ (i \in filled[r] /\ changed[r])

(* A port the panel can show as served can also be shown unfiltered, so a  *)
(* denied row stays restorable.  intercept.go:45-52.                       *)
ServedPortsAreRestorable ==
    \A p \in Ports : catalog[p] # NoSnapshot => fullCatalog[p] # NoSnapshot

(* The snapshot in force is the last one a lifecycle call installed; the   *)
(* defaults that currentConfig installs lazily never replace it.           *)
(* config.go:137-148.                                                      *)
AcceptedConfigInForce == accepted # NoConfig => config = accepted

(* Every intercepted response is answered.                                 *)
CallsAreAnswered == \A r \in Requests : r \in Busy ~> pc[r] = "done"

-----------------------------------------------------------------------------
(* The interceptor keeps the promise of module ListingPromise: each call   *)
(* appears to be governed at once, by snapshots that were in force while   *)
(* it ran.                                                                 *)
Phases == [r \in Requests |-> IF pc[r] \in {"idle", "done"} THEN pc[r] ELSE "busy"]
Windows == [r \in Requests |-> during[r].configs]
Answers == [r \in Requests |-> IF pc[r] = "done" THEN Served(r) ELSE <<>>]

Promise == INSTANCE ListingPromise WITH
    inForce <- InForce, phase <- Phases, asked <- call,
    window <- Windows, answer <- Answers

KeepsPromise == Promise!Spec
=============================================================================
