----------------------------- MODULE Management -----------------------------
(***************************************************************************)
(* The management routes that read what the interceptor shares             *)
(* (management.go): GET status and POST preview, composed with module      *)
(* Interceptor.  The host answers a management request from a goroutine of *)
(* its own, so intercepted responses and reconfigures happen between the   *)
(* reads of one request.  One request is in progress at a time here.       *)
(***************************************************************************)
EXTENDS Interceptor, Subsequences

CONSTANTS
    Queries,    \* the requests a panel may send
    NoPort,     \* a preview that leaves the choice of port to the plugin
    NoList,     \* an allow or deny list the request does not mention
    NoPolicy    \* the nil policy of an unrestricted preview

QueryType ==
    [kind : {"status", "preview"}, strategy : {"", "grouped", "name"},
     order : Seq(Patterns), cs : BOOLEAN, port : Ports \cup {NoPort},
     ids : Seq(Models), scope : Scopes \cup {NoScope},
     allow : (SUBSET Patterns) \cup {NoList}, deny : (SUBSET Patterns) \cup {NoList}]

ASSUME ManagementConstants ==
    /\ Queries \subseteq QueryType
    /\ Queries # {}
    /\ NoPort \notin Ports
    /\ NoPolicy \notin PolicyBodies

VARIABLES
    newest,     \* the port whose snapshot in `catalog` is the latest
    step,       \* the next read of the management request
    query,      \* the request
    view,       \* what it has read so far
    seen        \* history: the snapshots in force since it began

desk == <<newest, step, query, view, seen>>

Blank == [port |-> NoPort, ids |-> <<>>, rule |-> DefaultConfig,
          policy |-> NoPolicy, ports |-> {}, fullPorts |-> {}]

Recorded(store) == {p \in Ports : store[p] # NoSnapshot}

ManagedInit ==
    /\ Init
    /\ newest = NoPort
    /\ step = "idle"
    /\ query \in Queries
    /\ view = Blank
    /\ seen = {}

Receive(q) ==
    /\ step \in {"idle", "done"}
    /\ query' = q
    /\ view' = [Blank EXCEPT !.port = q.port, !.ids = q.ids]
    /\ seen' = {InForce}
    /\ step' = IF q.kind = "status" THEN "status"
               ELSE IF q.ids # <<>> THEN "rule"
               ELSE IF q.port = NoPort THEN "port" ELSE "listing"
    /\ UNCHANGED <<vars, newest>>

Goto(next) ==
    /\ step' = next
    /\ UNCHANGED <<vars, newest, query, seen>>

-----------------------------------------------------------------------------
(* currentConfig, when nothing was loaded yet: see Interceptor.            *)

WantsConfig ==
    \/ step = "status"
    \/ step = "rule" /\ query.order = <<>> /\ query.strategy = ""
    \/ step = "policy" /\ query.scope # NoScope /\ FilterPort(view.port)

QueryFindsNoConfig ==
    /\ WantsConfig
    /\ config = NoConfig
    /\ Goto(CASE step = "status" -> "statusDefaults"
              [] step = "rule"   -> "ruleDefaults"
              [] OTHER           -> "policyDefaults")
    /\ UNCHANGED view

QueryInitDefaults ==
    /\ step \in {"statusDefaults", "ruleDefaults", "policyDefaults"}
    /\ Install(DefaultConfig)
    /\ step' = CASE step = "statusDefaults" -> "status"
                 [] step = "ruleDefaults"   -> "rule"
                 [] OTHER                   -> "policy"
    /\ seen' = seen \cup {DefaultConfig}
    /\ UNCHANGED <<catalog, fullCatalog, known, pc, locals, accepted,
                   newest, query, view>>

-----------------------------------------------------------------------------
(* GET status.                                                             *)

(* The policies are read through the access table of the snapshot.  The    *)
(* defaults have none: the dereference panics, nothing recovers, and the   *)
(* process is gone.                                                        *)
StatusPolicies ==
    /\ step = "status"
    /\ config # NoConfig
    /\ Goto(IF config.access = NoTable THEN "panic" ELSE "catalogs")
    /\ UNCHANGED view

StatusCatalogs ==
    /\ step = "catalogs"
    /\ view' = [view EXCEPT !.ports = Recorded(catalog)]
    /\ Goto("fullCatalogs")

StatusFullCatalogs ==
    /\ step = "fullCatalogs"
    /\ view' = [view EXCEPT !.fullPorts = Recorded(fullCatalog)]
    /\ Goto("done")

-----------------------------------------------------------------------------
(* POST preview.                                                           *)

(* Without ids of its own a preview arranges the listing of the port it    *)
(* names, or of the newest.                                                *)
ReadPort ==
    /\ step = "port"
    /\ view' = [view EXCEPT !.port = newest]
    /\ Goto("listing")

Snapshot(store) == IF view.port = NoPort THEN NoSnapshot ELSE store[view.port]

(* A port nothing was recorded for, or an empty listing, ends the request. *)
Take(listing) ==
    /\ view' = [view EXCEPT !.ids = listing]
    /\ Goto(IF listing = <<>> THEN "done" ELSE "rule")

(* The listing before the policy for a scoped preview, as served for any   *)
(* other.                                                                  *)
ReadListing ==
    /\ step = "listing"
    /\ LET first == Snapshot(IF query.scope # NoScope THEN fullCatalog ELSE catalog)
       IN  IF first # NoSnapshot THEN Take(first) ELSE Goto("served") /\ UNCHANGED view

(* The second read, of the listing as served, when the first found none.   *)
ReadServed ==
    /\ step = "served"
    /\ Take(IF Snapshot(catalog) = NoSnapshot THEN <<>> ELSE Snapshot(catalog))

(* Mutant: a blank strategy stays blank.                                   *)
ReadRuleBlank ==
    /\ step = "rule"
    /\ WantsConfig => config # NoConfig
    /\ view' = [view EXCEPT !.rule =
                 [strategy |-> query.strategy,
                  order    |-> IF WantsConfig THEN config.order ELSE query.order,
                  cs       |-> query.cs,
                  access   |-> NoTable]]
    /\ Goto("policy")

(* A request without a rule borrows the configured patterns, and only      *)
(* those.                                                                  *)
ReadRule ==
    /\ step = "rule"
    /\ WantsConfig => config # NoConfig
    /\ view' = [view EXCEPT !.rule =
                 [strategy |-> IF query.strategy = "" THEN "grouped" ELSE query.strategy,
                  order    |-> IF WantsConfig THEN config.order ELSE query.order,
                  cs       |-> query.cs,
                  access   |-> NoTable]]
    /\ Goto("policy")

Unrestricted == [allow |-> {}, deny |-> {}, cs |-> FALSE]

(* Mutant: every port is filtered.                                         *)
PreviewPolicyEverywhere(cfg) ==
    IF query.scope = NoScope \/ cfg = NoConfig THEN NoPolicy
    ELSE LET stored == IF HasPolicy(cfg.access, query.scope)
                       THEN cfg.access[query.scope] ELSE Unrestricted
         IN  [stored EXCEPT
                !.allow = IF query.allow = NoList THEN @ ELSE query.allow,
                !.deny  = IF query.deny = NoList THEN @ ELSE query.deny]

PreviewPolicy(cfg) ==
    IF query.scope = NoScope \/ ~FilterPort(view.port) THEN NoPolicy
    ELSE LET stored == IF HasPolicy(cfg.access, query.scope)
                       THEN cfg.access[query.scope] ELSE Unrestricted
         IN  [stored EXCEPT
                !.allow = IF query.allow = NoList THEN @ ELSE query.allow,
                !.deny  = IF query.deny = NoList THEN @ ELSE query.deny]

ReadPolicy ==
    /\ step = "policy"
    /\ WantsConfig => config # NoConfig
    /\ view' = [view EXCEPT !.policy = PreviewPolicy(config)]
    /\ Goto("done")

(* The reply: the ids in order, and those the policy denies among them.    *)
Rows(ids) == [i \in DOMAIN ids |-> [key |-> ids[i]]]
Arranged(rule, ids, S) ==
    {[p \in DOMAIN order_ |-> ids[order_[p]]] : order_ \in StableSorts(rule, Rows(ids), S)}
Ordered == CHOOSE ids \in Arranged(view.rule, view.ids, DOMAIN view.ids) : TRUE
Denied == IF view.policy = NoPolicy THEN {}
          ELSE {id \in Range(view.ids) : ~Allows(view.policy, id)}

(* The rows of the reply that are not greyed out.                          *)
NotGreyed ==
    LET ids == Ordered  denied == Denied
    IN  Only(ids, {p \in DOMAIN ids : ids[p] \notin denied})

-----------------------------------------------------------------------------
(* The interceptor and the lifecycle calls go on meanwhile.                *)

Publishing(r) == pc[r] = "publish" /\ pc'[r] = "done"

Elsewhere ==
    /\ step # "panic"
    /\ Next
    /\ newest' = IF \E r \in Requests : Publishing(r)
                 THEN Port(call[CHOOSE r \in Requests : Publishing(r)])
                 ELSE newest
    /\ seen' = IF step \in {"idle", "done"} THEN seen ELSE seen \cup {InForce'}
    /\ UNCHANGED <<step, query, view>>

Manage ==
    \/ QueryFindsNoConfig \/ QueryInitDefaults
    \/ StatusPolicies \/ StatusCatalogs \/ StatusFullCatalogs
    \/ ReadPort \/ ReadListing \/ ReadServed
    \/ ReadRule \/ ReadPolicy

ManagedNext ==
    \/ Elsewhere
    \/ \E q \in Queries : Receive(q)
    \/ Manage

ManagedSpec == ManagedInit /\ [][ManagedNext]_<<vars, desk>>

-----------------------------------------------------------------------------
(* Properties.                                                             *)

Steps == {"idle", "status", "statusDefaults", "panic", "catalogs", "fullCatalogs",
          "port", "listing", "served", "rule", "ruleDefaults", "policy", "policyDefaults", "done"}

(* Every variable of a management request stays in its type.               *)
ManagedTypeOK ==
    /\ newest \in Ports \cup {NoPort}
    /\ step \in Steps
    /\ query \in Queries
    /\ view \in [port : Ports \cup {NoPort}, ids : Seq(Models), rule : Configs,
                 policy : PolicyBodies \cup {NoPolicy},
                 ports : SUBSET Ports, fullPorts : SUBSET Ports]
    /\ seen \subseteq Configs

Previewed == step = "done" /\ query.kind = "preview" /\ view.ids # <<>>
Stored == query.allow = NoList /\ query.deny = NoList

(* What a caller with this scope would be served of the previewed listing, *)
(* under the previewed rule and the policies of cfg.                       *)
ServedUnder(cfg) ==
    LET visible == {i \in DOMAIN view.ids :
                      (FilterPort(view.port) /\ HasPolicy(cfg.access, query.scope))
                         => Allows(cfg.access[query.scope], view.ids[i])}
    IN  Arranged(view.rule, view.ids, visible)

(* A preview without unsaved edits, less the rows it greys out, is the     *)
(* listing that the caller is served: the runtime filters and then sorts,  *)
(* the preview sorts everything and marks.  This holds under one snapshot  *)
(* in force during the request, and under the rule of the preview only: a  *)
(* request without a rule borrows the patterns and neither the strategy    *)
(* nor the case flag in force, so that its rows may be ordered otherwise   *)
(* than the runtime's (README.md:92-93 says it cannot drift), which this   *)
(* does not speak of.  management.go:289-402.                              *)
PreviewShowsTheServedListing ==
    (Previewed /\ Stored) =>
        \E cfg \in seen : NotGreyed \in ServedUnder(cfg)

(* A status reply that shows the listing of a port also shows it before    *)
(* the policy, whatever is recorded between the two reads.                 *)
(* management.go:247-251.                                                  *)
StatusPortsRestorable ==
    (step = "done" /\ query.kind = "status") => view.ports \subseteq view.fullPorts

(* Claimed by management.go:213-215, refuted: an unconfigured plugin says  *)
(* so plainly.                                                             *)
StatusAnswersUnconfigured == step # "panic"

(* Claimed by management.go:275-276 and 376-379, refuted: a preview        *)
(* without a scope shows the whole listing.                                *)
UnscopedPreviewShowsAll ==
    (Previewed /\ query.scope = NoScope /\ query.ids = <<>> /\ Busy = {})
        => Range(view.ids) = Range(fullCatalog[view.port])
=============================================================================
