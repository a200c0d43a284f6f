---------------------------- MODULE ListingRules ----------------------------
(***************************************************************************)
(* The pure rules of the plugin: what a visibility policy lets through     *)
(* (policy.go), how a raw configuration is compiled (config.go), which     *)
(* port a listing belongs to (catalog.go) and in which order a             *)
(* configuration puts model ids (order.go).                                *)
(*                                                                         *)
(* Ids, patterns and caller scopes are opaque.  Which ids a pattern        *)
(* matches is the constant Hits, the byte order of ids is the constant     *)
(* IdBefore; module PatternMatch says how the code computes the first.     *)
(***************************************************************************)
EXTENDS Integers, Sequences, FiniteSets, Functions

CONSTANTS
    Models,     \* model ids, as modelItemKey reads them
    NoSlug,     \* an element without a "slug"
    Patterns,   \* patterns an operator may write in order / allow / deny
    Credentials,    \* API keys callers present
    NoCredential,   \* a header that carries none
    Scopes,     \* digests of caller credentials
    Digest,     \* Digest[c]: the caller scope of credential c
    NoScope,    \* the empty scope of a caller that shows no credential
    NoTable,    \* the nil access table of a snapshot built without yaml
    Hits,       \* Hits[cs][p]: ids that pattern p matches, cs = case sensitive.
                \* A pattern that compileMatchers drops ("", "*") hits nothing.
    IdBefore    \* IdBefore[cs]: pairs of ids that compareIDs puts in order

(* A compiled policy, and the access tables: scopes mapped to policies.    *)
PolicyBodies == [allow : SUBSET Patterns, deny : SUBSET Patterns, cs : BOOLEAN]
Tables == UNION {[D -> PolicyBodies] : D \in SUBSET Scopes}

ASSUME RuleConstants ==
    /\ NoSlug \notin Models
    /\ NoScope \notin Scopes
    /\ NoTable \notin Tables
    /\ NoCredential \notin Credentials
    /\ Digest \in [Credentials -> Scopes]
    /\ Hits \in [BOOLEAN -> [Patterns -> SUBSET Models]]
    /\ IdBefore \in [BOOLEAN -> SUBSET (Models \X Models)]

(* compareIDs falls back to the bytes when two ids differ only in case, so *)
(* either way two different ids are never tied.                            *)
ASSUME IdBeforeIsStrictTotalOrder ==
    \A cs \in BOOLEAN : \A a, b, c \in Models :
        /\ <<a, a>> \notin IdBefore[cs]
        /\ a # b => (<<a, b>> \in IdBefore[cs] \/ <<b, a>> \in IdBefore[cs])
        /\ (<<a, b>> \in IdBefore[cs] /\ <<b, c>> \in IdBefore[cs])
              => <<a, c>> \in IdBefore[cs]

-----------------------------------------------------------------------------
(* Listings.  An item is what the code reads out of one array element: its *)
(* identity, its "slug", whether that is its identity (the Codex catalog   *)
(* shape: no "id" and no "name") and whether it carries capability facts.  *)

Items == [key : Models, slug : Models \cup {NoSlug}, slugForm : BOOLEAN, rich : BOOLEAN]

Ports == {"openai", "codex", "claude", "gemini"}

PortFor(format, list) ==
    IF format \in {"claude", "gemini"} THEN format
    ELSE IF \E i \in DOMAIN list : list[i].slugForm THEN "codex"
    ELSE "openai"

FilterPort(port) == port \in {"openai", "codex"}

-----------------------------------------------------------------------------
(* Visibility.                                                             *)

MatchesAny(id, patterns, cs) == \E p \in patterns : id \in Hits[cs][p]

Allows(policy, id) ==
    /\ policy.allow # {} => MatchesAny(id, policy.allow, policy.cs)
    /\ ~MatchesAny(id, policy.deny, policy.cs)

HasPolicy(table, scope) ==
    /\ table # NoTable
    /\ scope # NoScope
    /\ scope \in DOMAIN table

(* Entries without a scope are dropped; of two entries with one scope the  *)
(* first is kept.                                                          *)
CompileAccess(raw) ==
    LET named(s) == {i \in DOMAIN raw : raw[i].scope = s}
        first(s) == CHOOSE i \in named(s) : \A j \in named(s) : i <= j
    IN  [s \in {raw[i].scope : i \in DOMAIN raw} \ {NoScope} |->
            [allow |-> raw[first(s)].allow,
             deny  |-> raw[first(s)].deny,
             cs    |-> raw[first(s)].cs]]

-----------------------------------------------------------------------------
(* Configurations.  `order` is kept raw: a pattern without a usable        *)
(* matcher hits nothing, so it never decides a bucket.                     *)

Configs == [strategy : {"grouped", "name"}, order : Seq(Patterns),
            cs : BOOLEAN, access : Tables \cup {NoTable}]

(* What loadConfig(nil) installs.                                          *)
DefaultConfig ==
    [strategy |-> "grouped", order |-> <<>>, cs |-> FALSE, access |-> NoTable]

-----------------------------------------------------------------------------
(* Order.  The bucket of an id is the first pattern of `order` that hits   *)
(* it; an id without one tails the list.                                   *)

BucketsOf(cfg, id) ==
    IF cfg.strategy = "name" THEN {}
    ELSE {i \in DOMAIN cfg.order : id \in Hits[cfg.cs][cfg.order[i]]}

EarlierBucket(cfg, a, b) ==
    \E i \in BucketsOf(cfg, a) : \A j \in BucketsOf(cfg, b) : i < j

Less(cfg, a, b) ==
    \/ EarlierBucket(cfg, a, b)
    \/ /\ ~EarlierBucket(cfg, b, a)
       /\ <<a, b>> \in IdBefore[cfg.cs]

(* What sort.SliceStable returns for the positions S of a list: all of     *)
(* them once, in order, and ties in the order of arrival.                  *)
StablySorted(cfg, list, order) ==
    \A p, q \in DOMAIN order : p < q =>
        LET a == list[order[p]].key
            b == list[order[q]].key
        IN  /\ ~Less(cfg, b, a)
            /\ Less(cfg, a, b) \/ order[p] < order[q]

Arrangements(S) == Bijection(1 .. Cardinality(S), S)

StableSorts(cfg, list, S) ==
    {order \in Arrangements(S) : StablySorted(cfg, list, order)}

-----------------------------------------------------------------------------
(* Reading an intercepted call.                                            *)

(* An intercepted response.  `chat` says that the call carries a model or  *)
(* a request body; body "garbled" is one parseModelList rejects.           *)
CallType ==
    [readable : BOOLEAN, ok : BOOLEAN, chat : BOOLEAN,
     body : {"empty", "garbled", "list"},
     format : {"openai", "claude", "gemini"},
     auth : Credentials \cup {NoCredential},
     apiKey : Credentials \cup {NoCredential},
     list : Seq(Items)]

IsModelListing(c) == c.ok /\ ~c.chat /\ c.body # "empty"

CallerCredential(c) == IF c.auth # NoCredential THEN c.auth ELSE c.apiKey
CallerScope(c) ==
    IF CallerCredential(c) = NoCredential THEN NoScope
    ELSE Digest[CallerCredential(c)]

Governed(c) == c.readable /\ IsModelListing(c) /\ c.body = "list"
Port(c) == PortFor(c.format, c.list)
Positions(c) == DOMAIN c.list
Keys(c, order_) == [p \in DOMAIN order_ |-> c.list[order_[p]].key]
Identity(c) == [p \in Positions(c) |-> p]

(* resolvePolicy consults the table only for an identified caller on a     *)
(* filtered port.                                                          *)
Identified(c) == FilterPort(Port(c)) /\ CallerScope(c) # NoScope

(* The positions the snapshot cfg leaves visible to the caller of c.       *)
VisibleUnder(cfg, c) ==
    IF Identified(c) /\ HasPolicy(cfg.access, CallerScope(c))
    THEN {i \in Positions(c) : Allows(cfg.access[CallerScope(c)], c.list[i].key)}
    ELSE Positions(c)
=============================================================================
