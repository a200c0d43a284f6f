---------------------------- MODULE AliasReport ----------------------------
(***************************************************************************)
(* POST alias-report: which upstream models have no row in CPA's alias     *)
(* table (alias.go, handleAliasReport in management.go).  The panel sends  *)
(* the channels of the table, the upstream listings it collected and the   *)
(* names every channel covers; the answer proposes a row for each served   *)
(* name that is not covered and says of all the others why it does not.    *)
(*                                                                         *)
(* Channels and names are drawn from small sets; what trimming and folding *)
(* do to them is a constant.  Providers spelled in two ways are one key,   *)
(* and Go's random map order decides which listing it keeps.               *)
(***************************************************************************)
EXTENDS Subsequences, SequencesExt

CONSTANTS
    Spellings,  \* of channels and providers
    Texts,      \* names and aliases, trimmed or not
    None,       \* what trimming leaves of blanks
    Lower,      \* trims and lower-cases a spelling
    Trim,       \* trims a text
    Prefixed    \* Prefixed[c][n]: channel c's prefix before the name n

ASSUME ReportConstants ==
    /\ None \in Spellings \cap Texts
    /\ Lower \in [Spellings -> Spellings]
    /\ \A c \in Spellings : Lower[Lower[c]] = Lower[c]
    /\ Trim \in [Texts -> Texts]
    /\ \A t \in Texts : Trim[Trim[t]] = Trim[t]
    /\ Lower[None] = None /\ Trim[None] = None
    /\ Prefixed \in [Spellings -> [Texts -> Texts]]

Listings == [models : Seq(Texts), hidden : Seq(Texts), origin : {None, "plugin", "auth"}]

-----------------------------------------------------------------------------
(* The request.                                                            *)

LowerAll(names) == {Lower[c] : c \in names} \ {None}

(* The maps that f may become when its keys are lower-cased.               *)
LowerKeys(f) ==
    {g \in [LowerAll(DOMAIN f) -> {f[k] : k \in DOMAIN f}] :
        \A c \in DOMAIN g : \E k \in DOMAIN f : Lower[k] = c /\ g[c] = f[k]}

TrimSet(names) == {Trim[n] : n \in names} \ {None}

-----------------------------------------------------------------------------
(* The report.                                                             *)

NoListing == [models |-> <<>>, hidden |-> <<>>, origin |-> None]
Listing(upstream, c) == IF c \in DOMAIN upstream THEN upstream[c] ELSE NoListing
Readable(listing) == listing.models # <<>> \/ listing.hidden # <<>>

OriginOf(listing) == IF listing.origin = None THEN "plugin" ELSE listing.origin

Source(listing) ==
    [origin |-> IF Readable(listing) THEN OriginOf(listing) ELSE "none",
     total  |-> Len(listing.models) + Len(listing.hidden),
     served |-> Len(listing.models),
     hidden |-> Len(listing.hidden)]

TrimSeq(names) == [i \in DOMAIN names |-> Trim[names[i]]]

(* What becomes of the names of a listing, by their positions.             *)
Served(listing) == TrimSeq(listing.models)
Unnamed(listing) == {i \in DOMAIN listing.models : Served(listing)[i] = None}
Aliased(listing, covered) ==
    {i \in DOMAIN listing.models \ Unnamed(listing) : Served(listing)[i] \in covered}
Missing(listing, covered) ==
    {i \in DOMAIN listing.models \ Unnamed(listing) : Served(listing)[i] \notin covered}

(* Hidden names never reach a client: they are recorded, never judged.     *)
Hidden(listing) == {i \in DOMAIN listing.hidden : Trim[listing.hidden[i]] # None}

(* Mutant: hidden names count as names that need no row.                   *)
IgnoredWithHidden(listing, covered) ==
    Unnamed(listing) \cup Aliased(listing, covered)
        \cup {Len(listing.models) + i : i \in Hidden(listing)}

Ignored(listing, covered) == Unnamed(listing) \cup Aliased(listing, covered)

Because(reason, names) == [i \in DOMAIN names |-> [model |-> names[i], reason |-> reason]]

(* Why a name of the channel has no row; a channel that nothing can be     *)
(* said of is listed too.                                                  *)
Skipped(listing, covered) ==
    IF Readable(listing)
    THEN Because("hidden", Only(TrimSeq(listing.hidden), Hidden(listing)))
            \o Because("aliased", Only(Served(listing), Aliased(listing, covered)))
            \o Because("unnamed", Only(Served(listing), Unnamed(listing)))
    ELSE Because("no upstream", <<None>>)

(* The counters of the report go over all channels.                        *)
InAll(places) == UNION {{c} \X places[c] : c \in DOMAIN places}
Counted(places) == Cardinality(InAll(places))

(* Every channel is judged against the listing of its provider; a provider *)
(* without a channel is only named.  What is missing is kept by channel:   *)
(* the code sorts it for display.                                          *)
Report(channels, upstream, existing) ==
    LET list(c) == Listing(upstream, c)
        covered(c) == IF c \in DOMAIN existing THEN existing[c] ELSE {}
        missing == [c \in channels |->
                      Only(Served(list(c)), Missing(list(c), covered(c)))]
        captured == Counted([c \in channels |-> DOMAIN list(c).models])
    IN  [captured  |-> captured,
         missing   |-> missing,
         ignored   |-> Counted([c \in channels |-> Ignored(list(c), covered(c))]),
         skipped   |-> [c \in channels |-> Skipped(list(c), covered(c))],
         sources   |-> [c \in channels |-> Source(list(c))],
         noChannel |-> [p \in {q \in DOMAIN upstream \ channels : Readable(list(q))} |->
                          Source(list(p))],
         note      |-> captured > 0 /\ \A c \in channels : missing[c] = <<>>]

NothingToCompare == [error |-> "nothing_to_compare"]

(* The answers that a request may get.                                     *)
Answers(channels, upstream, existing) ==
    IF LowerAll(channels) = {} /\ LowerAll(DOMAIN upstream) = {}
    THEN {NothingToCompare}
    ELSE {Report(LowerAll(channels), u, e) :
            u \in LowerKeys(upstream),
            e \in LowerKeys([c \in DOMAIN existing |-> TrimSet(existing[c])])}
=============================================================================
