-------------------------- MODULE CapabilityFacts --------------------------
(***************************************************************************)
(* The rules of the capability store (capability.go) and of the provider   *)
(* channels that correct it (channels.go): what a Codex catalog teaches,   *)
(* how an id is looked up, and how the opinions of several channels about  *)
(* one model are merged.                                                   *)
(*                                                                         *)
(* A capability keeps the two context windows, the modalities and the      *)
(* reasoning levels.  Levels are a set: orderLevels fixes their order from *)
(* the set alone.                                                          *)
(***************************************************************************)
EXTENDS Integers, Sequences, FiniteSets, Functions, FiniteSetsExt, TLC

CONSTANTS
    Ids,        \* model ids, in any case
    NoId,       \* an id that is blank after trimming
    Folded,     \* Folded[id]: the id in lower case
    Levels,     \* reasoning levels
    NoLevel,    \* no default level
    Modalities,
    Channels    \* channel labels: a provider, with its realm if it names one

ASSUME FactConstants ==
    /\ NoId \notin Ids
    /\ NoLevel \notin Levels
    /\ Folded \in [Ids -> Ids]
    /\ \A id \in Ids : Folded[Folded[id]] = Folded[id]

Capabilities == [context : Nat, maxContext : Nat, modalities : SUBSET Modalities,
                 levels : SUBSET Levels, default : Levels \cup {NoLevel}]

NoFacts == [context |-> 0, maxContext |-> 0, modalities |-> {}, levels |-> {},
            default |-> NoLevel]

-----------------------------------------------------------------------------
(* Learning a catalog.  An entry is the slug and the facts of one element  *)
(* of a Codex catalog body.                                                *)

Entries == [slug : Ids \cup {NoId}, facts : Capabilities]

(* Mutant: an entry without facts is learned as well.                      *)
LearnedWithBlanks(body) ==
    LET about(id) == {i \in DOMAIN body : body[i].slug = id}
    IN  [id \in {body[i].slug : i \in DOMAIN body} \ {NoId} |->
            body[Max(about(id))].facts]

(* Of two entries with one slug the later one counts; an entry without a   *)
(* slug or without facts does not.                                         *)
Learned(body) ==
    LET telling == {i \in DOMAIN body : /\ body[i].slug # NoId
                                        /\ body[i].facts # NoFacts}
        about(id) == {i \in telling : body[i].slug = id}
    IN  [id \in {body[i].slug : i \in telling} |-> body[Max(about(id))].facts]

(* Assigning the entries of f to the map g.                                *)
Over(f, g) ==
    [x \in DOMAIN f \cup DOMAIN g |-> IF x \in DOMAIN f THEN f[x] ELSE g[x]]

EmptyStore == [byID |-> <<>>, lower |-> <<>>, channels |-> <<>>]

(* Go ranges over the learned map in any order, so of two ids that differ  *)
(* only in case either may end up in the folded index.                     *)
Indexings(ids) ==
    {index \in [{Folded[id] : id \in ids} -> ids] :
        \A key \in DOMAIN index : Folded[index[key]] = key}

(* Mutant: an id that is in lower case already is not indexed.             *)
RecordedMixedCaseOnly(store, learned) ==
    {[store EXCEPT !.byID = Over(learned, @), !.lower = Over(index, @)] :
        index \in Indexings({id \in DOMAIN learned : Folded[id] # id})}

(* Mutant: a catalog replaces everything learned before.                   *)
RecordedAnew(store, learned) ==
    {[store EXCEPT !.byID = learned, !.lower = index] :
        index \in Indexings(DOMAIN learned)}

Recorded(store, learned) ==
    {[store EXCEPT !.byID = Over(learned, @), !.lower = Over(index, @)] :
        index \in Indexings(DOMAIN learned)}

(* The stored id that answers for id, exactly or whatever its case.        *)
Resolve(store, id) ==
    IF id \in DOMAIN store.byID THEN id
    ELSE IF Folded[id] \in DOMAIN store.lower THEN store.lower[Folded[id]]
    ELSE NoId

Lookup(store, id) ==
    IF Resolve(store, id) = NoId THEN NoFacts ELSE store.byID[Resolve(store, id)]

-----------------------------------------------------------------------------
(* Channels.  A document is one provider file: a Workbuddy or Qoder        *)
(* catalog, or the model cache inside a Trae credential.                   *)

Tiers == {T \in SUBSET Nat : IsFiniteSet(T)}

Documents ==
    [valid : BOOLEAN, kind : {"workbuddy", "qoder", "trae"}, channel : Channels,
     models : Seq([id : Ids \cup {NoId}, context : Nat, tiers : Tiers,
                   levels : SUBSET Levels])]

Opinions == [channel : Channels, context : Nat, levels : SUBSET Levels]

(* The largest context a model can be asked for; Trae knows no tiers.      *)
ContextMax(doc, model) ==
    IF doc.kind = "trae" THEN model.context ELSE Max({model.context} \cup model.tiers)

(* The opinions of one document, by folded id; the last of two models with *)
(* one id counts.                                                          *)
Parsed(doc) ==
    LET named == IF doc.valid
                 THEN {i \in DOMAIN doc.models : doc.models[i].id # NoId} ELSE {}
        about(id) == {i \in named : Folded[doc.models[i].id] = id}
    IN  [id \in {Folded[doc.models[i].id] : i \in named} |->
            LET model == doc.models[Max(about(id))]
            IN  [channel |-> doc.channel, context |-> ContextMax(doc, model),
                 levels |-> model.levels]]

(* One opinion per channel and model: the one with the largest context,    *)
(* the first of those in the order the files are read.                     *)
Gathered(docs) ==
    LET parsed == [i \in DOMAIN docs |-> Parsed(docs[i])]
        about(id) == {i \in DOMAIN docs : id \in DOMAIN parsed[i]}
        opinion(i, id) == parsed[i][id]
        ahead(i, j, id) ==
            \/ opinion(i, id).context > opinion(j, id).context
            \/ opinion(i, id).context = opinion(j, id).context /\ i < j
        kept(id) == {i \in about(id) : \A j \in about(id) \ {i} :
                        opinion(i, id).channel = opinion(j, id).channel
                            => ahead(i, j, id)}
    IN  [id \in UNION {DOMAIN parsed[i] : i \in DOMAIN docs} |->
            {opinion(i, id) : i \in kept(id)}]

(* Context is the smallest of the known maxima, reasoning the union.       *)
AggregateContext(opinions) ==
    LET known == {o.context : o \in opinions} \ {0}
    IN  IF known = {} THEN 0 ELSE Min(known)

AggregateLevels(opinions) == UNION {o.levels : o \in opinions}

(* Mutant: the larger of the two windows keeps what one channel said.      *)
CorrectedHalf(facts, opinions) ==
    LET context == AggregateContext(opinions)
        levels  == AggregateLevels(opinions)
    IN  [facts EXCEPT !.context = IF context > 0 THEN context ELSE @,
                      !.levels  = IF levels # {} THEN levels ELSE @]

Corrected(facts, opinions) ==
    LET context == AggregateContext(opinions)
        levels  == AggregateLevels(opinions)
    IN  [facts EXCEPT
            !.context    = IF context > 0 THEN context ELSE @,
            !.maxContext = IF context > 0 THEN context ELSE @,
            !.levels     = IF levels # {} THEN levels ELSE @,
            !.default    = IF levels # {} THEN NoLevel ELSE @]

Contested(table) == {id \in DOMAIN table : Cardinality(table[id]) >= 2}

(* Mutant: the new table is merged into the previous one.                  *)
AppliedOnTop(store, table) ==
    LET correcting(key) == {id \in Contested(table) : Resolve(store, id) = key}
    IN  [store EXCEPT
            !.channels = Over(table, @),
            !.byID = [key \in DOMAIN store.byID |->
                        IF correcting(key) = {} THEN store.byID[key]
                        ELSE Corrected(store.byID[key],
                                       UNION {table[id] : id \in correcting(key)})]]

(* applyChannelFacts: the table replaces the previous one, and a model     *)
(* that several channels serve is corrected under the id it is stored by.  *)
Applied(store, table) ==
    LET correcting(key) == {id \in Contested(table) : Resolve(store, id) = key}
    IN  [store EXCEPT
            !.channels = table,
            !.byID = [key \in DOMAIN store.byID |->
                        IF correcting(key) = {} THEN store.byID[key]
                        ELSE Corrected(store.byID[key],
                                       UNION {table[id] : id \in correcting(key)})]]
=============================================================================
