--------------------------- MODULE PanelAliases ----------------------------
(***************************************************************************)
(* The alias editor of the browser panel (panel.html): it reads CPA's      *)
(* alias table, lets an operator edit a draft, by hand or from the         *)
(* suggestions of the alias report, and writes the channels that changed,  *)
(* one request after the other.  A request that fails ends the save where  *)
(* it is; a save that gets through reads the table again.                  *)
(*                                                                         *)
(* While a save is under way the operator goes on.  The save button is     *)
(* disabled, but whatever redraws the editor, an edit or a look at another *)
(* channel, enables it again: a second save may overlap the first, and a   *)
(* load replaces the draft under both.  Which channel is shown restricts   *)
(* what can be clicked, and is left out; the suggestions go when another   *)
(* one is shown.  The report answers at once.                              *)
(*                                                                         *)
(* CPA is external: it keeps the rows its rules allow, says 404 to a       *)
(* channel left without any, and is edited by others too.                  *)
(***************************************************************************)
EXTENDS AliasReport

CONSTANTS
    Channels,       \* the channels, in the order a save writes them
    Fold,           \* the text that case folding makes of a text
    Extras, Plain,  \* a row's other fields; those of a new row: none
    Tables,         \* alias tables to start from
    Upstreams,      \* what the providers may list
    Typing,         \* what the operator types: <<channel, field, text>>
    NewRows,        \* what the operator adds: <<channel, name, alias>>
    Elsewhere,      \* what others store: <<channel, rows>>
    Savers,         \* saves that may overlap
    EditBound       \* bound: edits, here and elsewhere

Rows == [name : Texts, alias : Texts, extra : Extras]
Names == ToSet(Channels)
IsAliasTable(t) == DOMAIN t \subseteq Names /\ t \in [DOMAIN t -> Seq(Rows)]

ASSUME EditorConstants ==
    /\ Channels \in Seq(Spellings \ {None})
    /\ \A c \in Names : Lower[c] = c
    /\ Fold \in [Texts -> Texts]
    /\ Plain \in Extras
    /\ \A u \in Upstreams : DOMAIN u \subseteq Spellings /\ u \in [DOMAIN u -> Listings]
    /\ Typing \subseteq Names \X {"name", "alias"} \X Texts
    /\ NewRows \subseteq Names \X Texts \X Texts
    /\ EditBound \in Nat

VARIABLES
    server,     \* CPA's alias table
    table,      \* aliasTable: as it was last read
    draft,      \* aliasDraft
    offers,     \* the suggestions whose button can be clicked
    saves,      \* the saves under way
    mine,       \* history: channels edited here since the last read
    written,    \* history: what was written here since the last read
    foreign,    \* history: channels stored by others since the last read
    edits       \* bound: edits so far

editor == <<table, draft, offers>>
history == <<mine, written, foreign>>
vars == <<server, editor, saves, history, edits>>

Row(name, alias, extra) == [name |-> name, alias |-> alias, extra |-> extra]
RowsOf(t, ch) == IF ch \in DOMAIN t THEN t[ch] ELSE <<>>
Put(t, ch, rows) == [c \in DOMAIN t \cup {ch} |-> IF c = ch THEN rows ELSE t[c]]
Without(t, ch) == [c \in DOMAIN t \ {ch} |-> t[c]]

NoSave == [todo |-> <<>>, confirmed |-> <<>>, touched |-> {}]
Idle == [busy |-> FALSE, save |-> NoSave]
Busy(w) == saves[w].busy

-----------------------------------------------------------------------------
(* What CPA keeps of a channel's rows.                                     *)

Foldable(text) == Fold[Trim[text]]

Blank(row) == Trim[row.name] = None \/ Trim[row.alias] = None
SameName(row) == Foldable(row.name) = Foldable(row.alias)
Usable(row) == ~Blank(row) /\ ~SameName(row)
IsFirst(rows, i) == \A j \in 1 .. i - 1 : Foldable(rows[j].alias) # Foldable(rows[i].alias)

Kept(rows) ==
    LET usable == Only(rows, {i \in DOMAIN rows : Usable(rows[i])})
    IN  Only(usable, {i \in DOMAIN usable : IsFirst(usable, i)})

(* What CPA holds has been through its rules, whoever stored it.           *)
ASSUME StoredIsKept ==
    /\ \A t \in Tables :
          IsAliasTable(t) /\ \A ch \in DOMAIN t : Kept(t[ch]) = t[ch]
    /\ Elsewhere \subseteq Names \X Seq(Rows)
    /\ \A other \in Elsewhere : Kept(other[2]) = other[2]

(* Mutant: aliases are compared as they are spelled.                       *)
DroppedRowsBySpelling(rows) ==
    {i \in DOMAIN rows :
        \/ Blank(rows[i]) \/ SameName(rows[i])
        \/ \E j \in 1 .. i - 1 :
              /\ ~Blank(rows[j]) /\ ~SameName(rows[j])
              /\ Trim[rows[j].alias] = Trim[rows[i].alias]}

(* What the panel says that CPA will drop, by position.  The panel's       *)
(* toLowerCase and CPA's EqualFold and ToLower are one Fold here: names    *)
(* that the two languages fold differently do not occur.                   *)
DroppedRows(rows) ==
    {i \in DOMAIN rows :
        \/ Blank(rows[i]) \/ SameName(rows[i])
        \/ \E j \in 1 .. i - 1 :
              /\ ~Blank(rows[j]) /\ ~SameName(rows[j])
              /\ Foldable(rows[j].alias) = Foldable(rows[i].alias)}

-----------------------------------------------------------------------------
(* Which channels changed.                                                 *)

Times(row, rows) == Cardinality({i \in DOMAIN rows : rows[i] = row})
SameRows(a, b) ==
    Len(a) = Len(b) /\ \A i \in DOMAIN a : Times(a[i], a) = Times(a[i], b)

(* Mutant: a channel is compared by its length.                            *)
AliasIsDirtyByLength(t, d, ch) == Len(RowsOf(t, ch)) # Len(RowsOf(d, ch))

(* The order of the rows does not matter, every field of them does.        *)
AliasIsDirty(t, d, ch) == ~SameRows(RowsOf(t, ch), RowsOf(d, ch))

DirtyChannels(t, d) == {ch \in DOMAIN t \cup DOMAIN d : AliasIsDirty(t, d, ch)}

Changed(d) == {ch \in Names : RowsOf(d, ch) # RowsOf(draft, ch)}

(* The saves under way remember which channels were changed since.         *)
Touching(chs) ==
    [w \in Savers |-> IF Busy(w) THEN [saves[w] EXCEPT !.save.touched = @ \cup chs]
                                 ELSE saves[w]]

-----------------------------------------------------------------------------
(* Editing.                                                                *)

Edit(ch, rows) ==
    /\ edits < EditBound
    /\ edits' = edits + 1
    /\ draft' = Put(draft, ch, rows)
    /\ mine' = mine \cup {ch}
    /\ saves' = Touching({ch})
    /\ UNCHANGED <<server, table, written, foreign>>

(* A new row is checked against the rules of CPA that it could break, and  *)
(* has no other fields.                                                    *)
AddAliasRow(ch, name, alias) ==
    /\ ch \in DOMAIN draft
    /\ {Trim[name], Trim[alias]} \cap {None} = {}
    /\ \A i \in DOMAIN draft[ch] : /\ draft[ch][i].name # Trim[name]
                                   /\ Foldable(draft[ch][i].alias) # Foldable(alias)
    /\ Foldable(name) # Foldable(alias)
    /\ Edit(ch, Append(draft[ch], Row(Trim[name], Trim[alias], Plain)))
    /\ UNCHANGED offers

(* Cells take any text.                                                    *)
Type(ch, i, field, text) ==
    /\ draft[ch][i][field] # text
    /\ Edit(ch, [draft[ch] EXCEPT ![i][field] = text])
    /\ UNCHANGED offers

DeleteRow(ch, i) ==
    /\ Edit(ch, RemoveAt(draft[ch], i))
    /\ UNCHANGED offers

(* Showing a channel drops the suggestions for any other.                  *)
DropStaleSuggestions(ch) == offers' = Only(offers, {i \in DOMAIN offers : offers[i][1] = ch})

ShowChannel(ch) ==
    /\ DropStaleSuggestions(ch)
    /\ UNCHANGED <<server, table, draft, saves, history, edits>>

CreateChannel(ch) ==
    /\ ch \notin DOMAIN draft
    /\ Edit(ch, <<>>)
    /\ DropStaleSuggestions(ch)

RevertAliases ==
    /\ DirtyChannels(table, draft) # {}
    /\ draft' = table
    /\ saves' = Touching(Changed(draft'))
    /\ UNCHANGED <<server, table, offers, history, edits>>

(* Mutant: only the names of the rows are sent.                            *)
ExistingNames(d) == [ch \in DOMAIN d |-> {d[ch][i].name : i \in DOMAIN d[ch]}]

(* What the report is told of the table: every name and every alias.       *)
ExistingAliases(d) ==
    [ch \in DOMAIN d |-> UNION {{d[ch][i].name, d[ch][i].alias} : i \in DOMAIN d[ch]}]

AliasReports(d, upstream) == Answers(DOMAIN d, upstream, ExistingAliases(d))

(* The suggestions for one channel.  A name that has a row, or whose alias *)
(* is taken, gets a button that does nothing; nothing judges the others    *)
(* again before they are clicked.                                          *)
ShowAliasSuggestions(ch, upstream) ==
    \E answer \in AliasReports(draft, upstream) :
        LET known(n) == \E i \in DOMAIN draft[ch] : draft[ch][i].name = n
            taken(n) == \E i \in DOMAIN draft[ch] : draft[ch][i].alias = Prefixed[ch][n]
            open(names) == Only(names, {i \in DOMAIN names : ~known(names[i]) /\ ~taken(names[i])})
        IN  /\ offers' = IF answer = NothingToCompare THEN <<>>
                         ELSE [i \in DOMAIN open(answer.missing[ch]) |->
                                 <<ch, open(answer.missing[ch])[i]>>]
            /\ UNCHANGED <<server, table, draft, saves, history, edits>>

Fill(i) ==
    LET ch == offers[i][1]
        name == offers[i][2]
    IN  /\ Edit(ch, Append(RowsOf(draft, ch), Row(name, Prefixed[ch][name], Plain)))
        /\ offers' = RemoveAt(offers, i)

(* Mutant: the answer is taken for the table, not looked into.             *)
AdoptWrapped ==
    /\ table' = [key \in {"oauth-model-alias"} |-> server]
    /\ draft' = server
    /\ mine' = {}
    /\ written' = <<>>
    /\ foreign' = {}

(* Reading replaces the draft with the table.                              *)
Adopt ==
    /\ table' = server
    /\ draft' = server
    /\ mine' = {}
    /\ written' = <<>>
    /\ foreign' = {}

LoadAliases ==
    /\ Adopt
    /\ saves' = Touching(Changed(draft'))
    /\ UNCHANGED <<server, offers, edits>>

-----------------------------------------------------------------------------
(* Saving.                                                                 *)

Steps(kind, chs) ==
    LET order == Only(Channels, {i \in DOMAIN Channels : Channels[i] \in chs})
    IN  [i \in DOMAIN order |-> <<kind, order[i]>>]

(* A channel that lost all its rows is deleted, after the others.          *)
StartSave(w, targets) ==
    LET empty == {ch \in targets : RowsOf(draft, ch) = <<>>}
    IN  /\ ~Busy(w)
        /\ targets # {}
        /\ saves' = [saves EXCEPT ![w] = [busy |-> TRUE, save |->
                       [todo |-> Steps("patch", targets \ empty) \o Steps("delete", empty),
                        confirmed |-> [ch \in targets |-> RowsOf(draft, ch)],
                        touched |-> {}]]]
        /\ UNCHANGED <<server, editor, history, edits>>

(* Mutant: every channel of the draft is written.                          *)
SaveEverything(w) == StartSave(w, DOMAIN draft)

(* The operator confirms the channels that changed and the rows of them    *)
(* that CPA will drop.                                                     *)
SaveAliases(w) == StartSave(w, DirtyChannels(table, draft))

Awaits(w, kind) ==
    /\ Busy(w)
    /\ saves[w].save.todo # <<>>
    /\ Head(saves[w].save.todo)[1] = kind
Channel(w) == Head(saves[w].save.todo)[2]

StepDone(w) == saves' = [saves EXCEPT ![w].save.todo = Tail(@)]

(* Mutant: a row is rebuilt from the two fields the panel edits.           *)
RebuiltPayloadRows(ch) ==
    [i \in DOMAIN RowsOf(draft, ch) |->
        Row(RowsOf(draft, ch)[i].name, RowsOf(draft, ch)[i].alias, Plain)]

(* A write carries whole rows, as they are by now.                         *)
AliasPayloadRows(ch) == RowsOf(draft, ch)

Patch(w) ==
    LET ch == Channel(w)
        rows == Kept(AliasPayloadRows(ch))
    IN  /\ Awaits(w, "patch")
        /\ rows # <<>>
        /\ server' = Put(server, ch, rows)
        /\ written' = Put(written, ch, RowsOf(draft, ch))
        /\ StepDone(w)
        /\ UNCHANGED <<editor, mine, foreign, edits>>

DeleteAliasChannel(w) ==
    LET ch == Channel(w)
    IN  /\ Awaits(w, "delete")
        /\ server' = Without(server, ch)
        /\ written' = Put(written, ch, <<>>)
        /\ StepDone(w)
        /\ UNCHANGED <<editor, mine, foreign, edits>>

(* A request was refused or did not get through, or its answer did not:    *)
(* the rest of the save is not sent.                                       *)
SaveFails(w) ==
    /\ Busy(w)
    /\ saves' = [saves EXCEPT ![w] = Idle]
    /\ UNCHANGED <<server, editor, history, edits>>

(* Everything is written, and the table is read again; when it cannot be   *)
(* read, the editor stays as it is.                                        *)
SaveEnds(w) ==
    /\ Busy(w) /\ saves[w].save.todo = <<>>
    /\ \/ /\ Adopt
          /\ saves' = [Touching(Changed(draft')) EXCEPT ![w] = Idle]
       \/ /\ saves' = [saves EXCEPT ![w] = Idle]
          /\ UNCHANGED <<table, draft, history>>
    /\ UNCHANGED <<server, offers, edits>>

-----------------------------------------------------------------------------
StoreElsewhere(ch, rows) ==
    /\ edits < EditBound
    /\ edits' = edits + 1
    /\ server' = Put(server, ch, rows)
    /\ foreign' = foreign \cup {ch}
    /\ saves' = Touching({ch})
    /\ UNCHANGED <<editor, mine, written>>

Init ==
    /\ server \in Tables
    /\ table = server
    /\ draft = server
    /\ offers = <<>>
    /\ saves = [w \in Savers |-> Idle]
    /\ mine = {} /\ written = <<>> /\ foreign = {}
    /\ edits = 0

Next ==
    \/ \E row \in NewRows : AddAliasRow(row[1], row[2], row[3])
    \/ \E ch \in DOMAIN draft : \E i \in DOMAIN draft[ch] :
          \/ DeleteRow(ch, i)
          \/ \E typed \in Typing : typed[1] = ch /\ Type(ch, i, typed[2], typed[3])
    \/ \E ch \in Names : CreateChannel(ch)
    \/ \E ch \in DOMAIN draft : ShowChannel(ch)
    \/ \E ch \in DOMAIN draft, upstream \in Upstreams : ShowAliasSuggestions(ch, upstream)
    \/ \E i \in DOMAIN offers : Fill(i)
    \/ RevertAliases \/ LoadAliases
    \/ \E w \in Savers :
          \/ SaveAliases(w) \/ Patch(w) \/ DeleteAliasChannel(w)
          \/ SaveFails(w) \/ SaveEnds(w)
    \/ \E other \in Elsewhere : StoreElsewhere(other[1], other[2])

Spec == Init /\ [][Next]_vars

-----------------------------------------------------------------------------
(* Properties.                                                             *)

(* Every variable stays in its type.                                       *)
TypeOK ==
    /\ \A t \in {server, table, draft, written} : IsAliasTable(t)
    /\ offers \in Seq(Names \X Texts)
    /\ \A w \in Savers :
          /\ saves[w].busy \in BOOLEAN
          /\ saves[w].save.todo \in Seq({"patch", "delete"} \X Names)
          /\ IsAliasTable(saves[w].save.confirmed)
          /\ saves[w].save.touched \subseteq Names
    /\ {mine, foreign} \subseteq SUBSET Names
    /\ edits \in 0 .. EditBound

(* What does not look edited is what CPA has: a save that failed half way  *)
(* leaves the mark on every channel it wrote or did not write.  Left out   *)
(* are channels that others stored, and those that were written by such a  *)
(* save and then changed back.  panel.html:1080-1095, 1523-1558.           *)
NothingUnsavedLooksSaved ==
    \A ch \in Names \ foreign :
        \/ AliasIsDirty(table, draft, ch)
        \/ SameRows(RowsOf(server, ch), RowsOf(draft, ch))
        \/ ch \in DOMAIN written /\ written[ch] # RowsOf(draft, ch)

(* The rows announced before a save are the rows CPA will not keep, and    *)
(* the others stay as they are, their other fields included, for texts     *)
(* that both sides fold alike.  panel.html:1434-1476, 1504-1519.           *)
DropsAreAnnounced ==
    \A ch \in DOMAIN draft :
        LET rows == draft[ch]
        IN  Kept(rows) = Only(rows, DOMAIN rows \ DroppedRows(rows))

(* The panel finds fewer rows than it has sent.                            *)
Shortfall(w) ==
    \E ch \in DOMAIN saves[w].save.confirmed :
        /\ saves[w].save.confirmed[ch] # <<>>
        /\ Len(RowsOf(server, ch)) < Len(RowsOf(draft, ch))

(* When a save ends well and the panel finds no row missing, CPA has what  *)
(* was confirmed for every channel that nobody changed meanwhile, whatever *)
(* failed before and whichever saves overlapped.  panel.html:1521-1556.    *)
ConfirmedIsStored ==
    [][\A w \in Savers :
         LET save == saves[w].save
         IN  (Busy(w) /\ ~Busy(w)' /\ save.todo = <<>> /\ table' = server /\ ~Shortfall(w))
                => \A ch \in DOMAIN save.confirmed \ save.touched :
                      RowsOf(server, ch) = save.confirmed[ch]]_vars

(* A save only writes channels that were edited here since the last read:  *)
(* what others stored in the rest survives.  panel.html:1032-1033, 1521.   *)
OnlyEditedChannelsAreSaved ==
    [][\A w \in Savers :
         ~Busy(w) /\ Busy(w)' => DOMAIN saves'[w].save.confirmed \subseteq mine]_vars

Total(lists) == Counted([c \in DOMAIN lists |-> DOMAIN lists[c]])
Listed(listing) ==
    {Trim[n] : n \in ToSet(listing.models)} \cup TrimSet(ToSet(listing.hidden))
Explained(report, ch) ==
    ToSet(report.missing[ch]) \cup {skip.model : skip \in ToSet(report.skipped[ch])}

(* Every name of the listing is proposed or has its reason; without a      *)
(* channel to write to, the provider itself is named.                      *)
Accounted(report, provider, listing) ==
    IF provider \in DOMAIN draft
    THEN Listed(listing) \subseteq Explained(report, provider)
    ELSE Readable(listing) => provider \in DOMAIN report.noChannel

SpelledOnce(upstream, p) == \A q \in DOMAIN upstream : Lower[q] = Lower[p] => q = p

(* The report accounts for every name of every provider that the panel     *)
(* spells in one way, what was captured is missing or ignored, and a       *)
(* channel without a listing is said to have none.  Of a provider that is  *)
(* spelled in two ways one listing is accounted for and the other vanishes *)
(* (alias.go:166-172), although alias.go:52-54 promises a reason for every *)
(* upstream name without a row.  alias.go:43-54, 204-266.                  *)
ReportAccountsForAll ==
    \A upstream \in Upstreams : \A report \in AliasReports(draft, upstream) :
        report # NothingToCompare =>
            /\ report.captured = Total(report.missing) + report.ignored
            /\ \A p \in DOMAIN upstream :
                  (Lower[p] # None /\ SpelledOnce(upstream, p))
                     => Accounted(report, Lower[p], upstream[p])
            /\ \A provider \in LowerAll(DOMAIN upstream) :
                  \E p \in DOMAIN upstream :
                     Lower[p] = provider /\ Accounted(report, provider, upstream[p])
            /\ \A ch \in DOMAIN draft :
                  report.sources[ch].origin = "none" =>
                     report.missing[ch] = <<>> /\ report.skipped[ch] # <<>>

(* Nothing that a row of the table names is proposed, be it by its name or *)
(* by its alias: filling a suggestion takes it off the next report.        *)
(* alias.go:250-255, panel.html:1598-1608.                                 *)
NothingCoveredIsProposed ==
    \A upstream \in Upstreams : \A report \in AliasReports(draft, upstream) :
        report # NothingToCompare =>
            \A ch \in DOMAIN draft : \A i \in DOMAIN draft[ch] :
                {Trim[draft[ch][i].name], Trim[draft[ch][i].alias]}
                    \cap ToSet(report.missing[ch]) = {}
=============================================================================
