# Verification of model-registry

TLA+ models of the `model-registry` plugin for CLIProxyAPI (CPA), the TLC runs that check
them on small instances, and TLAPS proofs of the properties that matter most for every
instance. Paths such as `intercept.go:54` name the plugin's source.

## 1. The system

The plugin is one shared library in CPA's process. CPA calls `handleMethod` (main.go) from a
goroutine of its own for every HTTP response, management request and lifecycle event, so all
of the plugin's package-level state is shared by concurrent callers.

| Component | State | Operations | Interacts with |
|---|---|---|---|
| Response interceptor (main.go, intercept.go, splice.go) | locals of one call | `handleInterceptResponse`, `governBody`, `resolvePolicy`, `reorder` | reads the snapshot twice, the capability store once per entry, writes both catalogs and (Codex) the capability store |
| Visibility policies, caller identity (policy.go, identity.go) | none | `allows`, `matchesAny`, `lookup`, `callerScope` | pure, used by interceptor and preview |
| Configuration (config.go) | `configStore`, an atomic pointer | `loadConfig`, `currentConfig`, `compileAccessPolicies` | written by register/reconfigure, and by whoever first reads it unset |
| Ordering (order.go) | none | `compileMatchers`, `classify`, `match`, `comparer`, `sortIDs` | pure, used by interceptor, policies and preview |
| Listing catalogs (catalog.go) | `catalog`, `fullCatalog`: last listing per port, as served and before the policy | `record`, `get`, `list` | written by the interceptor, read by management |
| Capability store (capability.go) | `byID`, `lower`, `channels` | `recordCodexCatalog`, `lookup`, `backfill`, `applyChannelFacts` | written by Codex traffic and by the refresh, read by the interceptor |
| Provider channel facts (channels.go) | files of other plugins | `gatherProviderFacts`, three parsers, `aggregateChannels` | read by the refresh |
| Background refresh (catalogfetch.go) | `catalogFetch`: cancel function, interval, last outcome | `startCatalogRefresh`, `stopAndWait`, `refreshCatalogOnce` | one goroutine per accepted lifecycle call; asks CPA's own listener |
| Management routes (management.go) | none | `statusPayload`, `handlePreview`, `previewPolicy`, alias report | reads every store |
| Alias report (alias.go, management.go) | none | `handleAliasReport`, `buildAliasReport` | pure function of a request of the panel: the table's channels, the upstream listings it collected, the names already covered |
| Panel, visibility (panel.html:400-650) | `denyDrafts`, `knownDeny`, `state.policies`, the chain of writes | a click, `queueVisibilityWrite`, `buildAccessTable`, `load` | replaces the `access` key through CPA's PATCH; CPA reconfigures the plugin some time later |
| Panel, alias editor (panel.html:1032-1720) | `aliasTable`, `aliasDraft`, the drawn suggestions | `loadAliases`, edits, `saveAliases`, `revertAliases`, suggestions | CPA's alias table, one PATCH or DELETE per channel; asks the alias report |
| Panel, the rest | sort and order editor, list of API keys, preview | rendering, `schedulePreview` | the plugin's routes |
| Host ABI (main.go) | base paths | `cliproxyPluginCall`, registration | CPA |

What is hard here: a listing reads the snapshot once to filter and again to sort; a "changed"
flag, collected over three transformations, decides whether the client gets the governed body
or CPA's own bytes; the defaults are installed lazily; refresh loops are cancelled but not
waited for, so generations overlap; two writers that spell ids differently share the
capability store; status and preview read several stores one after the other. In the browser,
writes replace whole tables from what the page remembers, fail half way, lose their answers, and
overlap with further clicks, reloads and other clients of CPA.

What makes each part correct:

- *Interceptor*: the answer is CPA's listing, filtered and stably sorted by snapshots that were
  in force while the call ran; nothing hidden comes back; what is known is filled in.
- *Configuration*: a refused configuration changes nothing; the accepted one is in force.
- *Ordering*: the comparator is a strict total order; a pattern matches only what it denotes.
- *Refresh*: exactly one live loop if an endpoint is configured; cancelled loops end; failures
  are retried; nothing learned is lost; contested models are corrected (of a model that catalogs
  spell in two ways, only what the folded spelling looks up: section 3).
- *Management*: a preview shows what the caller is served; whatever is shown can be restored.
- *Alias report*: every name a provider serves is proposed or explained and every hidden one
  explained, as long as the provider is spelled in one way (section 3); nothing a row names is
  proposed.
- *Visibility in the panel*: in the end CPA holds what the screen shows, a failed write leaves no
  unsaved click on the screen, and labels and allow lists survive every write. What the screen
  shows is the last click only if no failed write rolled it back (section 3).
- *Alias editor*: what does not look edited is what CPA has; what CPA will drop is announced; a
  save that ends well has stored what was confirmed, and writes channels edited here only.

## 2. Modules

| Module | Models | Lines |
|---|---|---|
| `ListingRules` | pure rules: policies, access table, ports, comparator, stable sort, call classification | policy.go, identity.go, config.go, order.go, catalog.go |
| `Interceptor` | calls interleaving with lifecycle calls at every shared access | main.go, intercept.go, config.go, capability.go |
| `ListingPromise` | what a client is promised (abstract specification) | — |
| `Management` | status and preview requests, composed with `Interceptor` | management.go |
| `CapabilityFacts` | pure rules of the capability store and the provider files | capability.go, channels.go |
| `CatalogRefresh` | refresh loops, cancellation, status record, live traffic | catalogfetch.go, main.go |
| `Subsequences` | what a loop over a list that appends some elements to a new one yields, by rank and without recursion | management.go, alias.go, panel.html |
| `PatternMatch` | the pattern compiler and matcher over short words, against what the syntax denotes | order.go:77-178 |
| `PanelVisibility` | hiding and restoring models, composed with CPA and its hot reload | panel.html:400-650, 885-902 |
| `AliasReport` | the alias report as an operator of the request | alias.go, management.go:161-211 |
| `PanelAliases` | the alias editor, composed with the report and with CPA's table | panel.html:1032-1720 |
| `SubsequencesProofs`, `ListingRulesProofs`, `InterceptorProofs`, `ManagementProofs`, `CatalogRefreshProofs`, `PatternMatchProofs`, `PanelVisibilityProofs`, `PanelAliasesProofs` | theorems and proofs | |
| `MCInterceptor`, `MCManagement`, `MCCatalogRefresh`, `MCPanelVisibility`, `MCPanelAliases` | constants of the runs | |

`Management` extends `Interceptor`, which extends `ListingRules`; `CatalogRefresh` extends
`CapabilityFacts`; `PanelAliases` extends `AliasReport`; `Management`, `PatternMatch` and
`AliasReport` extend `Subsequences`. `Interceptor` instantiates `ListingPromise` with a
refinement mapping.
Operators whose comment starts with *Mutant* are wrong versions of the operator after them;
no specification uses them. They show that the properties can tell the difference.

### How state and actions correspond to the code

**Interceptor.** A slot of `Requests` is a call in flight; `pc` names the next access to shared
state. Elements of the array are named by their position in CPA's body, so duplicates stay
apart and "verbatim" needs no bytes: `kept` is `list.elements` after the filter, `order` the
arrangement, `changed` the flag. `Capture` covers parsing and `fullCatalog.record`;
`Filter` and `Reorder` each read the snapshot, preceded by `…FindsNoConfig` and `InitDefaults`
where it is unset (the load and the store of `currentConfig` are separate steps);
`StartBackfill`, `Inject`, `EndBackfill` are the lock sections of `backfill`;
`LearnCodex` is `recordCodexCatalog`, which files an entry under its `slug`, also when its `id` is another, and
skips one that has none; `Publish` is `catalog.record` and the return.
`Configure` is an accepted lifecycle call, `RejectConfigure` a refused one; an unreadable
request or one without yaml loads the defaults, as `configureFromRequest` does. The variables
`accepted` and `during` are history and guide no action (a host that registers first waits until
`accepted` is set). Of the capability store this module keeps which ids have facts, and of an
entry whether it carries facts already; ids are exact here (folding is in `CapabilityFacts`).
`Hits` and `IdBefore` stand for the matcher and the byte comparison; the runs give them values
for mixed-case ids.

**Management.** One request at a time walks through the reads of `statusPayload` or
`handlePreview` (`step`; the three lock sections in which a preview finds its listing are
`ReadPort`, `ReadListing` and `ReadServed`), while `Elsewhere` takes any step of the interceptor. `newest` is what
sorting snapshots by `SeenAt` finds. `NotGreyed` are the rows of a preview that the panel does not
grey out, in the order of the preview. A nil access table makes status panic; the step `"panic"`
is the end of the process, hence `CHECK_DEADLOCK FALSE` in these runs.

**CatalogRefresh.** A loop is a record with its place in the loop (`pc`), whether its context is
cancelled, its period, and the body, table and outcome it carries between steps. A lifecycle
call is `LoadConfig`, `StopLoop` (`stopAndWait`), then `StartLoop` or `LeaveLoopOff`. `Wake` and
`Quit` are the two cases of a select, both possible when both are ready. `Request`, `NoAnswer`,
`FetchFails`, `Answered`, `ReadFails`, `Learn`, `Gather`, `Apply`, `Report` are the steps of
`refreshCatalogOnce` between which another goroutine can act. Names of loops are reused when a
loop has ended, so a lifecycle call of the model waits until one of them is free.
The environment is the listener (`source`), the provider files (`disk`) and `LiveCatalog`.
`Recorded` is a set because Go ranges over the learned map in any order: of two spellings of
one id either may end up in the folded index.

**PatternMatch.** `Classify` is `compileMatchers` followed by `classify` for one trimmed and
folded pattern; `Split` takes the pieces between the wildcards (`Cut`), and `Consumed` keeps how
much of the id `globMatch` has cut off `rest` after each segment. `Denotes` is the reference
definition: `Covered` holds the lengths of the prefixes of the id that the first symbols of the
pattern can stand for.

**PanelVisibility.** `draft`, `known` and `policies` are the page's `denyDrafts`, `knownDeny` and
`state.policies`; a table maps a scope to its deny set and to `kept`, the label and allow list
that only pass through the browser (`case_sensitive`, which status reports too, does not survive
it: section 5). `queue` is the promise chain, `flight` the write in progress
with the table it carries: `Send` builds that table from the drafts of the moment, `Store` is CPA
taking it, `Confirm` and `RollBack` are the two ways the promise settles. `RollBack` is possible
after `Store` too, when only the answer was lost; a request that failed is never stored
afterwards. `HotReload` hands CPA's configuration to the plugin some time later, `Load` reads
what the plugin has in force, and `EditElsewhere` is another client. `last` and `edited` are
history and, but for the bound on edits elsewhere, guide no action.

**AliasReport.** `Answers` is the set of replies a request may get: two spellings of one provider
fold to one key, and Go's random map order decides whose listing stays. Trimming, folding and
the channel's prefix (`providerPrefix`) are constants, since the report only compares what they
return. Names are judged by their positions in the listing (`Served`, `Aliased`, `Missing`), the loops'
appends are `Only`, the counters `Counted`. `missing` and `skipped` are kept by channel; their
sorting for display is left out.

**PanelAliases.** `server` is CPA's table, `table` and `draft` what was last read and what is
edited; both are replaced by `Adopt` whenever the table is read. A save (`Savers`) is a list of
requests still to be sent: `Patch` sends the rows *as they are by then*, `DeleteAliasChannel`
follows for channels without rows, `SaveFails` ends it at any request and `SaveEnds` reads the
table again, or fails to. The save button is disabled while a save runs but every redraw of the
editor enables it, so the model lets saves overlap. `Kept` is what CPA makes of a channel's rows
(external, as panel.html:1434-1452 describes it), `DroppedRows` the panel's own copy of those
rules. Both compare with one `Fold`, so texts that Go's `EqualFold` and JavaScript's
`toLowerCase` fold differently do not occur. `ShowAliasSuggestions` draws buttons from a report on the current draft; `Fill` clicks one
without judging it again. `confirmed` and `touched` of a save, `mine`, `written` and `foreign`
are history. A channel that is listed without rows is never dirty, so the panel's
`|| []` (panel.html:1488-1489) makes no difference and `RowsOf` stands for it.

What these two take for one step: reading a status reply, reading the alias table, answering a
report. The names of alias channels are lower case, as CPA stores them. Which tab or channel is shown
restricts what can be clicked and is left out.

## 3. Runs

| Run | Question | Bounds |
|---|---|---|
| `interceptor_race` | Do two interleaved listings, reconfigures and lazy defaults keep every rule, and the promise? | 2 calls in flight, an OpenAI listing of 2 entries, a Codex one and an unfiltered Claude one, a configuration that restricts and one that lifts; calls symmetric |
| `interceptor_inputs` | Do the rules hold for every kind of input, and is every call answered? | 1 call in flight, 6 calls (both credential headers, shuffled, partly rich, a Codex entry whose slug and id differ, Claude, empty, chat, garbled), 6 payloads (grouped, case sensitive with a dropped pattern and an allow list, by name, unknown strategy, bad refresh, unreadable); the host registers first |
| `interceptor_eager` | *Refuted:* does the accepted configuration stay in force if traffic comes first? | as race, 1 call |
| `management_views` | Do previews show what is served, and is every shown port editable? | 1 call in flight, 6 requests |
| `management_status` | *Refuted:* does status answer an unconfigured plugin? | |
| `management_unscoped` | *Refuted:* does a preview without a scope show the whole listing? | |
| `refresh` | One live loop, nothing forgotten, contested models corrected; does the refresh recover and converge, and do cancelled loops end? | 2 loops; a configuration with an endpoint and one whose endpoint is malformed, so that loops come and go with one period (that the period is the configuration's is proved for any: `LoopFollows`); a listener that fails at every point, answers with nothing, or lists a model under one spelling; live traffic under another; two provider files that change; 272,568 states |
| `refresh_gap` | *Refuted:* does the missing endpoint stay reported? | |
| `pattern_match` | Does a pattern match only what it denotes, and all of it unless its last segment also occurs before the end of the id? | all patterns up to 5 symbols over two letters and `*`, all ids up to 5 letters |
| `pattern_globs` | *Refuted:* does a usable pattern match everything it denotes? | as pattern_match |
| `panel_visibility` | Is what the screen shows saved and enforced in the end, whatever fails, is reloaded or edited elsewhere? | 2 keys, one with an allow list, 1 model, `QueueBound` 2 waiting writes, `EditBound` 1 key edited elsewhere; 495,468 states |
| `panel_aliases` | Does a save that fails half way, or overlaps another, stay visible, and does the report account for every name of a provider spelled in one way? | 2 channels, rows that collide in case or blanks, 2 sets of upstream listings (a repeated and a hidden name, two spellings, no listing, no channel), 2 overlapping saves, `EditBound` 3 edits here and elsewhere; saves symmetric; 247,310 states |

Why the bounds suffice. Two calls are enough for every conflict over a store: a call only
reads its own locals and the stores, and properties relate one call to the stores. Two entries
are the least a sort or a filter can get wrong, the three ids of the instance have different
byte and folded orders. Two loops are one live and one cancelled generation; a third can only
repeat what the second does, and the proofs cover any number. Five symbols hold two wildcards
between three segments and a segment that occurs twice. Two keys
are one that is written and one that is carried along in the same table; two waiting writes and
one in flight are a write before, between and after two clicks. Three edits make a channel dirty,
change it while a save is under way, and let another client write in between; two saves are
enough for a request of one to land between two of the other. `QueueBound` and `EditBound` are
the only bounds in guards: no other variable counts, intervals are taken from the configurations
and time is abstract.

Fairness. `Interceptor!FairSpec`: a goroutine with a call in progress keeps running; nobody owes
another call. `CatalogRefresh!FairSpec`: a lifecycle call in progress and each loop keep running
(goroutines are scheduled, timers fire, `catalogFetchTimeout` bounds a request); `Quit` is
strongly fair because Go's `select` picks a ready case at random, so a cancelled loop that comes
back to its sleep again and again does not miss the context for ever. Nothing is assumed of
reconfigures, traffic, the listener or the files; the liveness properties state the settling
they need as a premise, and the run reaches settled and unsettled behaviours alike.
`PanelVisibility!FairSpec`: the promise chain goes on when a write ends, a request settles one way
or the other, and CPA notices a changed configuration; nobody owes a click, a reload or a
successful write. `PanelAliases` claims safety only: an operator may leave a save's dialog open.

What the refuted runs show, with the text they contradict, is under `findings` in PROJECT.json:
lazy defaults overwriting a registration, a cancelled loop erasing the report of a missing
endpoint, status panicking on a nil access table, unscoped previews showing a filtered listing,
and globs that miss ids they denote because `globMatch` takes the first occurrence of the last
segment too (`a*b` misses `abab`).

Three more disagreements between text and code lie inside the passing models. The properties
there state what the code does keep, and their comments name the case:

- A click queued behind a write that fails is rolled back with it, and its own write stores the
  draft as rolled back, although panel.html:592-594 and 599-601 say that the last write contains
  every click before it. `ScreenIsSaved` and `LastClickTakesEffect` speak of what the screen shows.
- If catalogs taught two spellings of one model, `resolveKey` (capability.go:241-249) corrects one
  record, and a lookup in the other's exact spelling (capability.go:138) stays uncorrected,
  although capability.go:195-197 promises the aggregate for every model that several channels
  serve. `RefreshCorrects` speaks of every spelling of a model stored once (`StoredOnce`), and of
  the folded one otherwise.
- Of two listings whose providers differ only in case or blanks one overwrites the other
  (alias.go:166-172), and its names get neither a row nor a reason, although alias.go:52-54 says
  that every name without a row is listed. `ReportAccountsForAll` speaks of all names of a
  provider spelled once, and of one whole listing of any other.

Two behaviours a reader may not expect contradict no text: live Codex traffic overwrites
corrections until the next refresh (capability.go:120; `RefreshCorrects` speaks of the moment of a
refresh), and of two overlapping saves the DELETE of the first may land after the PATCH of the
second, which only the panel's comparison after the reload tells (`Shortfall` in
`ConfirmedIsStored`). A preview without a rule borrows the configured patterns but neither the
strategy nor the case flag, and so may drift from what is served in spite of README.md:92-93 of
the plugin; `PreviewShowsTheServedListing` compares under the rule of the preview.

## 4. Proofs

All theorems hold for every value of the constants that satisfies the named assumptions
(`RuleConstants`, `IdBeforeIsStrictTotalOrder`, `InterceptorConstants`, `InputTypes`,
`ManagementConstants`; `FactConstants`, `RefreshConstants`; `MatchConstants`; `PanelConstants`;
`ReportConstants`, `EditorConstants`, `StoredIsKept`). The assumptions say that sentinels differ
from real values (an empty listing is not "no snapshot"), that inputs have their types, that
`compareIDs` never ties two different ids, that folding and trimming are idempotent, that a
wildcard is no letter, and that an alias table CPA holds, or is given by another client, has been
through CPA's own rules. TLC evaluates them in the runs.

Every safety invariant and action property of the passing runs is stated by a theorem.

**SubsequencesProofs.** The lemmas that take the place of induction over data. `LeastNatural` gives
the least counterexample, `RunsExist` a solution of a recursion over `1 .. n` whose step is a
function; with them the rank of a position counts from one without gaps (`RankFacts`, `NthFacts`,
`NthIsTheEnumeration`), a subsequence has the elements of its positions in their order
(`OnlyFacts`), and a subsequence of a subsequence is one (`OnlyOfOnly`).

**ListingRulesProofs.** `LessIsStrictTotalOrder`: the comparator is irreflexive, transitive and
total under every configuration, which `sort.SliceStable` needs. `FirstEntryWins`:
`compileAccessPolicies` yields a table in which the first entry of each scope counts.
`SortIsDetermined`: a configuration arranges a set of positions in exactly one stable order, so
that an invariant which says "stably sorted" leaves no choice. `ArrivalOrderIsIrrelevant`: two
listings of the same models without repetitions are served in the same order. `FilteredSortIsSort`:
striking elements from a stably sorted listing is stably sorting what remains.

**InterceptorProofs.** `TypeCorrect` proves `TypeOK`. The visible and sorted properties are not
inductive, since they speak of finished calls; `IInv` adds what each stage has established:
after the filter, `kept` is what one snapshot of the call's window leaves visible, and `changed`
is set if that is less than the body (`Filtered`); after the sort, `order` is a stable
arrangement of `kept` under a snapshot of the window, and the identity if nothing changed
(`Sorted`). Windows only grow, so a stage once established stays (`StageKept`).
`StagesHold` proves `IInv` invariant; `ServedVisible` and `ServedSorted` follow; `PromiseKept`
maps every step to one of `ListingPromise` or a stutter, using that an unchanged answer is the
identity arrangement (`ServedIsOrder`).

Its second part has three invariants of what calls share. `CaptureInv`: a call past its
capture has the pre-policy listing of its port recorded, and recorded ports stay recorded, so
whatever is served is restorable (`PortsRestorable`). `FactsInv`: known ids only grow, and an
entry `Inject` has passed either carried facts, or was filled and the call marked changed, or was
not known when the call began; a finished OpenAI call therefore serves what was known
(`FactsServed`). `RegisteredFirst`: with a host that registers before it sends traffic no call
ever finds the snapshot unset, so the defaults are never installed over it (`AcceptedStays`;
without that premise run `interceptor_eager` refutes it).

**ManagementProofs.** `MInv` joins `TypeOK` and `CaptureInv` of the interceptor with the desk's
own part: while a status request waits to read the second catalog, every port it saw in the first
is recorded in the second. The interceptor's steps keep that because recorded ports stay, which
is where the order of the two reads matters. `ManagedTyped` and `StatusRestorable` follow.
`PreviewIsServed` compares two algorithms: a preview sorts everything and marks what is denied, the
interceptor filters and then sorts. `PreviewInv` keeps that the snapshot in
force is among those seen during the request and that the policy of a preview, once read, is that
of one of them; `FilteredSortIsSort` does the rest.

**CatalogRefreshProofs.** `LoopFollowsConfig` speaks of the moments between
lifecycle calls; `RInv` says what holds during them: an uncancelled loop is the one `current`
names, `current` names an uncancelled loop, no loop is held between `StopLoop` and the start, and
outside a lifecycle call a loop is held exactly if an endpoint is configured, with its period.
`RInvHolds` and `LoopFollows` follow, for any number of loops and any periods. `SInv` adds
the store: `WellFormed` says that every folded key leads to a stored record and every stored
record is found through the key its id folds to. Learning, correcting and live traffic keep it
(`StoreKept`), so `FoundBySpelling` and `NothingForgotten` hold; `RefreshTyped` needs it too, since
a loop may only report what the step before decided (`ReportsKnown`). `AppliedAgrees` proves of
the correction itself that afterwards what a lookup returns of a contested model agrees with all
of its channels: in every spelling if one is stored, whichever that is, and in the folded one if
several are; `RefreshesCorrect` says it of every refresh.

**PanelVisibilityProofs.** That CPA holds the drafts when the queue is empty comes from the write
that was just confirmed, so `IInv` follows a draft from the moment its write is sent: either the
scope waits for another write, or the table in flight, and later CPA's, says what its draft says
(`FlightHasDrafts`, `FlightIsStored`, `StoredHasDrafts`). Labels and allow lists are the same
wherever they are kept (`RestIsKept`), and what has an entry has a draft (`EntriesHaveDrafts`), so
no write drops an entry. `TypeCorrect`, `SavedInTheEnd`, `NothingUnsavedIsShown`, `BaselineIsTrue`
and `FieldsSurvive` follow for any keys, tables and edits elsewhere, and for clicks without end.

**PatternMatchProofs.** Matcher and denotation are two recursions over words of any length. Both
are brought to one form: the segments between the wildcards can be *placed* in the id one after
the other, the first at the start and the last at the end. `DenotesByPlacement` shows it of the
denotation; `ShortcutsAreFaithful` shows that the exact, prefix, suffix and contains matchers say
the same; a glob that matches has placed its segments where they occurred first, hence
`NoPatternReachesFurther`; and the first occurrences of the segments before the last never consume
more of the id than a placement does, so that a wildcard at the end, or a last segment that occurs
at the end of the id only, is found: `OnlyRepeatedEndingsCanMiss`. That every recursive function
here has the values its definition says is proved too, with `RunsExist`. Bounds of the behaviour
are any natural numbers.

**PanelAliasesProofs.** What CPA keeps of a channel's rows is exactly what the panel does not
announce as dropped (`KeptByPosition`): CPA looks at the usable rows only, the panel at all of
them, and `AnnouncedDropsHold` says they agree. The report: names and counters are sets of
positions, so that what was captured is split into proposed and ignored (`JudgedIsSplit`,
`CountedSplit`) and every name of the listing that was read is in one of the places of the report
(`ChannelIsExplained`); a provider spelled once keeps its listing, whence `ReportsAccount`.
`CoveredStaysCovered` follows too, for every reply a request may get.
The editor's invariants, over `TypeInv`:
`UneditedAsRead` says that a channel nobody edited since the last read is as it was read, which
`OnlyEditedAreSaved` needs. `StoredInv` follows a channel through saves and reads: where nobody else
stored, CPA holds what was read or what it keeps of the rows last written (`HeldAsWritten`), and
what is read is clean, since a clean set of rows is one CPA keeps as it is; `UnsavedIsMarked`
follows. `ConfirmedInv` follows a save from its dialog to its end: a confirmed channel that
nobody touched meanwhile still has the confirmed rows in the draft, and its request is still to be
sent, or CPA holds what it keeps of them, or nothing after the DELETE of an overlapping save
(`AsConfirmed`); `ConfirmedRowsAreStored` follows for any number of overlapping saves.

Only model-checked: liveness (`CallsAreAnswered`, `RecoversFromFailure`, `ChannelsBecomeCurrent`,
`CancelledLoopsEnd`, `QueuedWritesAreSent`, `LastClickTakesEffect`), which is out of the prover's
reach, and the refuted claims, which TLC refutes by example.

## 5. Not modelled

- JSON splicing (`parseModelList` offsets, `render`): bytes are positions here. A body is
  garbled or a list.
- Which fields `injectCapability` writes; `orderLevels`, `ContextDefault`: no decision reads them.
- `compactStrings`, trimming and header spelling: inputs are trimmed ids and credentials.
- Host serialisation: `CatalogRefresh` lets one lifecycle call run at a time. `stopAndWait` and
  the start are separate critical sections, so overlapping calls could leave two live loops;
  this is a listed hazard.
- Shutdown: `cliproxyPluginShutdown` is empty, nothing calls `stopCatalogRefresh` outside tests.
- Of the panel: the sort and order editor, the list of API keys, previews and their debouncing
  (replies are not ordered, a listed hazard; no write depends on what they drew), the collecting
  of upstream listings, rendering.
- `case_sensitive` of an access entry: `statusPayload` reports it (management.go:230) and the page
  receives it, but `buildAccessTable` (panel.html:636-643) does not write it back, so the first
  click on any key loses it for every entry (a listed hazard). The entries of `PanelVisibility`
  hold the label and the allow list, which panel.html:628-629 promises to keep, and
  `OtherFieldsSurvive` says nothing of the flag.
- Registration, cgo buffers, HTML rendering, build and test scripts.

## 6. Plan

Done, in this order because every client sees the interceptor first: `ListingRules`,
`Interceptor` with `ListingPromise`, `CapabilityFacts` with `CatalogRefresh`, `Management`,
`PatternMatch`; then the browser's side, `PanelVisibility`, `AliasReport` and `PanelAliases`; the
proofs of every safety and action property, from the interceptor to the alias editor and the
matcher.

Left, most useful first:

1. Overlapping lifecycle calls in `CatalogRefresh`, and what "replacing any loop already
   running" (catalogfetch.go:109) then means.
2. The fields `injectCapability` merges (capability.go:252 and after).
3. Preview requests that are answered out of order (panel.html:786).
