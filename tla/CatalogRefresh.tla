--------------------------- MODULE CatalogRefresh ---------------------------
(***************************************************************************)
(* The background refresh of the capability store (catalogfetch.go): the   *)
(* loop goroutine every accepted lifecycle call starts anew, the context   *)
(* that cancels the previous one, the status record both write, and the    *)
(* other writer of the store, live Codex traffic (capability.go).          *)
(*                                                                         *)
(* A cancelled loop ends only when it looks at its context: at its sleeps  *)
(* and in the HTTP client.  Everything after the body was read goes on.    *)
(* The three sleeps of a loop (start, retry, ticker) differ in length      *)
(* only, and time is abstract.                                             *)
(***************************************************************************)
EXTENDS CapabilityFacts

CONSTANTS
    Loops,      \* names for loop goroutines; a name is free again when its
                \* loop has ended, and a lifecycle call waits for a free one
    NoLoop,
    Configs,    \* accepted configurations: what a refresh needs of them
    NoConfig,
    Sources,    \* CPA's listener: one that serves a listing, or a failing one,
                \* which is unreachable, answers an error or too late, breaks
                \* off, or serves a body that teaches nothing, each time anew
    Disks,      \* what the provider files may hold
    Traffic,    \* Codex listings clients may request
    HasConfigDir    \* os.UserConfigDir works

ASSUME RefreshConstants ==
    /\ NoLoop \notin Loops
    /\ NoConfig \notin Configs
    /\ Configs \subseteq [base : {"blank", "absolute", "malformed"}, key : BOOLEAN,
                    interval : Nat]
    /\ Sources \subseteq [kind : {"failing", "listing"}, body : Seq(Entries)]
    /\ Disks \subseteq Seq(Documents)
    /\ Traffic \subseteq Seq(Entries)
    /\ HasConfigDir \in BOOLEAN

VARIABLES
    config,     \* the active snapshot
    lifecycle,  \* the next step of the register/reconfigure call, if any
    current,    \* the loop catalogFetch.cancel belongs to
    interval,   \* catalogFetch.interval
    loop,       \* the loop goroutines
    status,     \* lastErr, and whether a refresh ever succeeded
    store,      \* the capability store
    source,     \* environment: what CPA's listener answers now
    disk        \* environment: the provider files

environment == <<source, disk>>
fetcher == <<config, lifecycle, current, interval>>
vars == <<fetcher, loop, status, store, environment>>

(* A blank base means CPA's own address; a key is always needed.           *)
Endpoint(cfg) == cfg.base # "malformed" /\ cfg.key

DefaultInterval == 3600
Interval(cfg) == IF cfg.interval = 0 THEN DefaultInterval ELSE cfg.interval

Ended == [pc |-> "none", cancelled |-> FALSE, period |-> 0,
          body |-> <<>>, table |-> <<>>, outcome |-> "none"]

(* The state in which a loop starts, and to which every refresh returns.   *)
Asleep(cancelled, period) ==
    [Ended EXCEPT !.pc = "asleep", !.cancelled = cancelled, !.period = period]

Init ==
    /\ config = NoConfig
    /\ lifecycle = "idle"
    /\ current = NoLoop
    /\ interval = 0
    /\ loop = [l \in Loops |-> Ended]
    /\ status = [err |-> "", ok |-> FALSE]
    /\ store = EmptyStore
    /\ source \in Sources
    /\ disk \in Disks

-----------------------------------------------------------------------------
(* plugin.register and plugin.reconfigure.  The host makes one such call   *)
(* at a time.  A refused configuration changes nothing here.               *)

LoadConfig(cfg) ==
    /\ lifecycle = "idle"
    /\ config' = cfg
    /\ lifecycle' = "stop"
    /\ UNCHANGED <<current, interval, loop, status, store, environment>>

(* Mutant: the cancel function is dropped without being called.            *)
StopLoopForgetting ==
    /\ lifecycle = "stop"
    /\ current' = NoLoop
    /\ lifecycle' = "start"
    /\ UNCHANGED <<config, interval, loop, status, store, environment>>

StopLoop ==
    /\ lifecycle = "stop"
    /\ loop' = [l \in Loops |-> IF l = current /\ loop[l].pc # "none"
                                THEN [loop[l] EXCEPT !.cancelled = TRUE]
                                ELSE loop[l]]
    /\ current' = NoLoop
    /\ lifecycle' = "start"
    /\ UNCHANGED <<config, interval, status, store, environment>>

StartLoop(l) ==
    /\ lifecycle = "start"
    /\ Endpoint(config)
    /\ loop[l].pc = "none"
    /\ loop' = [loop EXCEPT ![l] = Asleep(FALSE, Interval(config))]
    /\ current' = l
    /\ interval' = Interval(config)
    /\ lifecycle' = "idle"
    /\ UNCHANGED <<config, status, store, environment>>

(* Without a usable endpoint the gap is recorded and no loop runs.         *)
LeaveLoopOff ==
    /\ lifecycle = "start"
    /\ ~Endpoint(config)
    /\ interval' = Interval(config)
    /\ status' = [status EXCEPT !.err = "endpoint"]
    /\ lifecycle' = "idle"
    /\ UNCHANGED <<config, current, loop, store, environment>>

-----------------------------------------------------------------------------
(* A loop.                                                                 *)

Goto(l, pc) == loop' = [loop EXCEPT ![l].pc = pc]

(* The refresh is over but for its report; body and table are garbage.     *)
Finish(l, outcome) ==
    loop' = [loop EXCEPT ![l].pc = "report", ![l].outcome = outcome,
                         ![l].body = <<>>, ![l].table = <<>>]

(* Mutant: once the store is filled the loop waits for its ticker alone.   *)
QuitBeforeTicker(l) ==
    /\ loop[l].pc = "asleep"
    /\ loop[l].cancelled
    /\ ~status.ok
    /\ loop' = [loop EXCEPT ![l] = Ended]
    /\ UNCHANGED <<fetcher, status, store, environment>>

(* select on the context and a timer: either when both are ready.          *)
Quit(l) ==
    /\ loop[l].pc = "asleep"
    /\ loop[l].cancelled
    /\ loop' = [loop EXCEPT ![l] = Ended]
    /\ UNCHANGED <<fetcher, status, store, environment>>

Wake(l) ==
    /\ loop[l].pc = "asleep"
    /\ Goto(l, "fetch")
    /\ UNCHANGED <<fetcher, status, store, environment>>

(* The snapshot is read anew.  A cancelled context keeps the request from  *)
(* being sent, and that is not reported.                                   *)
Request(l) ==
    /\ loop[l].pc = "fetch"
    /\ IF ~Endpoint(config) THEN Finish(l, "endpoint")
       ELSE Goto(l, IF loop[l].cancelled THEN "asleep" ELSE "sent")
    /\ UNCHANGED <<fetcher, status, store, environment>>

(* The client notices the cancelled context; that is not reported.         *)
NoAnswer(l) ==
    /\ loop[l].pc = "sent"
    /\ loop[l].cancelled
    /\ Goto(l, "asleep")
    /\ UNCHANGED <<fetcher, status, store, environment>>

(* Unreachable, silent for 30 seconds, or a status other than 200: only    *)
(* the last can still be reported by a cancelled loop.                     *)
FetchFails(l) ==
    /\ loop[l].pc = "sent"
    /\ source.kind = "failing"
    /\ Finish(l, "failed")
    /\ UNCHANGED <<fetcher, status, store, environment>>

(* CPA answers.  The listing passes this plugin's own interceptor on its   *)
(* way, which learns from it first: a step of LiveCatalog.                 *)
Answered(l) ==
    /\ loop[l].pc = "sent"
    /\ loop' = [loop EXCEPT ![l].pc = "read", ![l].body = source.body]
    /\ UNCHANGED <<fetcher, status, store, environment>>

(* The connection is lost while the body is read, or the context that owns *)
(* it was cancelled: the code tells the two apart no more.                 *)
ReadFails(l) ==
    /\ loop[l].pc = "read"
    /\ loop[l].cancelled \/ source.kind = "failing"
    /\ Finish(l, "failed")
    /\ UNCHANGED <<fetcher, status, store, environment>>

(* A body that teaches nothing, or that is no listing, is an error.        *)
Learn(l) ==
    /\ loop[l].pc = "read"
    /\ LET learned == Learned(loop[l].body)
       IN  /\ store' \in Recorded(store, learned)
           /\ IF DOMAIN learned = {} THEN Finish(l, "failed")
              ELSE IF HasConfigDir
                   THEN loop' = [loop EXCEPT ![l].pc = "gather", ![l].body = <<>>]
              ELSE Finish(l, "ok")
    /\ UNCHANGED <<fetcher, status, environment>>

TableOf == [d \in Disks |-> Gathered(d)]

Gather(l) ==
    /\ loop[l].pc = "gather"
    /\ loop' = [loop EXCEPT ![l].pc = "apply", ![l].table = TableOf[disk]]
    /\ UNCHANGED <<fetcher, status, store, environment>>

Apply(l) ==
    /\ loop[l].pc = "apply"
    /\ store' = Applied(store, loop[l].table)
    /\ Finish(l, "ok")
    /\ UNCHANGED <<fetcher, status, environment>>

(* Mutant: a loop that failed is not tried again.                          *)
ReportOnce(l) ==
    /\ loop[l].pc = "report"
    /\ status' = IF loop[l].outcome = "ok" THEN [err |-> "", ok |-> TRUE]
                 ELSE [status EXCEPT !.err = loop[l].outcome]
    /\ loop' = [loop EXCEPT ![l] =
                  IF loop[l].outcome = "ok"
                  THEN Asleep(loop[l].cancelled, loop[l].period)
                  ELSE Ended]
    /\ UNCHANGED <<fetcher, store, environment>>

(* setSuccess or setError, then the next sleep: the retry delay until the  *)
(* first success, the period after it.                                     *)
Report(l) ==
    /\ loop[l].pc = "report"
    /\ status' = IF loop[l].outcome = "ok" THEN [err |-> "", ok |-> TRUE]
                 ELSE [status EXCEPT !.err = loop[l].outcome]
    /\ loop' = [loop EXCEPT ![l] = Asleep(loop[l].cancelled, loop[l].period)]
    /\ UNCHANGED <<fetcher, store, environment>>

Run(l) ==
    \/ Wake(l) \/ Request(l)
    \/ NoAnswer(l) \/ FetchFails(l) \/ Answered(l)
    \/ ReadFails(l) \/ Learn(l)
    \/ Gather(l) \/ Apply(l) \/ Report(l)

-----------------------------------------------------------------------------
(* Everyone else.                                                          *)

(* A Codex listing served to a client teaches the store what it shows.     *)
LiveCatalog(body) ==
    /\ store' \in Recorded(store, Learned(body))
    /\ UNCHANGED <<fetcher, loop, status, environment>>

SourceChanges ==
    /\ source' \in Sources \ {source}
    /\ UNCHANGED <<fetcher, loop, status, store, disk>>

DiskChanges ==
    /\ disk' \in Disks \ {disk}
    /\ UNCHANGED <<fetcher, loop, status, store, source>>

Lifecycle ==
    \/ \E cfg \in Configs : LoadConfig(cfg)
    \/ StopLoop
    \/ LeaveLoopOff
    \/ \E l \in Loops : StartLoop(l)

Next ==
    \/ Lifecycle
    \/ \E l \in Loops : Quit(l) \/ Run(l)
    \/ \E body \in Traffic : LiveCatalog(body)
    \/ SourceChanges \/ DiskChanges

Spec == Init /\ [][Next]_vars

(* Goroutines are scheduled, timers fire and the HTTP client gives up.  Of *)
(* two ready cases select takes either, so a cancelled loop that comes     *)
(* back to its sleep does not miss its context for ever.                   *)
FairSpec ==
    /\ Spec
    /\ WF_vars(StopLoop \/ LeaveLoopOff \/ \E l \in Loops : StartLoop(l))
    /\ \A l \in Loops : WF_vars(Run(l)) /\ SF_vars(Quit(l))

-----------------------------------------------------------------------------
(* Properties.                                                             *)

LoopType ==
    [pc : {"none", "asleep", "fetch", "sent", "read", "gather", "apply", "report"},
     cancelled : BOOLEAN, period : Nat, body : Seq(Entries),
     table : Range(TableOf) \cup {<<>>},
     outcome : {"none", "ok", "failed", "endpoint"}]

StoreType ==
    /\ DOMAIN store.byID \subseteq Ids
    /\ \A id \in DOMAIN store.byID : store.byID[id] \in Capabilities \ {NoFacts}
    /\ DOMAIN store.lower \subseteq Range(Folded)
    /\ \A key \in DOMAIN store.lower : store.lower[key] \in Ids

(* Every variable stays in its type: in particular a stored id always has  *)
(* facts, also after a correction.                                         *)
TypeOK ==
    /\ config \in Configs \cup {NoConfig}
    /\ lifecycle \in {"idle", "stop", "start"}
    /\ current \in Loops \cup {NoLoop}
    /\ interval \in Nat
    /\ loop \in [Loops -> LoopType]
    /\ status \in [err : {"", "failed", "endpoint"}, ok : BOOLEAN]
    /\ StoreType
    /\ source \in Sources
    /\ disk \in Disks

Running(l) == loop[l].pc # "none" /\ ~loop[l].cancelled

(* Between lifecycle calls exactly one loop runs, with the period of the   *)
(* configuration in force, if that configuration names a usable endpoint,  *)
(* and none otherwise.  startCatalogRefresh, catalogfetch.go:109-162.      *)
LoopFollowsConfig ==
    (lifecycle = "idle" /\ config # NoConfig) =>
        LET running == {l \in Loops : Running(l)}
        IN  IF Endpoint(config)
            THEN \E l \in Loops : running = {l} /\ loop[l].period = Interval(config)
            ELSE running = {}

(* A model some stored id names is found under every spelling of that id,  *)
(* after any mix of refreshes, corrections and live traffic.               *)
(* capability.go:113-150.                                                  *)
FoundInAnyCase ==
    \A id \in Ids :
        (\E known \in DOMAIN store.byID : Folded[known] = Folded[id])
            => Lookup(store, id) # NoFacts

(* No step forgets a model: listings a client may fetch between a refresh  *)
(* and its correction, or after one, keep every fact.                      *)
NothingIsForgotten ==
    [][\A id \in Ids : Lookup(store, id) # NoFacts => Lookup(store', id) # NoFacts]_vars

(* What the store advertises for a model every channel can take, and every *)
(* level some channel offers.  channels.go:256-275.                        *)
Agreed(s, id) ==
    LET facts == Lookup(s, id)
    IN  facts # NoFacts => \A o \in s.channels[Folded[id]] :
            /\ o.context > 0 => /\ facts.context <= o.context
                               /\ facts.maxContext <= o.context
            /\ o.levels \subseteq facts.levels

StoredOnce(s, id) ==
    \A a, b \in DOMAIN s.byID : (Folded[a] = Folded[id] /\ Folded[b] = Folded[id]) => a = b

(* A refresh leaves a model that several channels serve corrected: under   *)
(* every spelling a caller may use if the store holds the model under one  *)
(* spelling, whichever that is.  If catalogs have taught two, only what    *)
(* the lower-case id finds is corrected, and the claim of                  *)
(* capability.go:195-197, "for every model that more than one channel      *)
(* serves", does not hold of the other: with "Kimi" and "kimi" stored      *)
(* resolveKey (241-243) finds "kimi", and "Kimi" keeps its uncorrected     *)
(* facts for an exact lookup.  capability.go:195-249.                      *)
RefreshCorrects ==
    [][(\E l \in Loops : loop[l].pc = "apply" /\ loop'[l].pc # "apply")
          => \A id \in Ids :
                /\ Folded[id] \in Contested(store'.channels)
                /\ id = Folded[id] \/ StoredOnce(store', id)
                => Agreed(store', id)]_vars

Teaching(s) == s.kind = "listing" /\ DOMAIN Learned(s.body) # {}

(* The endpoint is configured and answers, and nobody reconfigures.        *)
Settled ==
    /\ lifecycle = "idle" /\ config # NoConfig
    /\ Endpoint(config)
    /\ Teaching(source)

(* Once things are settled the status reports success for good, whatever   *)
(* failed before, a listener that was down included: the loop retries      *)
(* until it learned.                                                       *)
RecoversFromFailure == <>[]Settled => <>[](status.ok /\ status.err = "")

(* Once things are settled, the channel table is the one on disk for good: *)
(* a stale table a cancelled loop still applies does not last.             *)
ChannelsBecomeCurrent ==
    \A d \in Disks : <>[](Settled /\ disk = d) => <>[](store.channels = TableOf[d])

(* A cancelled loop ends: no goroutine stays cancelled for ever, and only  *)
(* its end takes the mark away.  catalogfetch.go:169-180.                  *)
CancelledLoopsEnd == \A l \in Loops : []<>~loop[l].cancelled

(* Claimed by catalogfetch.go:83-84 and 125-127, refuted: the absence of   *)
(* an endpoint is reported.                                                *)
GapStaysReported ==
    (lifecycle = "idle" /\ config # NoConfig /\ ~Endpoint(config)) => status.err # ""
=============================================================================
