-------------------------- MODULE PanelVisibility --------------------------
(***************************************************************************)
(* Hiding and restoring models in the browser panel (panel.html): a click  *)
(* changes the draft of the selected API key at once and queues a write;   *)
(* writes go out one after the other, each with the whole access table as  *)
(* the drafts are when it is sent; a write that fails rolls its scope back *)
(* to what was last known to be saved.                                     *)
(*                                                                         *)
(* Around the script: CPA, which stores the table and hands it to the      *)
(* plugin some time later, operators who edit the same table elsewhere,    *)
(* and a page load that reads the policies the plugin has in force.  CPA   *)
(* is done with a request when the browser learns that it failed.          *)
(***************************************************************************)
EXTENDS Integers, Sequences, FiniteSets

CONSTANTS
    Scopes,     \* the scopes of the API keys
    Models,     \* model ids; a deny list is a set of them
    Kept,       \* what an entry holds besides and a write keeps: its label
                \* and allow list, without the case flag that writes drop
    NoKept,     \* neither
    NoScope,
    Tables,     \* access tables to start from
    Edits,      \* what somebody may write elsewhere: a scope and its entry
    QueueBound, \* bound: clicks whose write is not sent yet
    EditBound   \* bound: scopes that are edited elsewhere

Entries == [deny : SUBSET Models, kept : Kept]
AccessTables == UNION {[S -> Entries] : S \in SUBSET Scopes}

ASSUME PanelConstants ==
    /\ NoKept \in Kept
    /\ NoScope \notin Scopes
    /\ Tables \subseteq AccessTables
    /\ Edits \subseteq Scopes \X Entries
    /\ {QueueBound, EditBound} \subseteq Nat

VARIABLES
    policies,   \* state.policies: what else the last load showed of each entry
    draft,      \* denyDrafts
    known,      \* knownDeny
    queue,      \* the scopes whose write waits in visWriteChain
    flight,     \* the write in progress
    stored,     \* the access table in CPA's configuration
    active,     \* the table the plugin has in force
    last,       \* history: how the last write that ended or was stored went
    edited      \* history: scopes that somebody edited elsewhere

page == <<policies, draft, known>>
history == <<last, edited>>
vars == <<page, queue, flight, stored, active, history>>

(* Scopes without an entry deny nothing and hold nothing else.             *)
Deny(table, s) == IF s \in DOMAIN table THEN table[s].deny ELSE {}
Rest(table, s) == IF s \in DOMAIN table THEN table[s].kept ELSE NoKept
Listed(lists, s) == IF s \in DOMAIN lists THEN lists[s] ELSE {}
Shown(s) == IF s \in DOMAIN policies THEN policies[s] ELSE NoKept

Denies(table) == [s \in DOMAIN table |-> table[s].deny]
Rests(table) == [s \in DOMAIN table |-> table[s].kept]
Set(f, s, v) == [t \in DOMAIN f \cup {s} |-> IF t = s THEN v ELSE f[t]]

NoFlight == [phase |-> "idle", scope |-> NoScope, table |-> <<>>]

Init ==
    /\ stored \in Tables
    /\ active = stored
    /\ policies = Rests(stored)
    /\ known = Denies(stored)
    /\ draft = known
    /\ queue = <<>>
    /\ flight = NoFlight
    /\ last = "none"
    /\ edited = {}

-----------------------------------------------------------------------------
(* The script.                                                             *)

(* The button hides or restores as the row was drawn, which may be what    *)
(* the draft says already; the write is queued all the same.               *)
Click(s, m, hide) ==
    /\ Len(queue) < QueueBound
    /\ draft' = Set(draft, s, IF hide THEN Listed(draft, s) \cup {m}
                                      ELSE Listed(draft, s) \ {m})
    /\ queue' = Append(queue, s)
    /\ UNCHANGED <<policies, known, flight, stored, active, history>>

(* Mutant: an entry that denies nothing is left out of the table.          *)
AccessTableOfDenies ==
    LET written == {s \in DOMAIN draft \cup DOMAIN known : Listed(draft, s) # {}}
    IN  [s \in written |-> [deny |-> Listed(draft, s), kept |-> Shown(s)]]

(* Mutant: what is already saved is written.                               *)
AccessTableOfKnown ==
    LET written == {s \in DOMAIN draft \cup DOMAIN known :
                      Listed(known, s) # {} \/ s \in DOMAIN policies}
    IN  [s \in written |-> [deny |-> Listed(known, s), kept |-> Shown(s)]]

(* Mutant: the view without a key gets an entry too.                       *)
AccessTableOfAllViews ==
    LET written == {s \in DOMAIN draft \cup DOMAIN known :
                      Listed(draft, s) # {} \/ s \in DOMAIN policies}
    IN  [s \in written \cup {NoScope} |-> [deny |-> Listed(draft, s), kept |-> Shown(s)]]

(* What a write replaces the access key with.  The label and the allow     *)
(* list are the loaded ones; a scope that denies nothing gets an entry     *)
(* only if it had one.                                                     *)
AccessTable ==
    LET written == {s \in DOMAIN draft \cup DOMAIN known :
                      Listed(draft, s) # {} \/ s \in DOMAIN policies}
    IN  [s \in written |-> [deny |-> Listed(draft, s), kept |-> Shown(s)]]

Send ==
    /\ flight.phase = "idle"
    /\ queue # <<>>
    /\ flight' = [phase |-> "sent", scope |-> Head(queue), table |-> AccessTable]
    /\ queue' = Tail(queue)
    /\ UNCHANGED <<page, stored, active, history>>

(* Mutant: the draft as it is now becomes the baseline.                    *)
ConfirmCurrent ==
    /\ flight.phase = "stored"
    /\ known' = Set(known, flight.scope, Listed(draft, flight.scope))
    /\ flight' = NoFlight
    /\ UNCHANGED <<policies, draft, queue, stored, active, history>>

(* The baseline becomes what was sent, not what the draft holds by now.    *)
Confirm ==
    /\ flight.phase = "stored"
    /\ known' = Set(known, flight.scope, Deny(flight.table, flight.scope))
    /\ flight' = NoFlight
    /\ UNCHANGED <<policies, draft, queue, stored, active, history>>

(* Mutant: the draft keeps what could not be saved.                        *)
RollBackNothing ==
    /\ flight.phase \in {"sent", "stored"}
    /\ flight' = NoFlight
    /\ last' = "failed"
    /\ UNCHANGED <<page, queue, stored, active, edited>>

(* Mutant: one failed write ends the chain.                                *)
RollBackForGood ==
    /\ flight.phase \in {"sent", "stored"}
    /\ draft' = Set(draft, flight.scope, Listed(known, flight.scope))
    /\ flight' = [NoFlight EXCEPT !.phase = "broken"]
    /\ last' = "failed"
    /\ UNCHANGED <<policies, known, queue, stored, active, edited>>

(* The write was refused, or it never arrived, or its answer was lost.     *)
RollBack ==
    /\ flight.phase \in {"sent", "stored"}
    /\ draft' = Set(draft, flight.scope, Listed(known, flight.scope))
    /\ flight' = NoFlight
    /\ last' = "failed"
    /\ UNCHANGED <<policies, known, queue, stored, active, edited>>

(* Mutant: a load takes every draft from the status.                       *)
LoadOverDrafts ==
    /\ policies' = Rests(active)
    /\ known' = Denies(active)
    /\ draft' = Denies(active)
    /\ UNCHANGED <<queue, flight, stored, active, history>>

(* A new management key was entered and the page loads again, keeping the  *)
(* drafts.  The status is as old as HotReload makes it.                    *)
Load ==
    /\ policies' = Rests(active)
    /\ known' = Denies(active)
    /\ draft' = [s \in DOMAIN draft \cup DOMAIN active |->
                   IF s \in DOMAIN draft THEN draft[s] ELSE active[s].deny]
    /\ UNCHANGED <<queue, flight, stored, active, history>>

-----------------------------------------------------------------------------
(* CPA and other operators.                                                *)

Store ==
    /\ flight.phase = "sent"
    /\ stored' = flight.table
    /\ flight' = [flight EXCEPT !.phase = "stored"]
    /\ last' = "stored"
    /\ UNCHANGED <<page, queue, active, edited>>

HotReload ==
    /\ active # stored
    /\ active' = stored
    /\ UNCHANGED <<page, queue, flight, stored, history>>

EditElsewhere(s, entry) ==
    /\ Cardinality(edited) < EditBound
    /\ stored' = Set(stored, s, entry)
    /\ edited' = edited \cup {s}
    /\ UNCHANGED <<page, queue, flight, active, last>>

Next ==
    \/ \E s \in Scopes, m \in Models, hide \in BOOLEAN : Click(s, m, hide)
    \/ Send \/ Store \/ Confirm \/ RollBack
    \/ Load \/ HotReload
    \/ \E edit \in Edits : EditElsewhere(edit[1], edit[2])

Spec == Init /\ [][Next]_vars

(* The promise chain goes on when a write ends, a write ends one way or    *)
(* the other, and CPA notices that its configuration changed.              *)
FairSpec ==
    /\ Spec
    /\ WF_vars(Send)
    /\ WF_vars(Confirm \/ RollBack)
    /\ WF_vars(HotReload)

-----------------------------------------------------------------------------
(* Properties.                                                             *)

DenyLists == UNION {[S -> SUBSET Models] : S \in SUBSET Scopes}

(* Every variable stays in its type.                                       *)
TypeOK ==
    /\ {stored, active} \subseteq AccessTables
    /\ policies \in UNION {[S -> Kept] : S \in SUBSET Scopes}
    /\ {draft, known} \subseteq DenyLists
    /\ queue \in Seq(Scopes)
    /\ \/ flight = NoFlight
       \/ flight \in [phase : {"sent", "stored"}, scope : Scopes, table : AccessTables]
    /\ last \in {"none", "stored", "failed"}
    /\ edited \subseteq Scopes

Queued(s) == \E i \in DOMAIN queue : queue[i] = s
Drained == queue = <<>> /\ flight = NoFlight

(* When every write is done and the last one was stored, CPA holds what    *)
(* the panel shows for every key, whatever failed, was reloaded or was     *)
(* clicked in between: nobody is shown a state that is not saved.  This    *)
(* speaks of the screen, not of the clicks.  A click whose write is still  *)
(* queued is discarded when the write before it fails; its own write then  *)
(* stores the draft as rolled back, although panel.html:592-594 and        *)
(* 599-601 say that the last write contains every click before it.         *)
(* panel.html:595-624.                                                     *)
ScreenIsSaved ==
    (Drained /\ last = "stored") =>
        \A s \in Scopes \ edited : Deny(stored, s) = Listed(draft, s)

(* When the last queued write of a key ends, saved or not, what is shown   *)
(* for that key is what the panel would roll back to: a failed write never *)
(* leaves an unsaved click on the screen.  panel.html:610-616.             *)
EndedWritesAgree ==
    [][\A s \in Scopes :
         (flight.scope = s /\ flight'.scope # s /\ ~Queued(s))
            => Listed(draft', s) = Listed(known', s)]_vars

(* A write that succeeds makes the baseline what CPA stored for the key,   *)
(* also when it was clicked on while the write was under way.              *)
(* panel.html:610-612.                                                     *)
BaselineIsStored ==
    [][\A s \in Scopes \ edited' :
         (flight.scope = s /\ flight'.scope # s /\ last' = "stored")
            => Listed(known', s) = Deny(stored', s)]_vars

(* No write touches the label or the allow list of an entry nobody edited  *)
(* elsewhere, although each one replaces the whole table.  The third field *)
(* that status reports of an entry, case_sensitive (management.go:230), is *)
(* not among them: buildAccessTable drops it.  panel.html:626-646.         *)
OtherFieldsSurvive ==
    [][\A s \in Scopes \ edited' : Rest(stored', s) = Rest(stored, s)]_vars

(* A failed write does not block the ones behind it.  panel.html:621-622.      *)
QueuedWritesAreSent ==
    \A s \in Scopes : Queued(s) ~> flight.scope = s

(* Once the clicking has stopped with a write that was stored, the plugin  *)
(* enforces what the panel shows: the last click, unless a failed write    *)
(* rolled it back and so took it off the screen.  panel.html:595-624,      *)
(* 885-888.                                                                *)
LastClickTakesEffect ==
    \A s \in Scopes :
        <>[](Drained /\ last = "stored" /\ s \notin edited)
            => <>[](Deny(active, s) = Listed(draft, s))
=============================================================================
