----------------------- MODULE PanelVisibilityProofs -----------------------
(***************************************************************************)
(* Proofs about the visibility writes of the panel, for any keys, models,  *)
(* tables and edits elsewhere, and for clicks without end.                 *)
(*                                                                         *)
(* ScreenIsSaved is not inductive: that the table CPA holds is the         *)
(* drafts' comes from the write that was just confirmed, so the invariant  *)
(* follows a draft from the moment its write is sent: a scope is queued    *)
(* again, or the table in flight says what its draft says.                 *)
(***************************************************************************)
EXTENDS PanelVisibility, TLAPS

InFlight == flight.phase \in {"sent", "stored"}

(* Every queued write is about a scope that has a draft.                   *)
WritesHaveDrafts ==
    /\ \A i \in DOMAIN queue : queue[i] \in DOMAIN draft
    /\ InFlight => flight.scope \in DOMAIN draft

(* Whatever has an entry has a draft, unless somebody else made the entry. *)
EntriesHaveDrafts ==
    \A s \in Scopes \ edited :
        \/ s \in DOMAIN draft
        \/ /\ s \notin DOMAIN stored \cup DOMAIN active \cup DOMAIN known
           /\ InFlight => s \notin DOMAIN flight.table

(* The label and allow list are the same wherever they are kept.           *)
RestIsKept ==
    \A s \in Scopes \ edited :
        /\ Rest(stored, s) = Rest(active, s)
        /\ Rest(stored, s) = Shown(s)
        /\ InFlight => Rest(flight.table, s) = Rest(stored, s)

(* The table in flight has the current draft of every scope that does not  *)
(* wait for another write.                                                 *)
FlightHasDrafts ==
    InFlight =>
        \A s \in Scopes :
            s \notin edited \/ s = flight.scope =>
                Queued(s) \/ Deny(flight.table, s) = Listed(draft, s)

(* What CPA stored is the table in flight.                                 *)
FlightIsStored ==
    flight.phase = "stored" =>
        \A s \in Scopes \ edited : Deny(stored, s) = Deny(flight.table, s)

(* When the last write was stored, CPA has the current draft of every      *)
(* scope that does not wait for another one.                               *)
StoredHasDrafts ==
    (flight = NoFlight /\ last = "stored") =>
        \A s \in Scopes \ edited :
            Queued(s) \/ Deny(stored, s) = Listed(draft, s)

IInv ==
    /\ TypeOK
    /\ WritesHaveDrafts
    /\ EntriesHaveDrafts
    /\ RestIsKept
    /\ FlightHasDrafts
    /\ FlightIsStored
    /\ StoredHasDrafts
-----------------------------------------------------------------------------
(* What the model's operators do.                                          *)

(* Set gives one scope its value and leaves the others.                    *)
LEMMA SetAt ==
    ASSUME NEW f, NEW s, NEW v
    PROVE  /\ DOMAIN Set(f, s, v) = DOMAIN f \cup {s}
           /\ Set(f, s, v)[s] = v
           /\ \A t \in DOMAIN f : t # s => Set(f, s, v)[t] = f[t]
BY DEF Set

(* A list set for one scope is its list; the others' lists stay.           *)
LEMMA SetLists ==
    ASSUME NEW f, NEW s, NEW v, NEW t
    PROVE  Listed(Set(f, s, v), t) = IF t = s THEN v ELSE Listed(f, t)
BY DEF Set, Listed

(* The same of a table's entries.                                          *)
LEMMA SetEntries ==
    ASSUME NEW f, NEW s, NEW v, NEW t, t # s
    PROVE  /\ Deny(Set(f, s, v), t) = Deny(f, t)
           /\ Rest(Set(f, s, v), t) = Rest(f, t)
BY DEF Set, Deny, Rest

(* Setting one scope keeps a partial function one.                         *)
LEMMA SetTyped ==
    ASSUME NEW V, NEW f \in UNION {[S -> V] : S \in SUBSET Scopes},
           NEW s \in Scopes, NEW v \in V
    PROVE  Set(f, s, v) \in UNION {[S -> V] : S \in SUBSET Scopes}
<1>1. PICK S \in SUBSET Scopes : f \in [S -> V]
  OBVIOUS
<1>2. DOMAIN f = S
  BY <1>1
<1>3. Set(f, s, v) \in [S \cup {s} -> V]
  BY <1>1, <1>2 DEF Set
<1> QED
  BY <1>3

(* The lists and fields of tables, for scopes with and without an entry.   *)
LEMMA TableTyped ==
    ASSUME NEW table \in AccessTables
    PROVE  /\ DOMAIN table \subseteq Scopes
           /\ \A s \in DOMAIN table : table[s] \in Entries
           /\ Denies(table) \in DenyLists
           /\ Rests(table) \in UNION {[S -> Kept] : S \in SUBSET Scopes}
           /\ \A s : Listed(Denies(table), s) = Deny(table, s)
<1>1. PICK S \in SUBSET Scopes : table \in [S -> Entries]
  BY DEF AccessTables
<1>2. DOMAIN table = S
  BY <1>1
<1>3. \A s \in S : table[s].deny \in SUBSET Models /\ table[s].kept \in Kept
  BY <1>1 DEF Entries
<1>4. Denies(table) \in [S -> SUBSET Models]
  BY <1>2, <1>3 DEF Denies
<1>5. Rests(table) \in [S -> Kept]
  BY <1>2, <1>3 DEF Rests
<1>6. \A s : Listed(Denies(table), s) = Deny(table, s)
  BY DEF Listed, Denies, Deny
<1> QED
  BY <1>1, <1>2, <1>4, <1>5, <1>6 DEF DenyLists

(* A deny list is a set of models.                                         *)
LEMMA ListTyped ==
    ASSUME NEW lists \in DenyLists, NEW s
    PROVE  Listed(lists, s) \in SUBSET Models /\ DOMAIN lists \subseteq Scopes
<1>1. PICK S \in SUBSET Scopes : lists \in [S -> SUBSET Models]
  BY DEF DenyLists
<1> QED
  BY <1>1 DEF Listed

(* A scope waits behind a click if it waited before or was clicked.        *)
LEMMA AppendHas ==
    ASSUME NEW q \in Seq(Scopes), NEW e \in Scopes
    PROVE  /\ \A s : (\E i \in DOMAIN q : q[i] = s)
                        => \E i \in DOMAIN Append(q, e) : Append(q, e)[i] = s
           /\ \E i \in DOMAIN Append(q, e) : Append(q, e)[i] = e
           /\ \A i \in DOMAIN Append(q, e) :
                 Append(q, e)[i] = e \/ \E j \in DOMAIN q : q[j] = Append(q, e)[i]
<1>1. \A i \in DOMAIN q : i \in DOMAIN Append(q, e) /\ Append(q, e)[i] = q[i]
  OBVIOUS
<1>2. /\ Len(q) + 1 \in DOMAIN Append(q, e)
      /\ Append(q, e)[Len(q) + 1] = e
  OBVIOUS
<1>3. \A i \in DOMAIN Append(q, e) : i = Len(q) + 1 \/ i \in DOMAIN q
  OBVIOUS
<1> QED
  BY <1>1, <1>2, <1>3

(* A scope that waited still waits when the first write is sent, or it was *)
(* the first.                                                              *)
LEMMA TailHas ==
    ASSUME NEW q \in Seq(Scopes), q # <<>>
    PROVE  /\ \A s : (\E i \in DOMAIN q : q[i] = s)
                        => \/ s = Head(q)
                           \/ \E i \in DOMAIN Tail(q) : Tail(q)[i] = s
           /\ \A i \in DOMAIN Tail(q) : \E j \in DOMAIN q : q[j] = Tail(q)[i]
           /\ \E j \in DOMAIN q : q[j] = Head(q)
           /\ Head(q) \in Scopes
<1>1. \A s, i : (i \in DOMAIN q /\ q[i] = s /\ s # Head(q))
                 => i - 1 \in DOMAIN Tail(q) /\ Tail(q)[i - 1] = s
  OBVIOUS
<1>2. \A i \in DOMAIN Tail(q) : i + 1 \in DOMAIN q /\ q[i + 1] = Tail(q)[i]
  OBVIOUS
<1>3. 1 \in DOMAIN q /\ q[1] = Head(q) /\ Head(q) \in Scopes
  OBVIOUS
<1> QED
  BY <1>1, <1>2, <1>3

(* The table a write sends says what the drafts say, and keeps the rest of *)
(* every entry that was loaded.                                            *)
LEMMA AccessTableSays ==
    ASSUME TypeOK
    PROVE  /\ AccessTable \in AccessTables
           /\ \A s : Deny(AccessTable, s) = Listed(draft, s)
           /\ DOMAIN AccessTable \subseteq DOMAIN draft \cup DOMAIN known
           /\ \A s \in DOMAIN draft \cup DOMAIN known : Rest(AccessTable, s) = Shown(s)
<1> DEFINE written == {s \in DOMAIN draft \cup DOMAIN known :
                         Listed(draft, s) # {} \/ s \in DOMAIN policies}
<1>1. DOMAIN AccessTable = written
  BY DEF AccessTable
<1>2. \A s \in written : AccessTable[s].deny = Listed(draft, s) /\ AccessTable[s].kept = Shown(s)
  BY DEF AccessTable
<1>3. \A s : Shown(s) \in Kept
  <2>1. PICK S \in SUBSET Scopes : policies \in [S -> Kept]
    BY DEF TypeOK
  <2> QED
    BY <2>1, PanelConstants DEF Shown
<1>4. AccessTable \in AccessTables
  <2>1. written \subseteq Scopes
    BY ListTyped DEF TypeOK
  <2>2. \A s \in written : [deny |-> Listed(draft, s), kept |-> Shown(s)] \in Entries
    BY <1>3, ListTyped DEF TypeOK, Entries
  <2>3. AccessTable \in [written -> Entries]
    BY <2>2 DEF AccessTable
  <2> QED
    BY <2>1, <2>3 DEF AccessTables
<1>5. \A s : Deny(AccessTable, s) = Listed(draft, s)
  <2>1. \A s : s \notin written => Listed(draft, s) = {}
    BY DEF Listed
  <2> HIDE DEF written
  <2> QED
    BY <1>1, <1>2, <2>1 DEF Deny
<1>6. \A s \in DOMAIN draft \cup DOMAIN known : Rest(AccessTable, s) = Shown(s)
  <2>1. \A s \in DOMAIN draft \cup DOMAIN known : s \notin written => Shown(s) = NoKept
    BY DEF Shown
  <2> HIDE DEF written
  <2> QED
    BY <1>1, <1>2, <2>1 DEF Rest
<1> QED
  BY <1>1, <1>4, <1>5, <1>6
-----------------------------------------------------------------------------
(* Types.                                                                  *)

(* A write in flight has its scope and its table.                          *)
LEMMA FlightTyped ==
    ASSUME TypeOK
    PROVE  /\ InFlight => /\ flight \in [phase : {"sent", "stored"}, scope : Scopes, table : AccessTables]
                          /\ flight.scope \in Scopes
                          /\ flight.table \in AccessTables
           /\ flight.phase = "idle" => flight = NoFlight
           /\ ~InFlight => flight = NoFlight
           /\ NoFlight.phase = "idle" /\ NoFlight.scope = NoScope
BY DEF TypeOK, NoFlight, InFlight

(* The first state is well typed.                                          *)
LEMMA TypeInit == Init => TypeOK
<1> SUFFICES ASSUME Init PROVE TypeOK
  OBVIOUS
<1>1. stored \in AccessTables
  BY PanelConstants DEF Init
<1> QED
  BY <1>1, TableTyped DEF Init, TypeOK

(* Every step keeps the variables in their types.                          *)
LEMMA TypeStep == TypeOK /\ [Next]_vars => TypeOK'
<1> SUFFICES ASSUME TypeOK, [Next]_vars PROVE TypeOK'
  OBVIOUS
<1> USE DEF TypeOK, DenyLists
<1>1. ASSUME NEW s \in Scopes, NEW m \in Models, NEW hide \in BOOLEAN, Click(s, m, hide)
      PROVE  TypeOK'
  <2>1. (IF hide THEN Listed(draft, s) \cup {m} ELSE Listed(draft, s) \ {m}) \in SUBSET Models
    BY ListTyped
  <2>2. draft' \in DenyLists
    BY <1>1, <2>1, SetTyped DEF Click
  <2>3. queue' \in Seq(Scopes)
    BY <1>1 DEF Click
  <2> QED
    BY <1>1, <2>2, <2>3 DEF Click, history
<1>2. CASE Send
  <2>1. Head(queue) \in Scopes /\ Tail(queue) \in Seq(Scopes)
    BY <1>2 DEF Send
  <2>2. flight' \in [phase : {"sent", "stored"}, scope : Scopes, table : AccessTables]
    BY <1>2, <2>1, AccessTableSays DEF Send
  <2> QED
    BY <1>2, <2>1, <2>2 DEF Send, page, history
<1>3. CASE Store
  <2>1. InFlight /\ flight.phase = "sent"
    BY <1>3 DEF Store, InFlight
  <2>2. stored' \in AccessTables
    BY <1>3, <2>1, FlightTyped DEF Store
  <2>3. flight' \in [phase : {"sent", "stored"}, scope : Scopes, table : AccessTables]
    BY <1>3, <2>1, FlightTyped DEF Store
  <2> QED
    BY <1>3, <2>2, <2>3 DEF Store, page
<1>4. CASE Confirm
  <2>1. InFlight
    BY <1>4 DEF Confirm, InFlight
  <2>2. Deny(flight.table, flight.scope) \in SUBSET Models
    BY <2>1, FlightTyped, TableTyped DEF Deny, Entries
  <2>3. known' \in DenyLists
    BY <1>4, <2>1, <2>2, FlightTyped, SetTyped DEF Confirm
  <2> QED
    BY <1>4, <2>3 DEF Confirm, history
<1>5. CASE RollBack
  <2>1. InFlight
    BY <1>5 DEF RollBack, InFlight
  <2>2. draft' \in DenyLists
    BY <1>5, <2>1, ListTyped, FlightTyped, SetTyped DEF RollBack
  <2> QED
    BY <1>5, <2>2 DEF RollBack
<1>6. CASE Load
  <2>1. DOMAIN draft \cup DOMAIN active \subseteq Scopes
    BY ListTyped, TableTyped
  <2>2. \A s \in DOMAIN draft : draft[s] \in SUBSET Models
    BY ListTyped DEF Listed
  <2>3. \A s \in DOMAIN active : active[s].deny \in SUBSET Models
    BY TableTyped DEF Entries
  <2>4. draft' \in [DOMAIN draft \cup DOMAIN active -> SUBSET Models]
    BY <1>6, <2>2, <2>3 DEF Load
  <2>5. draft' \in DenyLists
    BY <2>1, <2>4
  <2>6. policies' \in UNION {[S -> Kept] : S \in SUBSET Scopes} /\ known' \in DenyLists
    BY <1>6, TableTyped DEF Load
  <2> QED
    BY <1>6, <2>5, <2>6 DEF Load, history
<1>7. CASE HotReload
  BY <1>7 DEF HotReload, page, history
<1>8. ASSUME NEW edit \in Edits, EditElsewhere(edit[1], edit[2])
      PROVE  TypeOK'
  <2>1. edit[1] \in Scopes /\ edit[2] \in Entries
    BY PanelConstants
  <2>2. stored' \in AccessTables
    BY <1>8, <2>1, SetTyped DEF EditElsewhere, AccessTables
  <2> QED
    BY <1>8, <2>1, <2>2 DEF EditElsewhere, page
<1>9. CASE UNCHANGED vars
  BY <1>9 DEF vars, page, history
<1> QED
  BY <1>1, <1>2, <1>3, <1>4, <1>5, <1>6, <1>7, <1>8, <1>9 DEF Next

(* Every variable stays in its type, for any keys, models and tables.      *)
THEOREM TypeCorrect == Spec => []TypeOK
BY TypeInit, TypeStep, PTL DEF Spec
-----------------------------------------------------------------------------
(* The drafts are followed until they are stored.                          *)

(* At first every table is the stored one, and so are the drafts.          *)
LEMMA InvInit == Init => IInv
<1> SUFFICES ASSUME Init PROVE IInv
  OBVIOUS
<1>1. TypeOK
  BY TypeInit
<1>2. ~InFlight /\ flight.phase # "stored" /\ last # "stored" /\ queue = <<>>
  BY DEF Init, InFlight, NoFlight
<1>3. DOMAIN draft = DOMAIN stored /\ DOMAIN known = DOMAIN stored /\ active = stored
  BY DEF Init, Denies
<1>4. \A s : Shown(s) = Rest(stored, s)
  BY DEF Init, Shown, Rests, Rest
<1> QED
  BY <1>1, <1>2, <1>3, <1>4
     DEF IInv, WritesHaveDrafts, EntriesHaveDrafts, RestIsKept, FlightHasDrafts,
         FlightIsStored, StoredHasDrafts

(* Whatever has a list after a click or a rollback had one or was set.     *)
LEMMA DraftSet ==
    ASSUME NEW s, NEW v, draft' = Set(draft, s, v)
    PROVE  /\ DOMAIN draft' = DOMAIN draft \cup {s}
           /\ Listed(draft', s) = v
           /\ \A t : t # s => Listed(draft', t) = Listed(draft, t)
BY DEF Set, Listed

(* A click queues its scope, and every other draft stays.                  *)
LEMMA ClickInv ==
    ASSUME IInv, TypeOK', NEW s \in Scopes, NEW m \in Models, NEW hide \in BOOLEAN,
           Click(s, m, hide)
    PROVE  IInv'
<1>1. /\ DOMAIN draft' = DOMAIN draft \cup {s}
      /\ \A t : t # s => Listed(draft', t) = Listed(draft, t)
  BY DraftSet DEF Click
<1>2. UNCHANGED <<policies, known, flight, stored, active, last, edited>>
  BY DEF Click, history
<1>3. queue \in Seq(Scopes) /\ queue' = Append(queue, s)
  BY DEF Click, IInv, TypeOK
<1>4. Queued(s)' /\ \A t : Queued(t) => Queued(t)'
  <2>1. \E i \in DOMAIN queue' : queue'[i] = s
    BY <1>3, AppendHas
  <2>2. \A t : (\E i \in DOMAIN queue : queue[i] = t)
                  => \E i \in DOMAIN queue' : queue'[i] = t
    <3>1. \A i \in DOMAIN queue : i \in DOMAIN queue' /\ queue'[i] = queue[i]
      BY <1>3
    <3> QED BY <3>1, Zenon
  <2> QED BY <2>1, <2>2 DEF Queued
<1>5. WritesHaveDrafts'
  <2>1. \A i \in DOMAIN queue' : queue'[i] = s \/ \E j \in DOMAIN queue : queue[j] = queue'[i]
    BY <1>3, AppendHas
  <2> QED BY <1>1, <1>2, <2>1 DEF IInv, WritesHaveDrafts, InFlight
<1>6. EntriesHaveDrafts'
  BY <1>1, <1>2 DEF IInv, EntriesHaveDrafts, InFlight
<1>7. RestIsKept'
  BY <1>2 DEF IInv, RestIsKept, InFlight, Shown
<1>8. FlightHasDrafts'
  BY <1>1, <1>2, <1>4 DEF IInv, FlightHasDrafts, InFlight
<1>9. FlightIsStored'
  BY <1>2 DEF IInv, FlightIsStored
<1>10. StoredHasDrafts'
  BY <1>1, <1>2, <1>4 DEF IInv, StoredHasDrafts
<1> QED
  BY <1>5, <1>6, <1>7, <1>8, <1>9, <1>10 DEF IInv

(* The table sent has every draft of this moment.                          *)
LEMMA SendInv ==
    ASSUME IInv, TypeOK', Send
    PROVE  IInv'
<1>1. UNCHANGED <<policies, draft, known, stored, active, last, edited>>
  BY DEF Send, page, history
<1>2. /\ flight'.phase = "sent" /\ flight'.scope = Head(queue)
      /\ flight'.table = AccessTable
  BY DEF Send
<1>3. queue \in Seq(Scopes) /\ queue # <<>> /\ queue' = Tail(queue)
  BY DEF Send, IInv, TypeOK
<1>4. InFlight' /\ flight' # NoFlight /\ flight'.phase # "stored"
  BY <1>2 DEF InFlight, NoFlight
<1>5. /\ \A s : Deny(AccessTable, s) = Listed(draft, s)
      /\ DOMAIN AccessTable \subseteq DOMAIN draft \cup DOMAIN known
      /\ \A s \in DOMAIN draft \cup DOMAIN known : Rest(AccessTable, s) = Shown(s)
  BY AccessTableSays DEF IInv
<1>6. WritesHaveDrafts'
  BY <1>1, <1>2, <1>3, TailHas DEF IInv, WritesHaveDrafts
<1>7. EntriesHaveDrafts'
  BY <1>1, <1>2, <1>5 DEF IInv, EntriesHaveDrafts
<1>8. RestIsKept'
  <2> SUFFICES ASSUME NEW s \in Scopes \ edited
               PROVE  Rest(AccessTable, s) = Rest(stored, s)
    BY <1>1, <1>2 DEF IInv, RestIsKept, Shown
  <2>1. CASE s \in DOMAIN draft \cup DOMAIN known
    BY <1>5, <2>1 DEF IInv, RestIsKept
  <2>2. CASE s \notin DOMAIN draft \cup DOMAIN known
    BY <1>5, <2>2 DEF IInv, EntriesHaveDrafts, Rest
  <2> QED
    BY <2>1, <2>2
<1>9. FlightHasDrafts'
  BY <1>1, <1>2, <1>5 DEF FlightHasDrafts
<1>10. FlightIsStored' /\ StoredHasDrafts'
  BY <1>4 DEF FlightIsStored, StoredHasDrafts
<1> QED
  BY <1>6, <1>7, <1>8, <1>9, <1>10 DEF IInv

(* CPA has the table in flight.                                            *)
LEMMA StoreInv ==
    ASSUME IInv, TypeOK', Store
    PROVE  IInv'
<1>1. UNCHANGED <<policies, draft, known, queue, active, edited>>
  BY DEF Store, page
<1>2. InFlight /\ stored' = flight.table
  BY DEF Store, InFlight
<1>3. /\ flight'.phase = "stored" /\ flight'.scope = flight.scope
      /\ flight'.table = flight.table
  BY <1>2, FlightTyped DEF Store, IInv
<1>4. InFlight' /\ flight' # NoFlight
  BY <1>3 DEF InFlight, NoFlight
<1>5. WritesHaveDrafts'
  BY <1>1, <1>2, <1>3 DEF IInv, WritesHaveDrafts
<1>6. EntriesHaveDrafts'
  BY <1>1, <1>2, <1>3 DEF IInv, EntriesHaveDrafts
<1>7. RestIsKept'
  BY <1>1, <1>2, <1>3 DEF IInv, RestIsKept, Shown
<1>8. FlightHasDrafts'
  BY <1>1, <1>2, <1>3 DEF IInv, FlightHasDrafts, Queued
<1>9. FlightIsStored' /\ StoredHasDrafts'
  BY <1>2, <1>3, <1>4 DEF FlightIsStored, StoredHasDrafts
<1> QED
  BY <1>5, <1>6, <1>7, <1>8, <1>9 DEF IInv

(* What was sent is stored, and the drafts are what was sent.              *)
LEMMA ConfirmInv ==
    ASSUME IInv, TypeOK', Confirm
    PROVE  IInv'
<1>1. UNCHANGED <<policies, draft, queue, stored, active, last, edited>>
  BY DEF Confirm, history
<1>2. InFlight /\ flight.phase = "stored" /\ flight' = NoFlight
  BY DEF Confirm, InFlight
<1>3. ~InFlight' /\ flight'.phase # "stored"
  BY <1>2 DEF InFlight, NoFlight
<1>4. DOMAIN known' = DOMAIN known \cup {flight.scope}
  BY DEF Confirm, Set
<1>5. WritesHaveDrafts'
  BY <1>1, <1>3 DEF IInv, WritesHaveDrafts
<1>6. EntriesHaveDrafts'
  BY <1>1, <1>2, <1>3, <1>4 DEF IInv, EntriesHaveDrafts, WritesHaveDrafts
<1>7. RestIsKept'
  BY <1>1, <1>3 DEF IInv, RestIsKept, Shown
<1>8. FlightHasDrafts' /\ FlightIsStored'
  BY <1>3 DEF FlightHasDrafts, FlightIsStored
<1>9. StoredHasDrafts'
  BY <1>1, <1>2 DEF IInv, FlightHasDrafts, FlightIsStored, StoredHasDrafts, Queued
<1> QED
  BY <1>5, <1>6, <1>7, <1>8, <1>9 DEF IInv

(* A failed write only changes a draft, and is remembered as the last one. *)
LEMMA RollBackInv ==
    ASSUME IInv, TypeOK', RollBack
    PROVE  IInv'
<1>1. UNCHANGED <<policies, known, queue, stored, active, edited>>
  BY DEF RollBack
<1>2. flight' = NoFlight /\ last' = "failed"
  BY DEF RollBack
<1>3. ~InFlight' /\ flight'.phase # "stored"
  BY <1>2 DEF InFlight, NoFlight
<1>4. DOMAIN draft' = DOMAIN draft \cup {flight.scope}
  BY DraftSet DEF RollBack
<1>5. WritesHaveDrafts'
  BY <1>1, <1>3, <1>4 DEF IInv, WritesHaveDrafts
<1>6. EntriesHaveDrafts'
  BY <1>1, <1>3, <1>4 DEF IInv, EntriesHaveDrafts
<1>7. RestIsKept'
  BY <1>1, <1>3 DEF IInv, RestIsKept, Shown
<1>8. FlightHasDrafts' /\ FlightIsStored' /\ StoredHasDrafts'
  BY <1>2, <1>3 DEF FlightHasDrafts, FlightIsStored, StoredHasDrafts
<1> QED
  BY <1>5, <1>6, <1>7, <1>8 DEF IInv

(* A load brings new drafts only for scopes edited elsewhere.              *)
LEMMA LoadInv ==
    ASSUME IInv, TypeOK', Load
    PROVE  IInv'
<1>1. UNCHANGED <<queue, flight, stored, active, last, edited>>
  BY DEF Load, history
<1>2. /\ DOMAIN draft' = DOMAIN draft \cup DOMAIN active
      /\ \A s \in DOMAIN draft : draft'[s] = draft[s]
  BY DEF Load
<1>3. \A s \in DOMAIN draft : Listed(draft', s) = Listed(draft, s)
  BY <1>2 DEF Listed
<1>4. \A s \in Scopes \ edited : Listed(draft', s) = Listed(draft, s)
  BY <1>2, <1>3 DEF IInv, EntriesHaveDrafts, Listed
<1>5. DOMAIN known' = DOMAIN active
  BY DEF Load, Denies
<1>6. \A s : Shown(s)' = Rest(active, s)
  BY DEF Load, Shown, Rests, Rest
<1>7. WritesHaveDrafts'
  BY <1>1, <1>2 DEF IInv, WritesHaveDrafts, InFlight
<1>8. EntriesHaveDrafts'
  BY <1>1, <1>2, <1>5 DEF IInv, EntriesHaveDrafts, InFlight
<1>9. RestIsKept'
  BY <1>1, <1>6 DEF IInv, RestIsKept, InFlight
<1>10. FlightHasDrafts'
  BY <1>1, <1>3, <1>4 DEF IInv, FlightHasDrafts, WritesHaveDrafts, InFlight, Queued
<1>11. FlightIsStored'
  BY <1>1 DEF IInv, FlightIsStored
<1>12. StoredHasDrafts'
  BY <1>1, <1>4 DEF IInv, StoredHasDrafts, Queued
<1> QED
  BY <1>7, <1>8, <1>9, <1>10, <1>11, <1>12 DEF IInv

(* The table in force becomes the stored one.                              *)
LEMMA HotReloadInv ==
    ASSUME IInv, TypeOK', HotReload
    PROVE  IInv'
<1>1. UNCHANGED <<policies, draft, known, queue, flight, stored, last, edited>>
      /\ active' = stored
  BY DEF HotReload, page, history
<1> QED
  BY <1>1 DEF IInv, WritesHaveDrafts, EntriesHaveDrafts, RestIsKept, FlightHasDrafts,
              FlightIsStored, StoredHasDrafts, InFlight, Shown, Queued

(* Somebody else's entry only concerns its own scope.                      *)
LEMMA EditInv ==
    ASSUME IInv, TypeOK', NEW s, NEW entry, EditElsewhere(s, entry)
    PROVE  IInv'
<1>1. UNCHANGED <<policies, draft, known, queue, flight, active, last>>
  BY DEF EditElsewhere, page
<1>2. edited' = edited \cup {s} /\ DOMAIN stored' = DOMAIN stored \cup {s}
  BY SetAt DEF EditElsewhere
<1>3. \A t : t # s => /\ Deny(stored', t) = Deny(stored, t)
                      /\ Rest(stored', t) = Rest(stored, t)
  BY SetEntries DEF EditElsewhere
<1>4. WritesHaveDrafts'
  BY <1>1 DEF IInv, WritesHaveDrafts, InFlight
<1>5. EntriesHaveDrafts'
  BY <1>1, <1>2 DEF IInv, EntriesHaveDrafts, InFlight
<1>6. RestIsKept'
  BY <1>1, <1>2, <1>3 DEF IInv, RestIsKept, InFlight, Shown
<1>7. FlightHasDrafts'
  BY <1>1, <1>2 DEF IInv, FlightHasDrafts, InFlight, Queued
<1>8. FlightIsStored' /\ StoredHasDrafts'
  BY <1>1, <1>2, <1>3 DEF IInv, FlightIsStored, StoredHasDrafts, Queued
<1> QED
  BY <1>4, <1>5, <1>6, <1>7, <1>8 DEF IInv

(* Every step keeps the invariant.                                         *)
LEMMA InvStep == IInv /\ [Next]_vars => IInv'
<1> SUFFICES ASSUME IInv, [Next]_vars PROVE IInv'
  OBVIOUS
<1>1. TypeOK'
  BY TypeStep DEF IInv
<1>2. ASSUME NEW s \in Scopes, NEW m \in Models, NEW hide \in BOOLEAN, Click(s, m, hide)
      PROVE  IInv'
  BY <1>1, <1>2, ClickInv
<1>3. ASSUME NEW edit \in Edits, EditElsewhere(edit[1], edit[2])
      PROVE  IInv'
  BY <1>1, <1>3, EditInv
<1>4. CASE UNCHANGED vars
  BY <1>4 DEF vars, page, history, IInv, TypeOK, WritesHaveDrafts, EntriesHaveDrafts,
              RestIsKept, FlightHasDrafts, FlightIsStored, StoredHasDrafts, InFlight,
              Shown, Queued
<1> QED
  BY <1>1, <1>2, <1>3, <1>4, SendInv, StoreInv, ConfirmInv, RollBackInv, LoadInv,
     HotReloadInv DEF Next

(* The invariant holds in every reachable state.                           *)
LEMMA Invariance == Spec => []IInv
BY InvInit, InvStep, PTL DEF Spec

(* When every write is done and the last one was stored, CPA holds what    *)
(* the panel shows for every key, whatever the keys, the models, the       *)
(* failures, the loads and the clicks in between were, clicks that a       *)
(* failed write took off the screen included.  panel.html:595-624.         *)
THEOREM SavedInTheEnd == Spec => []ScreenIsSaved
<1>1. IInv => ScreenIsSaved
  BY DEF IInv, StoredHasDrafts, ScreenIsSaved, Drained, Queued
<1> QED
  BY <1>1, Invariance, PTL

(* Only the end of a write takes its scope out of flight.                  *)
LEMMA FlightEnds ==
    ASSUME IInv, [Next]_vars, NEW s \in Scopes, flight.scope = s, flight'.scope # s
    PROVE  InFlight /\ (Confirm \/ RollBack)
<1>1. InFlight
  BY FlightTyped, PanelConstants DEF IInv
<1>2. flight # flight'
  OBVIOUS
<1>3. ~Send /\ ~(\E t \in Scopes, m \in Models, hide \in BOOLEAN : Click(t, m, hide))
  BY <1>1, <1>2 DEF Send, Click, InFlight
<1>4. ~Store
  BY <1>1, FlightTyped DEF Store, IInv
<1>5. ~Load /\ ~HotReload /\ ~UNCHANGED vars /\ ~(\E edit \in Edits : EditElsewhere(edit[1], edit[2]))
  BY <1>2 DEF Load, HotReload, vars, EditElsewhere
<1> QED
  BY <1>1, <1>3, <1>4, <1>5 DEF Next

(* When the last queued write of a key ends, the panel shows for that key  *)
(* what it would roll back to: no failed click stays on the screen.        *)
THEOREM NothingUnsavedIsShown == Spec => EndedWritesAgree
<1> DEFINE Agree == \A s \in Scopes :
                      (flight.scope = s /\ flight'.scope # s /\ ~Queued(s))
                         => Listed(draft', s) = Listed(known', s)
<1>1. IInv /\ [Next]_vars => Agree
  <2> SUFFICES ASSUME IInv, [Next]_vars, NEW s \in Scopes,
                      flight.scope = s, flight'.scope # s, ~Queued(s)
               PROVE  Listed(draft', s) = Listed(known', s)
    OBVIOUS
  <2>1. InFlight /\ (Confirm \/ RollBack)
    BY FlightEnds
  <2>2. CASE Confirm
    <3>1. Listed(known', s) = Deny(flight.table, s) /\ draft' = draft
      BY <2>2, SetLists DEF Confirm
    <3> QED
      BY <2>1, <3>1 DEF IInv, FlightHasDrafts
  <2>3. CASE RollBack
    BY <2>3, SetLists DEF RollBack
  <2> QED
    BY <2>1, <2>2, <2>3
<1> QED
  BY <1>1, Invariance, PTL DEF Spec, EndedWritesAgree

(* A write that succeeds makes the baseline what CPA stored for its key.   *)
THEOREM BaselineIsTrue == Spec => BaselineIsStored
<1> DEFINE Agree == \A s \in Scopes \ edited' :
                      (flight.scope = s /\ flight'.scope # s /\ last' = "stored")
                         => Listed(known', s) = Deny(stored', s)
<1>1. IInv /\ [Next]_vars => Agree
  <2> SUFFICES ASSUME IInv, [Next]_vars, NEW s \in Scopes \ edited',
                      flight.scope = s, flight'.scope # s, last' = "stored"
               PROVE  Listed(known', s) = Deny(stored', s)
    OBVIOUS
  <2>1. Confirm
    BY FlightEnds DEF RollBack
  <2>2. Listed(known', s) = Deny(flight.table, s)
    BY <2>1, SetLists DEF Confirm
  <2>3. stored' = stored /\ edited' = edited /\ flight.phase = "stored"
    BY <2>1 DEF Confirm, history
  <2> QED
    BY <2>2, <2>3 DEF IInv, FlightIsStored
<1> QED
  BY <1>1, Invariance, PTL DEF Spec, BaselineIsStored

(* No step takes away the label or the allow list of an entry that nobody  *)
(* edited elsewhere.                                                       *)
THEOREM FieldsSurvive == Spec => OtherFieldsSurvive
<1> DEFINE Survive == \A s \in Scopes \ edited' : Rest(stored', s) = Rest(stored, s)
<1>1. IInv /\ [Next]_vars => Survive
  <2> SUFFICES ASSUME IInv, [Next]_vars, NEW s \in Scopes \ edited'
               PROVE  Rest(stored', s) = Rest(stored, s)
    OBVIOUS
  <2>1. CASE Store
    BY <2>1 DEF Store, InFlight, IInv, RestIsKept
  <2>2. ASSUME NEW edit \in Edits, EditElsewhere(edit[1], edit[2])
        PROVE  Rest(stored', s) = Rest(stored, s)
    BY <2>2, SetEntries DEF EditElsewhere
  <2>3. CASE stored' = stored
    BY <2>3
  <2> QED
    BY <2>1, <2>2, <2>3
       DEF Next, Click, Send, Confirm, RollBack, Load, HotReload, vars
<1> QED
  BY <1>1, Invariance, PTL DEF Spec, OtherFieldsSurvive
=============================================================================
