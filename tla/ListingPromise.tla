--------------------------- MODULE ListingPromise ---------------------------
(***************************************************************************)
(* What the plugin promises the clients of the host: whatever happens to   *)
(* the configuration while a listing is on its way, the answer is the      *)
(* host's own listing filtered by one snapshot and stably sorted by one    *)
(* snapshot, both in force at some moment between the call and its answer. *)
(* Everything that is not a model listing is returned as it came.          *)
(***************************************************************************)
EXTENDS ListingRules

CONSTANTS Requests, Calls

VARIABLES
    inForce,    \* the configuration a call would read now
    phase,      \* of each call: idle, busy or done
    asked,      \* what the call was about
    window,     \* the configurations in force since it began
    answer      \* the positions of the host's listing, as served

promiseVars == <<inForce, phase, asked, window, answer>>

Promised(c, w) ==
    IF Governed(c)
    THEN UNION {StableSorts(sorting, c.list, VisibleUnder(hiding, c)) :
                  hiding \in w, sorting \in w}
    ELSE {Identity(c)}

Init ==
    /\ inForce = DefaultConfig
    /\ phase = [r \in Requests |-> "idle"]
    /\ asked \in [Requests -> Calls]
    /\ window = [r \in Requests |-> {}]
    /\ answer = [r \in Requests |-> <<>>]

Change ==
    /\ inForce' \in Configs
    /\ window' = [r \in Requests |->
                    IF phase[r] = "busy" THEN window[r] \cup {inForce'} ELSE window[r]]
    /\ UNCHANGED <<phase, asked, answer>>

Ask(r, c) ==
    /\ phase[r] # "busy"
    /\ asked' = [asked EXCEPT ![r] = c]
    /\ window' = [window EXCEPT ![r] = {inForce}]
    /\ \/ /\ Governed(c)
          /\ phase' = [phase EXCEPT ![r] = "busy"]
          /\ answer' = [answer EXCEPT ![r] = <<>>]
       \/ /\ ~Governed(c)
          /\ phase' = [phase EXCEPT ![r] = "done"]
          /\ answer' = [answer EXCEPT ![r] = Identity(c)]
    /\ UNCHANGED inForce

Answer(r) ==
    /\ phase[r] = "busy"
    /\ phase' = [phase EXCEPT ![r] = "done"]
    /\ \E a \in Promised(asked[r], window[r]) : answer' = [answer EXCEPT ![r] = a]
    /\ UNCHANGED <<inForce, asked, window>>

Next ==
    \/ Change
    \/ \E r \in Requests : Answer(r) \/ \E c \in Calls : Ask(r, c)

Spec == Init /\ [][Next]_promiseVars
=============================================================================
