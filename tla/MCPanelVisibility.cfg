\* Clicks, failing writes, reloads and edits elsewhere, in every order.
SPECIFICATION FairSpec
CONSTANTS
    Scopes = {"s1", "s2"}
    Models <- MCModels
    Kept = {"none", "allow", "other"}
    NoKept = "none"
    NoScope = NoScope
    Tables <- MCTables
    Edits <- MCEdits
    QueueBound = 2
    EditBound = 1
INVARIANTS TypeOK ScreenIsSaved
PROPERTIES EndedWritesAgree BaselineIsStored OtherFieldsSurvive
    QueuedWritesAreSent LastClickTakesEffect
