\* Editing, saving and reading the alias table, in every order.
SPECIFICATION Spec
CONSTANTS
    Spellings <- MCSpellings
    Texts <- MCTexts
    None = ""
    Lower <- MCLower
    Trim <- MCTrim
    Prefixed <- MCPrefixed
    Channels <- MCChannels
    Fold <- MCFold
    Extras = {"none", "forced"}
    Plain = "none"
    Tables <- MCTables
    Upstreams <- MCUpstreams
    Typing <- MCTyping
    NewRows <- MCNewRows
    Elsewhere <- MCElsewhere
    Savers = {s1, s2}
    EditBound = 3
SYMMETRY MCSymmetry
INVARIANTS TypeOK NothingUnsavedLooksSaved DropsAreAnnounced
    ReportAccountsForAll NothingCoveredIsProposed
PROPERTIES ConfirmedIsStored OnlyEditedChannelsAreSaved
