\* Every pattern up to five symbols against every id up to five letters.
SPECIFICATION Spec
CONSTANTS
    Letters = {"a", "b"}
    Star = "*"
    PatternBound = 5
    IdBound = 5
CHECK_DEADLOCK FALSE
INVARIANTS MatchesOnlyWhatItDenotes OnlyRepeatedEndingsMiss
