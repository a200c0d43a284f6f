\* Refuted: a glob that ends in a letter may miss an id it denotes.
SPECIFICATION Spec
CONSTANTS
    Letters = {"a", "b"}
    Star = "*"
    PatternBound = 5
    IdBound = 5
CHECK_DEADLOCK FALSE
INVARIANT GlobsAreFaithful
