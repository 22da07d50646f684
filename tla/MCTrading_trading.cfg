\* Four worlds of three candidates, one failed save and one crash: the whole runtime.
SPECIFICATION Spec
CONSTANTS
    c1 = c1
    c2 = c2
    c3 = c3
    s1 = s1
    s2 = s2
    Candidates = {c1, c2, c3}
    Symbols = {s1, s2}
    Briefs <- Worlds
    MaxPositions = 1
    MaxUnsaved = 1
    MaxCrashes = 1
INVARIANTS TypeOK BooksAgree
PROPERTIES TradedOnce NakedStopsEntries SecondLegFollows
