\* Two worlds, one failed save and one crash: what the runtime gets done at last.
SPECIFICATION FairSpec
CONSTANTS
    c1 = c1
    c2 = c2
    c3 = c3
    s1 = s1
    s2 = s2
    Candidates = {c1, c2, c3}
    Symbols = {s1, s2}
    Briefs <- Pairs
    MaxPositions = 1
    MaxUnsaved = 1
    MaxCrashes = 1
PROPERTIES ForeignIsReported AccountingSettles
