\* Two slots and no faults: a maker fill is left open and entries go on.
SPECIFICATION Spec
CONSTANTS
    c1 = c1
    c2 = c2
    c3 = c3
    s1 = s1
    s2 = s2
    Candidates = {c1, c2, c3}
    Symbols = {s1, s2}
    Briefs <- Pairs
    MaxPositions = 2
    MaxUnsaved = 0
    MaxCrashes = 0
PROPERTIES BareStopsFrames
