SPECIFICATION Spec
CONSTANTS
    Ids = {i1, i2}
    Handles = {h1, h2}
    Tasks = {t1, t2}
    i1 = i1
    i2 = i2
    h1 = h1
    h2 = h2
    t1 = t1
    t2 = t2
    None = None
SYMMETRY Symmetry
INVARIANT LiveEntryKept
INVARIANT AnswersWereTrue
