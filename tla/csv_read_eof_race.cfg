\* Two requests on data.csv at once, built without a content cache, no faults.
CONSTANTS
    Tasks = {t1, t2}
    Rows = {r1, r2}
    CacheEnabled = FALSE
    Faults = FALSE
    Nil = Nil
SPECIFICATION Spec
INVARIANT ReadEofExact
