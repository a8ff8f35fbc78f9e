\* One request on data.csv at a time, no faults.
CONSTANTS
    Tasks = {t1}
    Rows = {r1, r2}
    CacheEnabled = TRUE
    Faults = FALSE
    Nil = Nil
SPECIFICATION Spec
INVARIANT AttrCoherent
