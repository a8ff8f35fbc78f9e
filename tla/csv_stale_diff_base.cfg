\* Two requests on data.csv at once, content cache on, no faults.
CONSTANTS
    Tasks = {t1, t2}
    Rows = {r1, r2}
    CacheEnabled = TRUE
    Faults = FALSE
    Nil = Nil
SPECIFICATION Spec
PROPERTY WriteExact
