\* Two requests on data.csv at once, built without a content cache, faults.
CONSTANTS
    Tasks = {t1, t2}
    Rows = {r1, r2}
    CacheEnabled = FALSE
    Faults = TRUE
    Nil = Nil
SPECIFICATION Spec
PROPERTY Linearizable
