\* One request on data.csv at a time, content cache on, every call may fail.
CONSTANTS
    Tasks = {t1}
    Rows = {r1, r2}
    CacheEnabled = TRUE
    Faults = TRUE
    Nil = Nil
SPECIFICATION HSpec
INVARIANT NoPhantomRows
