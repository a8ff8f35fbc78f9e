\* One request on the parquet view at a time, no faults.
CONSTANTS
    Tasks = {t1}
    Files = {f1, f2}
    FileSize <- MC_FileSize
    DirOrder <- MC_DirOrder
    MaxEntries = {1}
    CacheEnabled = FALSE
    Faults = FALSE
    Nil = Nil
SPECIFICATION Spec
INVARIANT ReaddirComplete
