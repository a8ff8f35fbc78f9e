\* Two requests on the parquet view at once, content cache on, every directory, metadata and read call may fail.
CONSTANTS
    Tasks = {t1, t2}
    Files = {f1, f2}
    FileSize <- MC_FileSize
    DirOrder <- MC_DirOrder
    MaxEntries = {1}
    CacheEnabled = TRUE
    Faults = TRUE
    Nil = Nil
SYMMETRY MC_TaskSymmetry
SPECIFICATION Spec
INVARIANT TypeOK
