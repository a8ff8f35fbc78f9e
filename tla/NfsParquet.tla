----------------------------- MODULE NfsParquet -----------------------------
(***************************************************************************)
(* The parquet files of the Delta table as seen over NFS                   *)
(* (src/fsdb/src/nfs/server.rs): refresh_parquet_files, LOOKUP and READDIR *)
(* in DATA_DIR, GETATTR and READ of the ids from PARQUET_FILE_ID_START,    *)
(* with the map parquet_files (id -> file name) behind a tokio Mutex, the  *)
(* attribute cache of those ids and the content cache entries              *)
(* "csv:file:<path>".  The Delta engine (DatabaseOps) writes data files    *)
(* into base_path and vacuums them: here that is the environment.          *)
(***************************************************************************)
EXTENDS NfsCommon, Functions

CONSTANTS
    Files,       \* names of the parquet files the engine may write
    FileSize,    \* size of each parquet file (data files are immutable)
    MaxEntries,  \* max_entries values a READDIR may carry
    DirOrder     \* the rank of each name in std::fs::read_dir's order

\* read_dir's order is unspecified but, as on a hashed directory, the same
\* for the same entries: entries are listed by a fixed rank of their names.
ASSUME ParquetAssumption ==
    /\ IsFiniteSet(Files)
    /\ FileSize \in [Files -> Nat]
    /\ MaxEntries \subseteq Nat
    /\ DirOrder \in [Files -> Nat]
    /\ IsInjective(DirOrder)

VARIABLES
    dir,            \* parquet files present in base_path
    created,        \* parquet files ever written (Delta never reuses a name)
    parquet_files,  \* FsdbFilesystem.parquet_files: file id -> file name
    attr_cache,     \* AttrCache entries of parquet ids: cached size, or Nil
    file_cache,     \* NfsCache entries "csv:file:<path>": the paths cached
    handle,         \* an <<id, name>> the server handed to a client, or Nil
    listing         \* the last READDIR reply, or Nil

vars == <<dir, created, parquet_files, attr_cache, file_cache, handle,
          listing, pc, arg, tmp>>

\* The ids a refresh can give out.
ParquetIds == PARQUET_FILE_ID_START .. PARQUET_FILE_ID_START + Cardinality(Files) - 1

\* The maps from the dense ids PARQUET_FILE_ID_START.. onto the files of S,
\* one per order of listing them.
Enumeration(S) ==
    {f \in [PARQUET_FILE_ID_START .. PARQUET_FILE_ID_START + Cardinality(S) - 1 -> S] :
        IsInjective(f)}

\* The enumeration of S in read_dir order: ids increase with the rank.
ReadDirOrder(S) ==
    {f \in Enumeration(S) :
        \A i, j \in DOMAIN f : i < j => DirOrder[f[i]] < DirOrder[f[j]]}

EmptyMap == [i \in {} |-> Nil]

\* Mutant: ids numbered from PARQUET_FILE_ID_START - 1.
MutRefreshFrom99 ==
    \E listed \in (IF Faults THEN SUBSET dir ELSE {dir}) :
        \E f \in [PARQUET_FILE_ID_START - 1 .. PARQUET_FILE_ID_START + Cardinality(listed) - 2
                  -> listed] :
            /\ IsInjective(f)
            /\ \A i, j \in DOMAIN f : i < j => DirOrder[f[i]] < DirOrder[f[j]]
            /\ parquet_files' = f

\* refresh_parquet_files (lines 109-145), one step under the mutex: clear
\* the map, list base_path, number its parquet files from
\* PARQUET_FILE_ID_START.  An entry that fails to read is skipped
\* (line 123); a failing read_dir returns NFS3ERR_IO and leaves the map
\* cleared (lines 113, 140-143).
RefreshOk ==
    \E listed \in (IF Faults THEN SUBSET dir ELSE {dir}) :
        parquet_files' \in ReadDirOrder(listed)

RefreshFails ==
    /\ Faults
    /\ parquet_files' = EmptyMap

\* Requests on the parquet files that reach state.
Requests ==
    [op: {"lookup"}, name: Files]
    \cup [op: {"getattr"}, id: ParquetIds]
    \cup [op: {"read"}, id: ParquetIds, offset: {0, 1}]
    \cup [op: {"readdir"}, start: {0, PARQUET_FILE_ID_START}, max: MaxEntries]

Init ==
    /\ dir = {}
    /\ created = {}
    /\ parquet_files = EmptyMap
    /\ attr_cache = [i \in ParquetIds |-> Nil]
    /\ file_cache = {}
    /\ handle = Nil
    /\ listing = Nil
    /\ TasksInit

\* nfsserve decodes an RPC and calls the handler for it.
FirstStep(r) ==
    CASE r.op = "lookup" -> "lookup_refresh"
      [] r.op = "getattr" -> "getattr_cache"
      [] r.op = "read" -> "read_path"
      [] r.op = "readdir" -> "readdir_refresh"

Receive(t) ==
    /\ pc[t] = "idle"
    /\ \E r \in Requests :
          /\ arg' = [arg EXCEPT ![t] = r]
          /\ pc' = [pc EXCEPT ![t] = FirstStep(r)]
    /\ UNCHANGED <<tmp, dir, created, parquet_files, attr_cache, file_cache,
                   handle, listing>>

-----------------------------------------------------------------------------
(* LOOKUP in DATA_DIR of a name other than data.csv (lines 170-189):       *)
(* refresh the map, release the lock, lock again and search by name.       *)

LookupRefresh(t) ==
    /\ pc[t] = "lookup_refresh"
    /\ \/ RefreshOk /\ Continue(t, "lookup_search")
       \/ RefreshFails /\ Done(t)
    /\ UNCHANGED <<dir, created, attr_cache, file_cache, handle, listing>>

\* The id found is handed to the client; none found is NFS3ERR_NOENT.
LookupSearch(t) ==
    /\ pc[t] = "lookup_search"
    /\ LET ids == {i \in DOMAIN parquet_files : parquet_files[i] = arg[t].name}
       IN \/ ids = {} /\ UNCHANGED handle
          \/ \E i \in ids : handle' = <<i, arg[t].name>>
    /\ Done(t)
    /\ UNCHANGED <<dir, created, parquet_files, attr_cache, file_cache, listing>>

Lookup(t) == LookupRefresh(t) \/ LookupSearch(t)

-----------------------------------------------------------------------------
(* GETATTR of a parquet id (lines 195-243): attr_cache.get; on a miss,     *)
(* under the lock, the file size from fs::metadata, NFS3ERR_NOENT if the   *)
(* id is not in the map or the file is gone; then attr_cache.set.          *)

GetattrCache(t) ==
    /\ pc[t] = "getattr_cache"
    /\ \/ attr_cache[arg[t].id] # Nil /\ Done(t)
       \/ attr_cache[arg[t].id] = Nil /\ Continue(t, "getattr_compute")
    /\ UNCHANGED <<dir, created, parquet_files, attr_cache, file_cache,
                   handle, listing>>

GetattrCompute(t) ==
    /\ pc[t] = "getattr_compute"
    /\ LET id == arg[t].id
           found == id \in DOMAIN parquet_files /\ parquet_files[id] \in dir
       IN \/ found /\ ContinueWith(t, "getattr_set", FileSize[parquet_files[id]])
          \/ (~found \/ Faults) /\ Done(t)
    /\ UNCHANGED <<dir, created, parquet_files, attr_cache, file_cache,
                   handle, listing>>

GetattrSet(t) ==
    /\ pc[t] = "getattr_set"
    /\ attr_cache' = [attr_cache EXCEPT ![arg[t].id] = tmp[t]]
    /\ Done(t)
    /\ UNCHANGED <<dir, created, parquet_files, file_cache, handle, listing>>

Getattr(t) == GetattrCache(t) \/ GetattrCompute(t) \/ GetattrSet(t)

-----------------------------------------------------------------------------
(* READ of a parquet id (lines 289-330): the path from the map under the   *)
(* lock (NFS3ERR_NOENT if absent), cache.get("csv:file:<path>"), read the  *)
(* file (NFS3ERR_IO if it fails), and at offset 0 fill the cache.  The     *)
(* file is immutable, so get_full_content and insert are one step; the     *)
(* trailing size() only sets eof.                                          *)

ReadPath(t) ==
    /\ pc[t] = "read_path"
    /\ \/ /\ arg[t].id \in DOMAIN parquet_files
          /\ ContinueWith(t, IF CacheEnabled THEN "read_cache" ELSE "read_gen",
                          parquet_files[arg[t].id])
       \/ arg[t].id \notin DOMAIN parquet_files /\ Done(t)
    /\ UNCHANGED <<dir, created, parquet_files, attr_cache, file_cache,
                   handle, listing>>

ReadCache(t) ==
    /\ pc[t] = "read_cache"
    /\ \/ tmp[t] \in file_cache /\ Done(t)
       \/ (tmp[t] \notin file_cache \/ Faults) /\ Continue(t, "read_gen")
    /\ UNCHANGED <<dir, created, parquet_files, attr_cache, file_cache,
                   handle, listing>>

ReadGen(t) ==
    /\ pc[t] = "read_gen"
    /\ \/ (tmp[t] \notin dir \/ Faults) /\ Done(t)
       \/ tmp[t] \in dir /\ arg[t].offset = 0 /\ CacheEnabled /\ Continue(t, "read_fill")
       \/ tmp[t] \in dir /\ ~(arg[t].offset = 0 /\ CacheEnabled) /\ Done(t)
    /\ UNCHANGED <<dir, created, parquet_files, attr_cache, file_cache,
                   handle, listing>>

ReadFill(t) ==
    /\ pc[t] = "read_fill"
    /\ \/ tmp[t] \in dir /\ file_cache' = file_cache \cup {tmp[t]}
       \/ (tmp[t] \notin dir \/ Faults) /\ UNCHANGED file_cache
    /\ Done(t)
    /\ UNCHANGED <<dir, created, parquet_files, attr_cache, handle, listing>>

Read(t) == ReadPath(t) \/ ReadCache(t) \/ ReadGen(t) \/ ReadFill(t)

-----------------------------------------------------------------------------
(* READDIR of DATA_DIR (lines 458-510).  data.csv is listed first when     *)
(* start_after < DATA_CSV_ID, whatever max_entries is; the map is          *)
(* refreshed, then walked in HashMap order, listing each id > start_after  *)
(* while fewer than max_entries entries are listed; the reply always says  *)
(* end = true.  tmp counts the entries listed so far.                      *)

ReaddirRefresh(t) ==
    /\ pc[t] = "readdir_refresh"
    /\ \/ /\ RefreshOk
          /\ ContinueWith(t, "readdir_list",
                          IF arg[t].start < DATA_CSV_ID THEN 1 ELSE 0)
       \/ RefreshFails /\ Done(t)
    /\ UNCHANGED <<dir, created, attr_cache, file_cache, handle, listing>>

\* The client keeps a handle of one of the files listed.
ReaddirList(t) ==
    /\ pc[t] = "readdir_list"
    /\ LET eligible == {i \in DOMAIN parquet_files : i > arg[t].start}
           room == IF arg[t].max > tmp[t] THEN arg[t].max - tmp[t] ELSE 0
           n == IF Cardinality(eligible) < room THEN Cardinality(eligible) ELSE room
       IN \E listed \in SUBSET eligible :
             /\ Cardinality(listed) = n
             /\ listing' = [eligible |-> eligible, ids |-> listed, end |-> TRUE]
             /\ \/ listed = {} /\ UNCHANGED handle
                \/ \E i \in listed : handle' = <<i, parquet_files[i]>>
    /\ Done(t)
    /\ UNCHANGED <<dir, created, parquet_files, attr_cache, file_cache>>

Readdir(t) == ReaddirRefresh(t) \/ ReaddirList(t)

-----------------------------------------------------------------------------
(* Environment: the Delta engine writes a data file (a commit) or deletes  *)
(* one (vacuum); the caches drop entries (capacity, expiry).               *)

DataFileWritten(f) ==
    /\ f \notin created
    /\ created' = created \cup {f}
    /\ dir' = dir \cup {f}
    /\ UNCHANGED <<parquet_files, attr_cache, file_cache, handle, listing,
                   pc, arg, tmp>>

DataFileVacuumed(f) ==
    /\ f \in dir
    /\ dir' = dir \ {f}
    /\ UNCHANGED <<created, parquet_files, attr_cache, file_cache, handle,
                   listing, pc, arg, tmp>>

FileCacheEvict(f) ==
    /\ f \in file_cache
    /\ file_cache' = file_cache \ {f}
    /\ UNCHANGED <<dir, created, parquet_files, attr_cache, handle, listing,
                   pc, arg, tmp>>

AttrExpire(i) ==
    /\ attr_cache[i] # Nil
    /\ attr_cache' = [attr_cache EXCEPT ![i] = Nil]
    /\ UNCHANGED <<dir, created, parquet_files, file_cache, handle, listing,
                   pc, arg, tmp>>

Next ==
    \/ \E t \in Tasks :
          Receive(t) \/ Lookup(t) \/ Getattr(t) \/ Read(t) \/ Readdir(t)
    \/ \E f \in Files :
          DataFileWritten(f) \/ DataFileVacuumed(f) \/ FileCacheEvict(f)
    \/ \E i \in ParquetIds : AttrExpire(i)

Spec == Init /\ [][Next]_vars

-----------------------------------------------------------------------------
(* Properties                                                              *)

\* The steps of the handlers, and the request and the local each works on.
Steps ==
    {"idle", "lookup_refresh", "lookup_search",
     "getattr_cache", "getattr_compute", "getattr_set",
     "read_path", "read_cache", "read_gen", "read_fill",
     "readdir_refresh", "readdir_list"}

StepArgs(l) ==
    CASE l \in {"lookup_refresh", "lookup_search"} -> [op: {"lookup"}, name: Files]
      [] l \in {"getattr_cache", "getattr_compute", "getattr_set"} ->
            [op: {"getattr"}, id: ParquetIds]
      [] l \in {"read_path", "read_cache", "read_gen", "read_fill"} ->
            [op: {"read"}, id: ParquetIds, offset: {0, 1}]
      [] l \in {"readdir_refresh", "readdir_list"} ->
            [op: {"readdir"}, start: {0, PARQUET_FILE_ID_START}, max: MaxEntries]
      [] OTHER -> {Nil}

StepTmp(l) ==
    CASE l \in {"getattr_set", "readdir_list"} -> Nat
      [] l \in {"read_cache", "read_gen", "read_fill"} -> Files
      [] OTHER -> {Nil}

\* Type invariant: every variable has its type, the map gives out ids from
\* PARQUET_FILE_ID_START only, and each task holds the request and the local
\* its current step of the handler expects.
TypeOK ==
    /\ created \subseteq Files
    /\ dir \subseteq created
    /\ parquet_files \in [DOMAIN parquet_files -> Files]
    /\ DOMAIN parquet_files \subseteq ParquetIds
    /\ attr_cache \in [ParquetIds -> {Nil} \cup Nat]
    /\ file_cache \subseteq Files
    /\ handle \in {Nil} \cup (ParquetIds \X Files)
    /\ listing \in {Nil} \cup [eligible: SUBSET ParquetIds,
                               ids: SUBSET ParquetIds, end: BOOLEAN]
    /\ pc \in [Tasks -> Steps]
    /\ arg \in [Tasks -> {Nil} \cup Requests]
    /\ tmp = [u \in Tasks |-> tmp[u]]
    /\ \A t \in Tasks : arg[t] \in StepArgs(pc[t]) /\ tmp[t] \in StepTmp(pc[t])

\* A file id handed to a client by LOOKUP or READDIR never comes to denote
\* another file: while the id is in the map it maps to the same name
\* (refresh_parquet_files renumbers on every call, lines 113-131).
FileIdStable ==
    handle # Nil /\ handle[1] \in DOMAIN parquet_files
        => parquet_files[handle[1]] = handle[2]

\* A READDIR reply that says end = true lists every parquet id after
\* start_after, so a client that stops there has seen the whole directory
\* (lines 481-510).
ReaddirComplete ==
    listing # Nil /\ listing.end => listing.eligible \subseteq listing.ids

\* The size GETATTR serves from the attribute cache for a parquet id
\* (lines 199-201) is the size of the file that id names now: the cache is
\* keyed by id (line 240) and refresh_parquet_files renumbers the files.
ParquetAttrCoherent ==
    \A i \in DOMAIN parquet_files :
        attr_cache[i] # Nil /\ parquet_files[i] \in dir
            => attr_cache[i] = FileSize[parquet_files[i]]
=============================================================================
