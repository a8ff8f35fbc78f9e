--------------------------- MODULE NfsParquetProofs ---------------------------
(***************************************************************************)
(* The type invariant of NfsParquet for every set of tasks, files, sizes,  *)
(* read_dir orders and READDIR sizes, whatever interleaving of LOOKUP,     *)
(* GETATTR, READ, READDIR, data file writes and vacuums happens.           *)
(*                                                                         *)
(* The hard part is that the map stays within ParquetIds: only a refresh   *)
(* changes parquet_files, and it replaces the whole map by a member of     *)
(* Enumeration(listed) (or by the empty map), whose ids are one per file   *)
(* of listed, a subset of Files.  Lemma EnumerationFacts says so.          *)
(***************************************************************************)
EXTENDS NfsParquet, FiniteSetTheorems, TLAPS

\* The ids a refresh gives out to a set of files S: an interval starting at
\* PARQUET_FILE_ID_START with exactly one id per file of S.
LEMMA IntervalFacts ==
    ASSUME NEW S, IsFiniteSet(S)
    PROVE  /\ IsFiniteSet(PARQUET_FILE_ID_START .. PARQUET_FILE_ID_START + Cardinality(S) - 1)
           /\ Cardinality(PARQUET_FILE_ID_START .. PARQUET_FILE_ID_START + Cardinality(S) - 1)
                = Cardinality(S)
<1>1. Cardinality(S) \in Nat
  BY FS_CardinalityType
<1>2. \A a, b \in Int : /\ IsFiniteSet(a .. b)
                        /\ Cardinality(a .. b) = IF a > b THEN 0 ELSE b - a + 1
  BY FS_Interval
<1>3. PARQUET_FILE_ID_START + Cardinality(S) - 1 \in Int
  BY <1>1 DEF PARQUET_FILE_ID_START
<1>4. /\ IsFiniteSet(PARQUET_FILE_ID_START .. PARQUET_FILE_ID_START + Cardinality(S) - 1)
      /\ Cardinality(PARQUET_FILE_ID_START .. PARQUET_FILE_ID_START + Cardinality(S) - 1)
           = IF PARQUET_FILE_ID_START > PARQUET_FILE_ID_START + Cardinality(S) - 1 THEN 0
             ELSE (PARQUET_FILE_ID_START + Cardinality(S) - 1) - PARQUET_FILE_ID_START + 1
  <2>1. PARQUET_FILE_ID_START \in Int
    BY DEF PARQUET_FILE_ID_START
  <2>2. QED
    BY <1>2, <1>3, <2>1, Zenon
<1>5. QED
  BY <1>1, <1>4 DEF PARQUET_FILE_ID_START

\* A map a refresh may build from a subset of the files written is typed,
\* numbers from PARQUET_FILE_ID_START densely, stays within ParquetIds and
\* gives no file two ids.
LEMMA EnumerationFacts ==
    ASSUME NEW S \in SUBSET Files, NEW f \in Enumeration(S)
    PROVE  /\ f \in [DOMAIN f -> Files]
           /\ DOMAIN f \subseteq ParquetIds
           /\ DOMAIN f = PARQUET_FILE_ID_START ..
                           PARQUET_FILE_ID_START + Cardinality(DOMAIN f) - 1
           /\ IsInjective(f)
<1>1. IsFiniteSet(S) /\ Cardinality(S) <= Cardinality(Files)
  BY ParquetAssumption, FS_Subset
<1>2. Cardinality(S) \in Nat /\ Cardinality(Files) \in Nat
  BY <1>1, ParquetAssumption, FS_CardinalityType
<1>3. DOMAIN f = PARQUET_FILE_ID_START .. PARQUET_FILE_ID_START + Cardinality(S) - 1
      /\ f \in [DOMAIN f -> S] /\ IsInjective(f)
  BY DEF Enumeration
<1>4. Cardinality(DOMAIN f) = Cardinality(S)
  BY <1>1, <1>3, IntervalFacts
<1>5. DOMAIN f \subseteq ParquetIds
  BY <1>1, <1>2, <1>3 DEF ParquetIds, PARQUET_FILE_ID_START
<1>6. QED
  BY <1>3, <1>4, <1>5

\* The map a failing refresh leaves behind is empty.
LEMMA EmptyMapFacts ==
    /\ EmptyMap \in [DOMAIN EmptyMap -> Files]
    /\ DOMAIN EmptyMap = {}
    /\ DOMAIN EmptyMap = PARQUET_FILE_ID_START ..
                           PARQUET_FILE_ID_START + Cardinality(DOMAIN EmptyMap) - 1
    /\ IsInjective(EmptyMap)
<1>1. DOMAIN EmptyMap = {}
  BY DEF EmptyMap
<1>2. Cardinality(DOMAIN EmptyMap) = 0
  BY <1>1, FS_EmptySet
<1>3. QED
  BY <1>1, <1>2 DEF EmptyMap, IsInjective, PARQUET_FILE_ID_START

\* What a refresh leaves in parquet_files is a dense, injective numbering
\* within ParquetIds.
LEMMA RefreshFacts ==
    ASSUME TypeOK, RefreshOk \/ RefreshFails
    PROVE  /\ parquet_files' \in [DOMAIN parquet_files' -> Files]
           /\ DOMAIN parquet_files' \subseteq ParquetIds
           /\ DOMAIN parquet_files' =
                PARQUET_FILE_ID_START ..
                  PARQUET_FILE_ID_START + Cardinality(DOMAIN parquet_files') - 1
           /\ IsInjective(parquet_files')
<1>1. CASE RefreshOk
  <2>1. PICK listed \in (IF Faults THEN SUBSET dir ELSE {dir}) :
               parquet_files' \in Enumeration(listed)
    BY <1>1 DEF RefreshOk, ReadDirOrder
  <2>2. listed \in SUBSET Files
    BY <2>1, CommonAssumption DEF TypeOK
  <2>3. QED
    BY <2>1, <2>2, EnumerationFacts
<1>2. CASE RefreshFails
  BY <1>2, EmptyMapFacts DEF RefreshFails
<1>3. QED
  BY <1>1, <1>2
-----------------------------------------------------------------------------
(* The type invariant.                                                     *)

\* TypeOK splits into the state of the server and the state of the tasks.
StateOK ==
    /\ created \subseteq Files
    /\ dir \subseteq created
    /\ parquet_files \in [DOMAIN parquet_files -> Files]
    /\ DOMAIN parquet_files \subseteq ParquetIds
    /\ attr_cache \in [ParquetIds -> {Nil} \cup Nat]
    /\ file_cache \subseteq Files
    /\ handle \in {Nil} \cup (ParquetIds \X Files)
    /\ listing \in {Nil} \cup [eligible: SUBSET ParquetIds,
                               ids: SUBSET ParquetIds, end: BOOLEAN]

TasksOK ==
    /\ pc \in [Tasks -> Steps]
    /\ arg \in [Tasks -> {Nil} \cup Requests]
    /\ tmp = [u \in Tasks |-> tmp[u]]
    /\ \A t \in Tasks : arg[t] \in StepArgs(pc[t]) /\ tmp[t] \in StepTmp(pc[t])

LEMMA TypeOKSplit == TypeOK <=> StateOK /\ TasksOK
  BY DEF TypeOK, StateOK, TasksOK

LEMMA TypeOKSplitNext == TypeOK' <=> StateOK' /\ TasksOK'
  BY DEF TypeOK, StateOK, TasksOK

\* The request sets of the steps are requests, and "idle" carries none.
LEMMA StepArgsFacts ==
    /\ \A l \in Steps : StepArgs(l) \subseteq {Nil} \cup Requests
    /\ "idle" \in Steps /\ StepArgs("idle") = {Nil}
    /\ StepTmp("idle") = {Nil}
  BY DEF Steps, StepArgs, Requests, StepTmp

\* A task that moves to step l with request a and local v keeps TasksOK,
\* when a and v are what step l expects.
LEMMA TaskMove ==
    ASSUME TasksOK, NEW t \in Tasks, NEW l \in Steps,
           NEW a \in StepArgs(l), NEW v \in StepTmp(l),
           pc' = [pc EXCEPT ![t] = l], arg' = [arg EXCEPT ![t] = a],
           tmp' = [tmp EXCEPT ![t] = v]
    PROVE  TasksOK'
<1>1. a \in {Nil} \cup Requests
  BY StepArgsFacts
<1>2. pc' \in [Tasks -> Steps] /\ arg' \in [Tasks -> {Nil} \cup Requests]
      /\ tmp' = [u \in Tasks |-> tmp'[u]]
  BY <1>1 DEF TasksOK
<1>3. ASSUME NEW u \in Tasks
      PROVE  arg'[u] \in StepArgs(pc'[u]) /\ tmp'[u] \in StepTmp(pc'[u])
  <2>1. CASE u = t
    BY <2>1 DEF TasksOK
  <2>2. CASE u # t
    <3>1. pc'[u] = pc[u] /\ arg'[u] = arg[u] /\ tmp'[u] = tmp[u]
      BY <2>2 DEF TasksOK
    <3>2. QED
      BY <3>1 DEF TasksOK
  <2>3. QED
    BY <2>1, <2>2
<1>4. QED
  BY <1>2, <1>3 DEF TasksOK

LEMMA DoneOK ==
    ASSUME TasksOK, NEW t \in Tasks, Done(t)
    PROVE  TasksOK'
<1>1. "idle" \in Steps /\ Nil \in StepArgs("idle") /\ Nil \in StepTmp("idle")
  BY StepArgsFacts
<1>2. QED
  BY <1>1, TaskMove, Zenon DEF Done

LEMMA ContinueOK ==
    ASSUME TasksOK, NEW t \in Tasks, NEW l \in Steps,
           arg[t] \in StepArgs(l), tmp[t] \in StepTmp(l), Continue(t, l)
    PROVE  TasksOK'
<1>1. arg = [arg EXCEPT ![t] = arg[t]] /\ tmp = [tmp EXCEPT ![t] = tmp[t]]
  BY DEF TasksOK
<1>2. QED
  BY <1>1, TaskMove, Zenon DEF Continue

LEMMA ContinueWithOK ==
    ASSUME TasksOK, NEW t \in Tasks, NEW l \in Steps, NEW v \in StepTmp(l),
           arg[t] \in StepArgs(l), ContinueWith(t, l, v)
    PROVE  TasksOK'
<1>1. arg = [arg EXCEPT ![t] = arg[t]]
  BY DEF TasksOK
<1>2. QED
  BY <1>1, TaskMove, Zenon DEF ContinueWith

\* nfsserve starts each request at a step that expects it.
LEMMA FirstStepFacts ==
    ASSUME NEW r \in Requests
    PROVE  /\ FirstStep(r) \in Steps
           /\ r \in StepArgs(FirstStep(r))
           /\ Nil \in StepTmp(FirstStep(r))
  BY DEF Requests, FirstStep, Steps, StepArgs, StepTmp

LEMMA InitTypeOK == Init => TypeOK
<1> SUFFICES ASSUME Init PROVE StateOK /\ TasksOK
  BY TypeOKSplit
<1>1. StateOK
  BY EmptyMapFacts DEF Init, StateOK
<1>2. TasksOK
  BY StepArgsFacts DEF Init, TasksInit, TasksOK
<1>3. QED
  BY <1>1, <1>2

\* The steps of one request keep TypeOK.
LEMMA TaskStepTypeOK ==
    ASSUME TypeOK, NEW t \in Tasks,
           Receive(t) \/ Lookup(t) \/ Getattr(t) \/ Read(t) \/ Readdir(t)
    PROVE  TypeOK'
<1> USE TypeOKSplit, TypeOKSplitNext
<1> SUFFICES ASSUME StateOK, TasksOK,
                    Receive(t) \/ Lookup(t) \/ Getattr(t) \/ Read(t) \/ Readdir(t)
             PROVE  StateOK' /\ TasksOK'
  OBVIOUS
<1> DEFINE Here(l) == pc[t] = l /\ arg[t] \in StepArgs(l) /\ tmp[t] \in StepTmp(l)
<1>0. \A l \in Steps : pc[t] = l => Here(l)
  BY DEF TasksOK
<1>1. CASE Receive(t)
  <2>1. PICK r \in Requests : /\ arg' = [arg EXCEPT ![t] = r]
                              /\ pc' = [pc EXCEPT ![t] = FirstStep(r)]
    BY <1>1 DEF Receive
  <2>2. tmp[t] = Nil
    BY <1>0, <1>1, StepArgsFacts DEF Receive
  <2>3. tmp' = [tmp EXCEPT ![t] = Nil]
    BY <1>1, <2>2 DEF Receive, TasksOK
  <2>4. TasksOK'
    BY <2>1, <2>3, FirstStepFacts, TaskMove
  <2>5. QED
    BY <1>1, <2>4 DEF Receive, StateOK
<1>2. CASE LookupRefresh(t)
  <2>1. StateOK'
    BY <1>2, RefreshFacts, TypeOKSplit DEF LookupRefresh, StateOK
  <2>2. Here("lookup_refresh")
    BY <1>0, <1>2 DEF LookupRefresh, Steps
  <2>3. arg[t] \in StepArgs("lookup_search") /\ tmp[t] \in StepTmp("lookup_search")
    BY <2>2 DEF StepArgs, StepTmp
  <2>4. TasksOK'
    BY <1>2, <2>3, ContinueOK, DoneOK DEF LookupRefresh, Steps
  <2>5. QED
    BY <2>1, <2>4
<1>3. CASE LookupSearch(t)
  <2>1. Here("lookup_search")
    BY <1>0, <1>3 DEF LookupSearch, Steps
  <2>2. arg[t].name \in Files
    BY <2>1 DEF StepArgs
  <2>3. StateOK'
    BY <1>3, <2>2 DEF LookupSearch, StateOK, Done
  <2>4. QED
    BY <1>3, <2>3, DoneOK DEF LookupSearch
<1>4. CASE GetattrCache(t)
  <2>1. Here("getattr_cache")
    BY <1>0, <1>4 DEF GetattrCache, Steps
  <2>2. arg[t] \in StepArgs("getattr_compute") /\ tmp[t] \in StepTmp("getattr_compute")
    BY <2>1 DEF StepArgs, StepTmp
  <2>3. TasksOK'
    BY <1>4, <2>2, ContinueOK, DoneOK DEF GetattrCache, Steps
  <2>4. QED
    BY <1>4, <2>3 DEF GetattrCache, StateOK
<1>5. CASE GetattrCompute(t)
  <2>1. Here("getattr_compute")
    BY <1>0, <1>5 DEF GetattrCompute, Steps
  <2>2. arg[t] \in StepArgs("getattr_set")
    BY <2>1 DEF StepArgs
  <2>3. ASSUME arg[t].id \in DOMAIN parquet_files
        PROVE  FileSize[parquet_files[arg[t].id]] \in StepTmp("getattr_set")
    BY <2>3, ParquetAssumption DEF StateOK, StepTmp
  <2>4. TasksOK'
    BY <1>5, <2>2, <2>3, ContinueWithOK, DoneOK DEF GetattrCompute, Steps
  <2>5. QED
    BY <1>5, <2>4 DEF GetattrCompute, StateOK
<1>6. CASE GetattrSet(t)
  <2>1. Here("getattr_set")
    BY <1>0, <1>6 DEF GetattrSet, Steps
  <2>2. arg[t].id \in ParquetIds /\ tmp[t] \in Nat
    BY <2>1 DEF StepArgs, StepTmp
  <2>3. StateOK'
    BY <1>6, <2>2 DEF GetattrSet, StateOK
  <2>4. QED
    BY <1>6, <2>3, DoneOK DEF GetattrSet
<1>7. CASE ReadPath(t)
  <2>1. Here("read_path")
    BY <1>0, <1>7 DEF ReadPath, Steps
  <2>2. /\ arg[t] \in StepArgs("read_cache") /\ arg[t] \in StepArgs("read_gen")
        /\ (IF CacheEnabled THEN "read_cache" ELSE "read_gen") \in Steps
        /\ StepArgs(IF CacheEnabled THEN "read_cache" ELSE "read_gen") = StepArgs("read_cache")
        /\ StepTmp(IF CacheEnabled THEN "read_cache" ELSE "read_gen") = Files
    BY <2>1 DEF StepArgs, StepTmp, Steps
  <2>3. arg[t].id \in DOMAIN parquet_files => parquet_files[arg[t].id] \in Files
    BY DEF StateOK
  <2>4. TasksOK'
    BY <1>7, <2>2, <2>3, ContinueWithOK, DoneOK DEF ReadPath
  <2>5. QED
    BY <1>7, <2>4 DEF ReadPath, StateOK
<1>8. CASE ReadCache(t)
  <2>1. Here("read_cache")
    BY <1>0, <1>8 DEF ReadCache, Steps
  <2>2. arg[t] \in StepArgs("read_gen") /\ tmp[t] \in StepTmp("read_gen")
    BY <2>1 DEF StepArgs, StepTmp
  <2>3. TasksOK'
    BY <1>8, <2>2, ContinueOK, DoneOK DEF ReadCache, Steps
  <2>4. QED
    BY <1>8, <2>3 DEF ReadCache, StateOK
<1>9. CASE ReadGen(t)
  <2>1. Here("read_gen")
    BY <1>0, <1>9 DEF ReadGen, Steps
  <2>2. arg[t] \in StepArgs("read_fill") /\ tmp[t] \in StepTmp("read_fill")
    BY <2>1 DEF StepArgs, StepTmp
  <2>3. TasksOK'
    BY <1>9, <2>2, ContinueOK, DoneOK DEF ReadGen, Steps
  <2>4. QED
    BY <1>9, <2>3 DEF ReadGen, StateOK
<1>10. CASE ReadFill(t)
  <2>1. Here("read_fill")
    BY <1>0, <1>10 DEF ReadFill, Steps
  <2>2. tmp[t] \in Files
    BY <2>1 DEF StepTmp
  <2>3. StateOK'
    BY <1>10, <2>2 DEF ReadFill, StateOK, Done
  <2>4. QED
    BY <1>10, <2>3, DoneOK DEF ReadFill
<1>11. CASE ReaddirRefresh(t)
  <2>1. StateOK'
    BY <1>11, RefreshFacts, TypeOKSplit DEF ReaddirRefresh, StateOK
  <2>2. Here("readdir_refresh")
    BY <1>0, <1>11 DEF ReaddirRefresh, Steps
  <2>3. /\ arg[t] \in StepArgs("readdir_list")
        /\ (IF arg[t].start < DATA_CSV_ID THEN 1 ELSE 0) \in StepTmp("readdir_list")
    BY <2>2 DEF StepArgs, StepTmp
  <2>4. TasksOK'
    BY <1>11, <2>3, ContinueWithOK, DoneOK DEF ReaddirRefresh, Steps
  <2>5. QED
    BY <2>1, <2>4
<1>12. CASE ReaddirList(t)
  <2>1. StateOK'
    BY <1>12 DEF ReaddirList, StateOK, Done
  <2>2. QED
    BY <1>12, <2>1, DoneOK DEF ReaddirList
<1>13. QED
  BY <1>1, <1>2, <1>3, <1>4, <1>5, <1>6, <1>7, <1>8, <1>9, <1>10, <1>11,
     <1>12 DEF Lookup, Getattr, Read, Readdir

LEMMA NextTypeOK == TypeOK /\ [Next]_vars => TypeOK'
<1> SUFFICES ASSUME TypeOK, [Next]_vars PROVE TypeOK'
  OBVIOUS
<1>1. ASSUME NEW t \in Tasks,
             Receive(t) \/ Lookup(t) \/ Getattr(t) \/ Read(t) \/ Readdir(t)
      PROVE  TypeOK'
  BY <1>1, TaskStepTypeOK
<1>2. ASSUME NEW f \in Files,
             DataFileWritten(f) \/ DataFileVacuumed(f) \/ FileCacheEvict(f)
      PROVE  TypeOK'
  BY <1>2 DEF TypeOK, DataFileWritten, DataFileVacuumed, FileCacheEvict
<1>3. ASSUME NEW i \in ParquetIds, AttrExpire(i) PROVE TypeOK'
  BY <1>3 DEF TypeOK, AttrExpire
<1>4. CASE UNCHANGED vars
  BY <1>4 DEF TypeOK, vars
<1>5. QED
  BY <1>1, <1>2, <1>3, <1>4 DEF Next

\* Type correctness of the parquet half of the server: every variable keeps
\* its type, the map only ever holds ids from PARQUET_FILE_ID_START, and
\* each in-flight request is at a step of its handler with the request and
\* local that step expects, for every number of concurrent requests and
\* files.
THEOREM TypeCorrect == Spec => []TypeOK
<1>1. Init => TypeOK
  BY InitTypeOK
<1>2. TypeOK /\ [Next]_vars => TypeOK'
  BY NextTypeOK
<1>3. QED
  BY <1>1, <1>2, PTL DEF Spec

=============================================================================
