----------------------------- MODULE NfsCsvProofs -----------------------------
(***************************************************************************)
(* Proofs about NfsCsv for every set of tasks and rows: the type           *)
(* invariant, and that a server built without a content cache (new,       *)
(* line 38) implements NfsTable: data.csv is linearizable however its      *)
(* READs, WRITEs and REMOVEs interleave and whichever calls fail.          *)
(***************************************************************************)
EXTENDS NfsCsv, FiniteSetTheorems, TLAPS

-----------------------------------------------------------------------------
(* The type invariant.                                                     *)

\* TypeOK splits into the state of the server and the state of the tasks.
StateOK ==
    /\ db \subseteq Rows
    /\ csv_cache \in {Nil} \cup SUBSET Rows
    /\ attr_csv \in {Nil} \cup Nat
    /\ reply \in [Tasks -> {Nil} \cup Replies]

TasksOK ==
    /\ pc \in [Tasks -> Steps]
    /\ arg \in [Tasks -> {Nil} \cup Requests]
    /\ tmp = [u \in Tasks |-> tmp[u]]
    /\ \A t \in Tasks : arg[t] \in StepArgs(pc[t]) /\ tmp[t] \in StepTmp(pc[t])

ReplyOK == \A t \in Tasks : pc[t] \in ReadTail => reply[t] \in Replies

LEMMA TypeOKSplit == TypeOK <=> StateOK /\ TasksOK /\ ReplyOK
  BY DEF TypeOK, StateOK, TasksOK, ReplyOK

LEMMA TypeOKSplitNext == TypeOK' <=> StateOK' /\ TasksOK' /\ ReplyOK'
  BY DEF TypeOK, StateOK, TasksOK, ReplyOK

\* The size of a table is a number of rows.
LEMMA CsvSizeType ==
    ASSUME NEW S \in SUBSET Rows PROVE CsvSize(S) \in Nat
<1>1. IsFiniteSet(S)
  BY CsvAssumption, FS_Subset
<1>2. QED
  BY <1>1, FS_CardinalityType DEF CsvSize

\* The request sets of the steps are requests, and "idle" carries none.
LEMMA StepArgsFacts ==
    /\ \A l \in Steps : StepArgs(l) \subseteq {Nil} \cup Requests
    /\ "idle" \in Steps /\ StepArgs("idle") = {Nil}
    /\ StepTmp("idle") = {Nil}
  BY DEF Steps, StepArgs, Requests, StepTmp

\* A task that moves to step l with request a and local v keeps TasksOK,
\* when a and v are what step l expects.
LEMMA TaskMove ==
    ASSUME TasksOK, NEW t \in Tasks, NEW l \in Steps,
           NEW a \in StepArgs(l), NEW v \in StepTmp(l),
           pc' = [pc EXCEPT ![t] = l], arg' = [arg EXCEPT ![t] = a],
           tmp' = [tmp EXCEPT ![t] = v]
    PROVE  TasksOK'
<1>1. a \in {Nil} \cup Requests
  BY StepArgsFacts
<1>2. pc' \in [Tasks -> Steps] /\ arg' \in [Tasks -> {Nil} \cup Requests]
      /\ tmp' = [u \in Tasks |-> tmp'[u]]
  BY <1>1 DEF TasksOK
<1>3. ASSUME NEW u \in Tasks
      PROVE  arg'[u] \in StepArgs(pc'[u]) /\ tmp'[u] \in StepTmp(pc'[u])
  <2>1. CASE u = t
    BY <2>1 DEF TasksOK
  <2>2. CASE u # t
    <3>1. pc'[u] = pc[u] /\ arg'[u] = arg[u] /\ tmp'[u] = tmp[u]
      BY <2>2 DEF TasksOK
    <3>2. QED
      BY <3>1 DEF TasksOK
  <2>3. QED
    BY <2>1, <2>2
<1>4. QED
  BY <1>2, <1>3 DEF TasksOK

LEMMA DoneOK ==
    ASSUME TasksOK, NEW t \in Tasks, Done(t)
    PROVE  TasksOK'
<1>1. "idle" \in Steps /\ Nil \in StepArgs("idle") /\ Nil \in StepTmp("idle")
  BY StepArgsFacts
<1>2. QED
  BY <1>1, TaskMove, Zenon DEF Done

LEMMA ContinueOK ==
    ASSUME TasksOK, NEW t \in Tasks, NEW l \in Steps,
           arg[t] \in StepArgs(l), tmp[t] \in StepTmp(l), Continue(t, l)
    PROVE  TasksOK'
<1>1. arg = [arg EXCEPT ![t] = arg[t]] /\ tmp = [tmp EXCEPT ![t] = tmp[t]]
  BY DEF TasksOK
<1>2. QED
  BY <1>1, TaskMove, Zenon DEF Continue

LEMMA ContinueWithOK ==
    ASSUME TasksOK, NEW t \in Tasks, NEW l \in Steps, NEW v \in StepTmp(l),
           arg[t] \in StepArgs(l), ContinueWith(t, l, v)
    PROVE  TasksOK'
<1>1. arg = [arg EXCEPT ![t] = arg[t]]
  BY DEF TasksOK
<1>2. QED
  BY <1>1, TaskMove, Zenon DEF ContinueWith

\* nfsserve starts each request at a step that expects it.
LEMMA FirstStepFacts ==
    ASSUME NEW r \in Requests
    PROVE  /\ FirstStep(r) \in Steps
           /\ r \in StepArgs(FirstStep(r))
           /\ Nil \in StepTmp(FirstStep(r))
  BY CommonAssumption DEF Requests, FirstStep, Steps, StepArgs, StepTmp

LEMMA InitTypeOK == Init => TypeOK
<1> SUFFICES ASSUME Init PROVE StateOK /\ TasksOK /\ ReplyOK
  BY TypeOKSplit
<1>1. StateOK
  BY DEF Init, StateOK
<1>2. TasksOK
  BY StepArgsFacts DEF Init, TasksInit, TasksOK
<1>3. ReplyOK
  BY DEF Init, TasksInit, ReplyOK, ReadTail
<1>4. QED
  BY <1>1, <1>2, <1>3

\* What apply_write leaves in the table is rows.
LEMMA ApplyDiffType ==
    ASSUME NEW cur \in SUBSET Rows, NEW base, NEW data \in SUBSET Rows
    PROVE  ApplyDiff(cur, base, data) \in SUBSET Rows
  BY DEF ApplyDiff

\* No request starts at a step where it has taken effect.
LEMMA FirstStepNotEffective ==
    ASSUME NEW r \in Requests PROVE FirstStep(r) \notin Effective
  BY DEF Requests, FirstStep, Effective

\* The data a READ cuts is a number of rows, and so is how far it reaches.
LEMMA ReadLenType ==
    ASSUME NEW S \in SUBSET Rows,
           NEW r \in [op: {"read"}, offset: {0, 1}, count: {1, 2}]
    PROVE  /\ ReadLen(S, r) \in Nat
           /\ r.offset + ReadLen(S, r) \in Nat
<1>1. CsvSize(S) \in Nat
  BY CsvSizeType
<1>2. QED
  BY <1>1 DEF ReadLen

\* A reply of view.read is a reply.
LEMMA ReplyType ==
    ASSUME NEW S \in SUBSET Rows,
           NEW r \in [op: {"read"}, offset: {0, 1}, count: {1, 2}],
           NEW e \in {Nil} \cup BOOLEAN
    PROVE  [rows |-> S, upto |-> r.offset + ReadLen(S, r), eof |-> e] \in Replies
  BY ReadLenType DEF Replies

\* The steps of one request keep the server and the tasks well typed.
LEMMA TaskStepStateTasks ==
    ASSUME TypeOK, NEW t \in Tasks,
           Receive(t) \/ Getattr(t) \/ Read(t) \/ Write(t) \/ Remove(t)
    PROVE  StateOK' /\ TasksOK'
<1> USE TypeOKSplit, CommonAssumption
<1> SUFFICES ASSUME StateOK, TasksOK, ReplyOK,
                    Receive(t) \/ Getattr(t) \/ Read(t) \/ Write(t) \/ Remove(t)
             PROVE  StateOK' /\ TasksOK'
  OBVIOUS
<1> DEFINE Here(l) == pc[t] = l /\ arg[t] \in StepArgs(l) /\ tmp[t] \in StepTmp(l)
<1>0. \A l \in Steps : pc[t] = l => Here(l)
  BY DEF TasksOK
<1>1. CASE Receive(t)
  <2>1. PICK r \in Requests : /\ arg' = [arg EXCEPT ![t] = r]
                              /\ pc' = [pc EXCEPT ![t] = FirstStep(r)]
    BY <1>1 DEF Receive
  <2>2. tmp[t] = Nil
    BY <1>0, <1>1, StepArgsFacts DEF Receive
  <2>3. tmp' = [tmp EXCEPT ![t] = Nil]
    BY <1>1, <2>2 DEF Receive, TasksOK
  <2>4. TasksOK'
    BY <2>1, <2>3, FirstStepFacts, TaskMove
  <2>5. QED
    BY <1>1, <2>4 DEF Receive, StateOK
<1>2. CASE GetattrCache(t)
  <2>1. Here("getattr_cache")
    BY <1>0, <1>2 DEF GetattrCache, Steps
  <2>2. arg[t] \in StepArgs("getattr_compute") /\ tmp[t] \in StepTmp("getattr_compute")
    BY <2>1 DEF StepArgs, StepTmp
  <2>3. TasksOK'
    BY <1>2, <2>2, ContinueOK, DoneOK DEF GetattrCache, Steps
  <2>4. QED
    BY <1>2, <2>3 DEF GetattrCache, StateOK
<1>3. CASE GetattrCompute(t)
  <2>1. Here("getattr_compute")
    BY <1>0, <1>3 DEF GetattrCompute, Steps
  <2>2. /\ arg[t] \in StepArgs("getattr_set")
        /\ CsvSize(db) \in StepTmp("getattr_set") /\ 0 \in StepTmp("getattr_set")
    BY <2>1, CsvSizeType DEF StepArgs, StepTmp, StateOK
  <2>3. TasksOK'
    BY <1>3, <2>2, ContinueWithOK DEF GetattrCompute, Steps
  <2>4. QED
    BY <1>3, <2>3 DEF GetattrCompute, StateOK
<1>4. CASE GetattrSet(t)
  <2>1. Here("getattr_set")
    BY <1>0, <1>4 DEF GetattrSet, Steps
  <2>2. tmp[t] \in Nat
    BY <2>1 DEF StepTmp
  <2>3. StateOK'
    BY <1>4, <2>2 DEF GetattrSet, StateOK
  <2>4. QED
    BY <1>4, <2>3, DoneOK DEF GetattrSet
<1>5. CASE ReadCache(t)
  <2>1. Here("read_cache")
    BY <1>0, <1>5 DEF ReadCache, Steps
  <2>2. arg[t] \in StepArgs("read_gen") /\ tmp[t] \in StepTmp("read_gen")
    BY <2>1 DEF StepArgs, StepTmp
  <2>3. TasksOK'
    BY <1>5, <2>2, ContinueOK, DoneOK DEF ReadCache, Steps
  <2>4. arg[t] \in [op: {"read"}, offset: {0, 1}, count: {1, 2}]
    BY <2>1 DEF StepArgs
  <2>5. ASSUME NEW S \in SUBSET Rows
        PROVE  [rows |-> S, upto |-> arg[t].offset + ReadLen(S, arg[t]),
                eof |-> arg[t].offset + ReadLen(S, arg[t]) >= CsvSize(S)] \in Replies
    BY <2>4, ReadLenType DEF Replies
  <2>6. StateOK'
    BY <1>5, <2>5 DEF ReadCache, StateOK
  <2>7. QED
    BY <2>3, <2>6
<1>6. CASE ReadGen(t)
  <2>1. Here("read_gen")
    BY <1>0, <1>6 DEF ReadGen, Steps
  <2>2. /\ (IF arg[t].offset = 0 /\ CacheEnabled THEN "read_full" ELSE "read_size") \in Steps
        /\ arg[t] \in StepArgs(IF arg[t].offset = 0 /\ CacheEnabled THEN "read_full" ELSE "read_size")
        /\ tmp[t] \in StepTmp(IF arg[t].offset = 0 /\ CacheEnabled THEN "read_full" ELSE "read_size")
    BY <2>1 DEF StepArgs, StepTmp, Steps
  <2>3. TasksOK'
    BY <1>6, <2>2, ContinueOK, DoneOK DEF ReadGen
  <2>4. [rows |-> db, eof |-> Nil, upto |-> arg[t].offset + ReadLen(db, arg[t])] \in Replies
    BY <2>1, ReplyType DEF StepArgs, StateOK
  <2>5. StateOK'
    BY <1>6, <2>4 DEF ReadGen, StateOK
  <2>6. QED
    BY <2>3, <2>5
<1>7. CASE ReadFull(t)
  <2>1. Here("read_full")
    BY <1>0, <1>7 DEF ReadFull, Steps
  <2>2. /\ arg[t] \in StepArgs("read_insert") /\ db \in StepTmp("read_insert")
        /\ arg[t] \in StepArgs("read_size") /\ Nil \in StepTmp("read_size")
    BY <2>1 DEF StepArgs, StepTmp, StateOK
  <2>3. TasksOK'
    BY <1>7, <2>2, ContinueWithOK DEF ReadFull, Steps
  <2>4. QED
    BY <1>7, <2>3 DEF ReadFull, StateOK
<1>8. CASE ReadInsert(t)
  <2>1. Here("read_insert")
    BY <1>0, <1>8 DEF ReadInsert, Steps
  <2>2. /\ tmp[t] \in SUBSET Rows
        /\ arg[t] \in StepArgs("read_size") /\ Nil \in StepTmp("read_size")
    BY <2>1 DEF StepArgs, StepTmp
  <2>3. TasksOK'
    BY <1>8, <2>2, ContinueWithOK DEF ReadInsert, Steps
  <2>4. StateOK'
    BY <1>8, <2>2 DEF ReadInsert, StateOK
  <2>5. QED
    BY <2>3, <2>4
<1>9. CASE WriteCache(t)
  <2>1. Here("write_cache")
    BY <1>0, <1>9 DEF WriteCache, Steps
  <2>2. /\ arg[t] \in StepArgs("write_apply")
        /\ csv_cache \in StepTmp("write_apply") /\ Nil \in StepTmp("write_apply")
    BY <2>1 DEF StepArgs, StepTmp, StateOK
  <2>3. TasksOK'
    BY <1>9, <2>2, ContinueWithOK DEF WriteCache, Steps
  <2>4. QED
    BY <1>9, <2>3 DEF WriteCache, StateOK
<1>10. CASE WriteApply(t)
  <2>1. Here("write_apply")
    BY <1>0, <1>10 DEF WriteApply, Steps
  <2>2. /\ arg[t].data \in SUBSET Rows
        /\ (IF tmp[t] = Nil THEN db ELSE tmp[t]) \in SUBSET Rows
    BY <2>1 DEF StepArgs, StepTmp, StateOK
  <2>3. /\ (IF CacheEnabled THEN "write_gen" ELSE "write_size") \in Steps
        /\ arg[t] \in StepArgs(IF CacheEnabled THEN "write_gen" ELSE "write_size")
        /\ Nil \in StepTmp(IF CacheEnabled THEN "write_gen" ELSE "write_size")
    BY <2>1 DEF StepArgs, StepTmp, Steps
  <2>4. TasksOK'
    BY <1>10, <2>3, ContinueWithOK, DoneOK DEF WriteApply
  <2>5. StateOK'
    BY <1>10, <2>2, ApplyDiffType DEF WriteApply, StateOK
  <2>6. QED
    BY <2>4, <2>5
<1>11. CASE WriteGen(t)
  <2>1. Here("write_gen")
    BY <1>0, <1>11 DEF WriteGen, Steps
  <2>2. arg[t] \in StepArgs("write_insert") /\ db \in StepTmp("write_insert")
    BY <2>1 DEF StepArgs, StepTmp, StateOK
  <2>3. TasksOK'
    BY <1>11, <2>2, ContinueWithOK, DoneOK DEF WriteGen, Steps
  <2>4. QED
    BY <1>11, <2>3 DEF WriteGen, StateOK
<1>12. CASE WriteInsert(t)
  <2>1. Here("write_insert")
    BY <1>0, <1>12 DEF WriteInsert, Steps
  <2>2. tmp[t] \in SUBSET Rows /\ arg[t] \in StepArgs("write_size")
        /\ Nil \in StepTmp("write_size")
    BY <2>1 DEF StepArgs, StepTmp
  <2>3. TasksOK'
    BY <1>12, <2>2, ContinueWithOK DEF WriteInsert, Steps
  <2>4. StateOK'
    BY <1>12, <2>2 DEF WriteInsert, StateOK
  <2>5. QED
    BY <2>3, <2>4
<1>13. CASE WriteSize(t)
  <2>1. Here("write_size")
    BY <1>0, <1>13 DEF WriteSize, Steps
  <2>2. /\ arg[t] \in StepArgs("write_attr")
        /\ CsvSize(db) \in StepTmp("write_attr") /\ 0 \in StepTmp("write_attr")
    BY <2>1, CsvSizeType DEF StepArgs, StepTmp, StateOK
  <2>3. TasksOK'
    BY <1>13, <2>2, ContinueWithOK DEF WriteSize, Steps
  <2>4. QED
    BY <1>13, <2>3 DEF WriteSize, StateOK
<1>14. CASE WriteAttr(t)
  <2>1. Here("write_attr")
    BY <1>0, <1>14 DEF WriteAttr, Steps
  <2>2. tmp[t] \in Nat
    BY <2>1 DEF StepTmp
  <2>3. StateOK'
    BY <1>14, <2>2 DEF WriteAttr, StateOK
  <2>4. QED
    BY <1>14, <2>3, DoneOK DEF WriteAttr
<1>15. CASE RemoveDelete(t)
  <2>1. Here("remove_delete")
    BY <1>0, <1>15 DEF RemoveDelete, Steps
  <2>2. arg[t] \in StepArgs("remove_inval") /\ tmp[t] \in StepTmp("remove_inval")
    BY <2>1 DEF StepArgs, StepTmp
  <2>3. TasksOK'
    BY <1>15, <2>2, ContinueOK, DoneOK DEF RemoveDelete, Steps
  <2>4. QED
    BY <1>15, <2>3 DEF RemoveDelete, StateOK
<1>16. CASE RemoveInval(t)
  BY <1>16, DoneOK DEF RemoveInval, StateOK
<1>17. CASE ReadSize(t)
  <2>1. pc[t] = "read_size"
    BY <1>17 DEF ReadSize
  <2>2. reply[t] \in Replies
    BY <2>1 DEF ReplyOK, ReadTail
  <2>3. PICK e \in BOOLEAN : reply' = [reply EXCEPT ![t] = [reply[t] EXCEPT !.eof = e]]
    <3>1. PICK n \in Nat : reply' = SetEof(t, n)
      BY <1>17, CsvSizeType DEF ReadSize, StateOK
    <3>2. (reply[t].upto >= n) \in BOOLEAN
      BY <2>2 DEF Replies
    <3>3. QED
      BY <3>1, <3>2 DEF SetEof
  <2>4. [reply[t] EXCEPT !.eof = e] \in Replies
    BY <2>2 DEF Replies
  <2>5. UNCHANGED <<db, csv_cache, attr_csv>>
    BY <1>17 DEF ReadSize
  <2>6. StateOK'
    BY <2>3, <2>4, <2>5 DEF StateOK
  <2>7. QED
    BY <1>17, <2>6, DoneOK DEF ReadSize
<1>18. QED
  BY <1>1, <1>2, <1>3, <1>4, <1>5, <1>6, <1>7, <1>8, <1>9, <1>10, <1>11,
     <1>12, <1>13, <1>14, <1>15, <1>16, <1>17 DEF Getattr, Read, Write, Remove

\* The steps of one request keep the data of every READ past view.read.
LEMMA TaskStepReplyOK ==
    ASSUME TypeOK, NEW t \in Tasks,
           Receive(t) \/ Getattr(t) \/ Read(t) \/ Write(t) \/ Remove(t)
    PROVE  ReplyOK'
<1>1. \A u \in Tasks \ {t} : pc'[u] = pc[u] /\ reply'[u] = reply[u]
  BY DEF Receive, Getattr, Read, Write, Remove, GetattrCache, GetattrCompute,
         GetattrSet, ReadCache, ReadGen, ReadFull, ReadInsert, ReadSize, SetEof,
         WriteCache, WriteApply, WriteGen, WriteInsert, WriteSize, WriteAttr,
         RemoveDelete, RemoveInval, Continue, ContinueWith, Done, TypeOK
<1>2. pc'[t] \in ReadTail => reply'[t] \in Replies
  <2>1. CASE Receive(t)
    <3>1. PICK r \in Requests : pc' = [pc EXCEPT ![t] = FirstStep(r)]
      BY <2>1 DEF Receive
    <3>2. FirstStep(r) \notin Effective
      BY FirstStepNotEffective
    <3>3. QED
      BY <3>1, <3>2 DEF ReadTail, Effective, TypeOK
  <2>2. CASE Getattr(t) \/ Write(t) \/ Remove(t)
    BY <2>2 DEF Getattr, GetattrCache, GetattrCompute, GetattrSet, Write,
               WriteCache, WriteApply, WriteGen, WriteInsert, WriteSize,
               WriteAttr, Remove, RemoveDelete, RemoveInval, Continue,
               ContinueWith, Done, TypeOK, ReadTail
  <2>3. CASE ReadCache(t) \/ ReadSize(t)
    BY <2>3 DEF ReadCache, ReadSize, SetEof, Continue, Done, TypeOK, ReadTail
  <2>4. CASE ReadFull(t) \/ ReadInsert(t)
    BY <2>4 DEF ReadFull, ReadInsert, TypeOK, ReadTail
  <2>5. CASE ReadGen(t)
    <3>1. arg[t] \in [op: {"read"}, offset: {0, 1}, count: {1, 2}] /\ db \in SUBSET Rows
      BY <2>5 DEF ReadGen, TypeOK, StepArgs
    <3>2. [rows |-> db, eof |-> Nil, upto |-> arg[t].offset + ReadLen(db, arg[t])] \in Replies
      BY <3>1, ReplyType
    <3>3. CASE Faults /\ UNCHANGED reply /\ Done(t)
      BY <3>3 DEF Done, TypeOK, ReadTail
    <3>4. CASE /\ reply' = [reply EXCEPT ![t] = [rows |-> db, eof |-> Nil,
                                upto |-> arg[t].offset + ReadLen(db, arg[t])]]
               /\ Continue(t, IF arg[t].offset = 0 /\ CacheEnabled THEN "read_full" ELSE "read_size")
      BY <3>2, <3>4 DEF TypeOK
    <3>5. QED
      BY <2>5, <3>3, <3>4 DEF ReadGen
  <2>6. QED
    BY <2>1, <2>2, <2>3, <2>4, <2>5 DEF Read
<1>3. QED
  BY <1>1, <1>2 DEF ReplyOK, TypeOK

\* The steps of one request keep TypeOK.
LEMMA TaskStepTypeOK ==
    ASSUME TypeOK, NEW t \in Tasks,
           Receive(t) \/ Getattr(t) \/ Read(t) \/ Write(t) \/ Remove(t)
    PROVE  TypeOK'
  BY TaskStepStateTasks, TaskStepReplyOK, TypeOKSplitNext

LEMMA NextTypeOK == TypeOK /\ [Next]_vars => TypeOK'
<1> SUFFICES ASSUME TypeOK, [Next]_vars PROVE TypeOK'
  OBVIOUS
<1>1. ASSUME NEW t \in Tasks,
             Receive(t) \/ Getattr(t) \/ Read(t) \/ Write(t) \/ Remove(t)
      PROVE  TypeOK'
  BY <1>1, TaskStepTypeOK
<1>2. CASE CsvCacheEvict \/ AttrExpire
  BY <1>2 DEF TypeOK, CsvCacheEvict, AttrExpire
<1>3. CASE UNCHANGED vars
  BY <1>3 DEF TypeOK, vars
<1>4. QED
  BY <1>1, <1>2, <1>3 DEF Next

\* Type correctness of data.csv: the table, the caches and the replies
\* keep their types, and each in-flight GETATTR, READ, WRITE or REMOVE is at
\* a step of its handler with the request and local that step expects, for
\* every number of concurrent requests and rows, with or without the
\* content cache and failing calls.
THEOREM CsvTypeCorrect == Spec => []TypeOK
<1>1. Init => TypeOK
  BY InitTypeOK
<1>2. TypeOK /\ [Next]_vars => TypeOK'
  BY NextTypeOK
<1>3. QED
  BY <1>1, <1>2, PTL DEF Spec


-----------------------------------------------------------------------------
(* Without the content cache, data.csv implements NfsTable.                *)

\* The steps of the handlers that only a server built with_cache takes.
CacheSteps ==
    {"read_cache", "read_full", "read_insert", "write_cache", "write_gen",
     "write_insert", "remove_inval"}

\* A server built by new never reaches a cache step, and its writes carry
\* no cached diff base (cached_content is None, line 354).
NoCacheInv ==
    /\ TypeOK
    /\ \A t \in Tasks :
          /\ pc[t] \notin CacheSteps
          /\ pc[t] = "write_apply" => tmp[t] = Nil

LEMMA NoCacheInvInit == Init => NoCacheInv
  BY InitTypeOK DEF Init, TasksInit, NoCacheInv, CacheSteps

\* Each step of task t moves t alone, to a step that is no cache step.
LEMMA NoCacheTaskStep ==
    ASSUME ~CacheEnabled, NoCacheInv, NEW t \in Tasks,
           Receive(t) \/ Getattr(t) \/ Read(t) \/ Write(t) \/ Remove(t)
    PROVE  NoCacheInv'
<1> USE DEF NoCacheInv, CacheSteps
<1>1. TypeOK'
  BY TaskStepTypeOK
<1>2. \A u \in Tasks \ {t} : pc'[u] = pc[u] /\ tmp'[u] = tmp[u]
  BY DEF Receive, Getattr, Read, Write, Remove, GetattrCache, GetattrCompute,
         GetattrSet, ReadCache, ReadGen, ReadFull, ReadInsert, ReadSize, SetEof,
         WriteCache, WriteApply, WriteGen, WriteInsert, WriteSize, WriteAttr,
         RemoveDelete, RemoveInval, Continue, ContinueWith, Done, TypeOK
<1>3. pc'[t] \notin CacheSteps /\ (pc'[t] = "write_apply" => tmp'[t] = Nil)
  <2>1. CASE Receive(t)
    <3>1. PICK r \in Requests : pc' = [pc EXCEPT ![t] = FirstStep(r)]
      BY <2>1 DEF Receive
    <3>2. tmp[t] = Nil
      BY <2>1, StepArgsFacts DEF Receive, TypeOK
    <3>3. QED
      BY <2>1, <3>1, <3>2 DEF Receive, FirstStep, Requests, TypeOK
  <2>2. CASE Getattr(t)
    BY <2>2 DEF Getattr, GetattrCache, GetattrCompute, GetattrSet, Continue,
               ContinueWith, Done, TypeOK
  <2>3. CASE Read(t)
    BY <2>3 DEF Read, ReadCache, ReadGen, ReadFull, ReadInsert, ReadSize,
               SetEof, Continue, ContinueWith, Done, TypeOK
  <2>4. CASE Write(t)
    BY <2>4 DEF Write, WriteCache, WriteApply, WriteGen, WriteInsert,
               WriteSize, WriteAttr, Continue, ContinueWith, Done, TypeOK
  <2>5. CASE Remove(t)
    BY <2>5 DEF Remove, RemoveDelete, RemoveInval, Continue, Done, TypeOK
  <2>6. QED
    BY <2>1, <2>2, <2>3, <2>4, <2>5
<1>4. QED
  BY <1>1, <1>2, <1>3 DEF TypeOK

LEMMA NoCacheInvNext ==
    ASSUME ~CacheEnabled, NoCacheInv, [Next]_vars PROVE NoCacheInv'
<1>1. ASSUME NEW t \in Tasks,
             Receive(t) \/ Getattr(t) \/ Read(t) \/ Write(t) \/ Remove(t)
      PROVE  NoCacheInv'
  BY <1>1, NoCacheTaskStep
<1>2. CASE CsvCacheEvict \/ AttrExpire \/ UNCHANGED vars
  <2>1. TypeOK'
    BY <1>2, NextTypeOK DEF NoCacheInv
  <2>2. QED
    BY <1>2, <2>1 DEF NoCacheInv, CsvCacheEvict, AttrExpire, vars
<1>3. QED
  BY <1>1, <1>2 DEF Next


\* The pending requests and their progress that the refinement mapping
\* Table gives NfsTable.
pendingBar == [t \in Tasks |-> IF Serves(t) THEN TableOp(arg[t]) ELSE Nil]
doneBar == {t \in Tasks : pc[t] \in Effective}
replyBar == [t \in Tasks |-> IF reply[t] = Nil THEN Nil ELSE reply[t].rows]

\* A step that leaves the table, the replies and the mapped requests alone
\* is a stuttering step of NfsTable.
LEMMA Stutter ==
    ASSUME UNCHANGED <<db, reply>>, pendingBar' = pendingBar, doneBar' = doneBar
    PROVE  UNCHANGED Table!vars
  BY DEF Table!vars, pendingBar, doneBar

\* The mapped requests are a function of the tasks.
LEMMA PendingBarFun == pendingBar = [u \in Tasks |-> pendingBar[u]]
  BY DEF pendingBar

\* A READ, WRITE or REMOVE is a request of NfsTable, of the same kind.
LEMMA TableOpFacts ==
    ASSUME NEW r \in Requests, r.op # "getattr"
    PROVE  /\ TableOp(r) \in Table!Ops
           /\ TableOp(r).op = r.op
           /\ r.op = "write" => TableOp(r).data = r.data
  BY DEF Requests, TableOp, Table!Ops

\* What the mapping says of a task at each kind of step.
LEMMA PendingFacts ==
    ASSUME TypeOK, NEW t \in Tasks
    PROVE  /\ pc[t] \in {"idle", "getattr_cache", "getattr_compute", "getattr_set"}
                 => pendingBar[t] = Nil
           /\ pc[t] \notin {"idle", "getattr_cache", "getattr_compute", "getattr_set"}
                 => /\ arg[t] \in Requests /\ arg[t].op # "getattr"
                    /\ pendingBar[t] = TableOp(arg[t])
<1>1. arg[t] \in StepArgs(pc[t]) /\ pc[t] \in Steps
  BY DEF TypeOK
<1>2. CASE pc[t] = "idle"
  BY <1>1, <1>2, StepArgsFacts DEF pendingBar, Serves
<1>3. CASE pc[t] \in {"getattr_cache", "getattr_compute", "getattr_set"}
  BY <1>1, <1>3 DEF pendingBar, Serves, StepArgs
<1>4. CASE pc[t] \notin {"idle", "getattr_cache", "getattr_compute", "getattr_set"}
  <2>1. arg[t] \in Requests /\ arg[t].op # "getattr"
    BY <1>1, <1>4 DEF StepArgs, Steps, Requests
  <2>2. Serves(t)
    BY <2>1, NilAssumption DEF Serves
  <2>3. QED
    BY <1>4, <2>1, <2>2 DEF pendingBar
<1>5. QED
  BY <1>2, <1>3, <1>4

\* A step of task t changes the mapped state of t alone.
LEMMA Frame ==
    ASSUME NEW t \in Tasks,
           \A u \in Tasks \ {t} : pc'[u] = pc[u] /\ arg'[u] = arg[u]
    PROVE  /\ pendingBar' = [pendingBar EXCEPT ![t] = pendingBar'[t]]
           /\ doneBar' \ {t} = doneBar \ {t}
  BY DEF pendingBar, doneBar, Serves

\* The steps of a task in a server built by new.
LEMMA TaskFrame ==
    ASSUME TypeOK, NEW t \in Tasks,
           Receive(t) \/ Getattr(t) \/ Read(t) \/ Write(t) \/ Remove(t)
    PROVE  \A u \in Tasks \ {t} : pc'[u] = pc[u] /\ arg'[u] = arg[u]
  BY DEF Receive, Getattr, Read, Write, Remove, GetattrCache, GetattrCompute,
         GetattrSet, ReadCache, ReadGen, ReadFull, ReadInsert, ReadSize, SetEof,
         WriteCache, WriteApply, WriteGen, WriteInsert, WriteSize, WriteAttr,
         RemoveDelete, RemoveInval, Continue, ContinueWith, Done, TypeOK

\* A handler that returns, with its request pending and not yet in
\* effect if it had not taken effect, is a Return of NfsTable.
LEMMA DoneReturnsBar ==
    ASSUME TypeOK, NEW t \in Tasks, Done(t), UNCHANGED db, replyBar' = replyBar,
           pc[t] \notin {"idle", "getattr_cache", "getattr_compute", "getattr_set"},
           pc[t] \in Effective \/ Faults
    PROVE  Table!Return(t)
<1>1. \A u \in Tasks \ {t} : pc'[u] = pc[u] /\ arg'[u] = arg[u]
  BY DEF Done, TypeOK
<1>2. arg'[t] = Nil /\ pc'[t] = "idle"
  BY DEF Done, TypeOK
<1>3. pendingBar'[t] = Nil
  BY <1>2 DEF pendingBar, Serves
<1>4. t \notin doneBar'
  BY <1>2 DEF doneBar, Effective
<1>5. /\ pendingBar' = [pendingBar EXCEPT ![t] = pendingBar'[t]]
      /\ doneBar' \ {t} = doneBar \ {t}
  BY <1>1, Frame, Zenon
<1>6. pendingBar[t] \in Table!Ops
  BY PendingFacts, TableOpFacts
<1>7. t \in doneBar \/ Faults
  BY DEF doneBar
<1>8. doneBar' = doneBar \ {t}
  BY <1>4, <1>5
<1>9. QED
  BY <1>3, <1>5, <1>6, <1>7, <1>8 DEF Table!Return, pendingBar, doneBar, replyBar

\* The same, for a handler that leaves the replies alone.
LEMMA DoneReturns ==
    ASSUME TypeOK, NEW t \in Tasks, Done(t), UNCHANGED <<db, reply>>,
           pc[t] \notin {"idle", "getattr_cache", "getattr_compute", "getattr_set"},
           pc[t] \in Effective \/ Faults
    PROVE  Table!Return(t)
<1>1. replyBar' = replyBar
  BY DEF replyBar
<1>2. QED
  BY <1>1, DoneReturnsBar


\* A handler that returns in the step its request takes effect in is an
\* EffectAndReturn of NfsTable.
LEMMA DoneEffects ==
    ASSUME TypeOK, NEW t \in Tasks, Done(t), Table!Effect(t),
           pc[t] \notin {"idle", "getattr_cache", "getattr_compute", "getattr_set"},
           pc[t] \notin Effective
    PROVE  Table!EffectAndReturn(t)
<1>1. \A u \in Tasks \ {t} : pc'[u] = pc[u] /\ arg'[u] = arg[u]
  BY DEF Done, TypeOK
<1>2. arg'[t] = Nil /\ pc'[t] = "idle"
  BY DEF Done, TypeOK
<1>3. pendingBar'[t] = Nil
  BY <1>2 DEF pendingBar, Serves
<1>4. t \notin doneBar' /\ t \notin doneBar
  BY <1>2 DEF doneBar, Effective
<1>5. /\ pendingBar' = [pendingBar EXCEPT ![t] = pendingBar'[t]]
      /\ doneBar' \ {t} = doneBar \ {t}
  BY <1>1, Frame, Zenon
<1>6. pendingBar[t] \in Table!Ops
  BY PendingFacts, TableOpFacts
<1>7. doneBar' = doneBar
  BY <1>4, <1>5
<1>8. QED
  BY <1>3, <1>4, <1>5, <1>6, <1>7 DEF Table!EffectAndReturn, pendingBar, doneBar

\* The request kind of a task, as NfsTable sees it.
LEMMA PendingOp ==
    ASSUME TypeOK, NEW t \in Tasks,
           pc[t] \notin {"idle", "getattr_cache", "getattr_compute", "getattr_set"}
    PROVE  /\ pendingBar[t].op = arg[t].op
           /\ arg[t].op = "write" => pendingBar[t].data = arg[t].data
  BY PendingFacts, TableOpFacts

\* A new request: GETATTR is invisible to NfsTable, the others are a Call.
LEMMA ReceiveRefines ==
    ASSUME TypeOK, NEW t \in Tasks, Receive(t)
    PROVE  Table!Call(t) \/ UNCHANGED Table!vars
<1>1. PICK r \in Requests : /\ arg' = [arg EXCEPT ![t] = r]
                            /\ pc' = [pc EXCEPT ![t] = FirstStep(r)]
  BY DEF Receive
<1>2. pc[t] = "idle" /\ arg[t] = Nil
  BY StepArgsFacts DEF Receive, TypeOK
<1>3. \A u \in Tasks \ {t} : pc'[u] = pc[u] /\ arg'[u] = arg[u]
  BY <1>1 DEF TypeOK
<1>4. /\ pendingBar' = [pendingBar EXCEPT ![t] = pendingBar'[t]]
      /\ doneBar' \ {t} = doneBar \ {t}
  BY <1>3, Frame, Zenon
<1>5. pendingBar[t] = Nil /\ t \notin doneBar
  BY <1>2 DEF pendingBar, Serves, doneBar, Effective
<1>6. t \notin doneBar'
  BY <1>1, FirstStepNotEffective DEF doneBar, TypeOK
<1>7. doneBar' = doneBar
  BY <1>4, <1>5, <1>6
<1>8. UNCHANGED <<db, reply>>
  BY DEF Receive
<1>9. CASE r.op = "getattr"
  <2>1. pendingBar'[t] = Nil
    BY <1>1, <1>9 DEF pendingBar, Serves, TypeOK
  <2>2. pendingBar' = pendingBar
    BY <1>4, <1>5, <2>1, PendingBarFun
  <2>3. QED
    BY <1>7, <1>8, <2>2, Stutter
<1>10. CASE r.op # "getattr"
  <2>1. pendingBar'[t] = TableOp(r)
    BY <1>1, <1>10, NilAssumption DEF pendingBar, Serves, TypeOK
  <2>2. TableOp(r) \in Table!Ops
    BY <1>10, TableOpFacts
  <2>3. QED
    BY <1>4, <1>5, <1>7, <1>8, <2>1, <2>2 DEF Table!Call, pendingBar, doneBar
<1>11. QED
  BY <1>9, <1>10


\* A step of task t that changes neither its mapped request nor whether it
\* took effect, nor the table and the replies, is a stuttering step.
LEMMA TaskStutter ==
    ASSUME NEW t \in Tasks,
           \A u \in Tasks \ {t} : pc'[u] = pc[u] /\ arg'[u] = arg[u],
           UNCHANGED <<db, reply>>,
           pendingBar'[t] = pendingBar[t],
           t \in doneBar' <=> t \in doneBar
    PROVE  UNCHANGED Table!vars
<1>1. /\ pendingBar' = [pendingBar EXCEPT ![t] = pendingBar'[t]]
      /\ doneBar' \ {t} = doneBar \ {t}
  BY Frame, Zenon
<1>2. pendingBar' = pendingBar
  BY <1>1, PendingBarFun
<1>3. doneBar' = doneBar
  BY <1>1
<1>4. QED
  BY <1>2, <1>3, Stutter

\* GETATTR is invisible to NfsTable.
LEMMA GetattrRefines ==
    ASSUME TypeOK, NEW t \in Tasks, Getattr(t)
    PROVE  UNCHANGED Table!vars
<1>1. pc[t] \in {"getattr_cache", "getattr_compute", "getattr_set"}
  BY DEF Getattr, GetattrCache, GetattrCompute, GetattrSet
<1>2. /\ \A u \in Tasks \ {t} : pc'[u] = pc[u] /\ arg'[u] = arg[u]
      /\ pc'[t] \in {"idle", "getattr_compute", "getattr_set"}
      /\ arg'[t] \in {Nil, arg[t]}
      /\ UNCHANGED <<db, reply>>
  BY DEF Getattr, GetattrCache, GetattrCompute, GetattrSet, Continue,
         ContinueWith, Done, TypeOK
<1>3. arg[t] = [op |-> "getattr"]
  BY <1>1 DEF TypeOK, StepArgs
<1>4. pendingBar[t] = Nil /\ pendingBar'[t] = Nil
  BY <1>1, <1>2, <1>3, PendingFacts DEF pendingBar, Serves
<1>5. t \notin doneBar /\ t \notin doneBar'
  BY <1>1, <1>2 DEF doneBar, Effective
<1>6. QED
  BY <1>2, <1>4, <1>5, TaskStutter

\* A READ that view.read answers takes effect when it returns its data;
\* one that fails there replies.
LEMMA ReadGenRefines ==
    ASSUME TypeOK, NEW t \in Tasks, ReadGen(t)
    PROVE  Table!Return(t) \/ Table!TakeEffect(t)
<1>1. pc[t] = "read_gen" /\ arg[t].op = "read"
  BY DEF ReadGen, TypeOK, StepArgs
<1>2. pc[t] \notin {"idle", "getattr_cache", "getattr_compute", "getattr_set"}
      /\ pc[t] \notin Effective
  BY <1>1 DEF Effective
<1>3. CASE Faults /\ UNCHANGED reply /\ Done(t)
  BY <1>2, <1>3, DoneReturns DEF ReadGen
<1>4. CASE /\ reply' = [reply EXCEPT ![t] = [rows |-> db, eof |-> Nil,
                                              upto |-> arg[t].offset + ReadLen(db, arg[t])]]
           /\ Continue(t, IF arg[t].offset = 0 /\ CacheEnabled THEN "read_full" ELSE "read_size")
  <2>1. /\ pendingBar[t].op = "read" /\ pendingBar[t] \in Table!Ops
    BY <1>1, <1>2, PendingOp, PendingFacts, TableOpFacts
  <2>2. replyBar' = [replyBar EXCEPT ![t] = db]
    <3> DEFINE R == [rows |-> db, eof |-> Nil,
                     upto |-> arg[t].offset + ReadLen(db, arg[t])]
    <3>1. R \in Replies
      BY <1>1, ReadLenType DEF TypeOK, StepArgs, Replies, R
    <3>2. R # Nil
      BY <3>1, NilAssumption
    <3>3. reply'[t] = R /\ \A u \in Tasks \ {t} : reply'[u] = reply[u]
      BY <1>4 DEF TypeOK
    <3>4. replyBar'[t] = db
      BY <3>2, <3>3 DEF replyBar, R
    <3>5. \A u \in Tasks \ {t} : replyBar'[u] = replyBar[u]
      BY <3>3 DEF replyBar
    <3>6. QED
      BY <3>4, <3>5 DEF replyBar
  <2>3. Table!Effect(t)
    BY <2>1, <2>2 DEF ReadGen, Table!Effect, pendingBar, replyBar
  <2>4. PICK l \in {"read_full", "read_size"} : arg' = arg /\ pc' = [pc EXCEPT ![t] = l]
    BY <1>4 DEF Continue
  <2>5. pendingBar' = pendingBar
    BY <2>4 DEF pendingBar, Serves
  <2>6. doneBar' = doneBar \cup {t} /\ t \notin doneBar
    BY <1>2, <2>4 DEF doneBar, Effective, TypeOK
  <2>7. QED
    BY <2>1, <2>3, <2>5, <2>6 DEF Table!TakeEffect, pendingBar, doneBar
<1>5. QED
  BY <1>3, <1>4 DEF ReadGen

\* Computing eof changes no rows of the reply: the READ, in effect, replies.
LEMMA ReadSizeRefines ==
    ASSUME TypeOK, NEW t \in Tasks, ReadSize(t)
    PROVE  Table!Return(t)
<1>1. pc[t] = "read_size" /\ reply[t] \in Replies
  BY DEF ReadSize, TypeOK, ReadTail
<1>2. pc[t] \notin {"idle", "getattr_cache", "getattr_compute", "getattr_set"}
      /\ pc[t] \in Effective
  BY <1>1 DEF Effective
<1>3. PICK e \in BOOLEAN : reply' = [reply EXCEPT ![t] = [reply[t] EXCEPT !.eof = e]]
  <2>1. PICK n \in Nat : reply' = SetEof(t, n)
    BY CsvSizeType DEF ReadSize, TypeOK
  <2>2. (reply[t].upto >= n) \in BOOLEAN
    BY <1>1 DEF Replies
  <2>3. QED
    BY <2>1, <2>2 DEF SetEof
<1>4. [reply[t] EXCEPT !.eof = e] \in Replies
  BY <1>1 DEF Replies
<1>5. reply'[t].rows = reply[t].rows /\ reply'[t] # Nil /\ reply[t] # Nil
      /\ \A u \in Tasks \ {t} : reply'[u] = reply[u]
  BY <1>1, <1>3, <1>4, NilAssumption DEF TypeOK
<1>6. replyBar' = replyBar
  BY <1>5 DEF replyBar
<1>7. QED
  BY <1>2, <1>6, DoneReturnsBar DEF ReadSize

\* Diffing against the table itself makes the table the rows written.
LEMMA ApplyDiffSelf ==
    ASSUME NEW cur, NEW data PROVE ApplyDiff(cur, cur, data) = data
  BY DEF ApplyDiff

\* An apply_write that diffs against the table, or against no cached CSV,
\* makes the WRITE take effect, to reply later; one that fails replies.
LEMMA WriteApplyRefines ==
    ASSUME TypeOK, NEW t \in Tasks, WriteApply(t), tmp[t] \in {Nil, db}
    PROVE  Table!Return(t) \/ Table!TakeEffect(t)
<1>1. pc[t] = "write_apply" /\ arg[t].op = "write"
  BY DEF WriteApply, TypeOK, StepArgs
<1>2. pc[t] \notin {"idle", "getattr_cache", "getattr_compute", "getattr_set"}
      /\ pc[t] \notin Effective
  BY <1>1 DEF Effective
<1>3. CASE Faults /\ Done(t) /\ UNCHANGED db
  BY <1>2, <1>3, DoneReturns DEF WriteApply
<1>4. CASE /\ db' = ApplyDiff(db, IF tmp[t] = Nil THEN db ELSE tmp[t], arg[t].data)
           /\ ContinueWith(t, IF CacheEnabled THEN "write_gen" ELSE "write_size", Nil)
  <2>1. db' = arg[t].data
    <3>1. (IF tmp[t] = Nil THEN db ELSE tmp[t]) = db
      OBVIOUS
    <3>2. QED
      BY <1>4, <3>1, ApplyDiffSelf
  <2>2. /\ pendingBar[t].op = "write" /\ pendingBar[t].data = arg[t].data
        /\ pendingBar[t] \in Table!Ops
    BY <1>1, <1>2, PendingOp, PendingFacts, TableOpFacts
  <2>3. UNCHANGED reply
    BY DEF WriteApply
  <2>4. Table!Effect(t)
    BY <2>1, <2>2, <2>3 DEF Table!Effect, pendingBar
  <2>5. PICK l \in {"write_gen", "write_size"} : arg' = arg /\ pc' = [pc EXCEPT ![t] = l]
    BY <1>4 DEF ContinueWith
  <2>6. pendingBar' = pendingBar
    BY <2>5 DEF pendingBar, Serves
  <2>7. doneBar' = doneBar \cup {t}
    BY <1>2, <2>5 DEF doneBar, Effective, TypeOK
  <2>8. t \notin doneBar
    BY <1>2 DEF doneBar
  <2>9. QED
    BY <2>2, <2>4, <2>6, <2>7, <2>8 DEF Table!TakeEffect, pendingBar, doneBar
<1>5. QED
  BY <1>3, <1>4 DEF WriteApply

\* Reading the new size of data.csv is invisible to NfsTable, and the
\* WRITE replies once it has set the attribute.
LEMMA WriteTailRefines ==
    ASSUME TypeOK, NEW t \in Tasks, WriteSize(t) \/ WriteAttr(t)
    PROVE  Table!Return(t) \/ UNCHANGED Table!vars
<1>1. CASE WriteSize(t)
  <2>1. /\ \A u \in Tasks \ {t} : pc'[u] = pc[u] /\ arg'[u] = arg[u]
        /\ arg' = arg /\ pc[t] = "write_size" /\ pc'[t] = "write_attr"
        /\ UNCHANGED <<db, reply>>
    BY <1>1 DEF WriteSize, ContinueWith, TypeOK
  <2>2. pendingBar'[t] = pendingBar[t]
    BY <2>1 DEF pendingBar, Serves
  <2>3. t \in doneBar /\ t \in doneBar'
    BY <2>1 DEF doneBar, Effective
  <2>4. QED
    BY <2>1, <2>2, <2>3, TaskStutter
<1>2. CASE WriteAttr(t)
  <2>1. pc[t] = "write_attr"
    BY <1>2 DEF WriteAttr
  <2>2. pc[t] \notin {"idle", "getattr_cache", "getattr_compute", "getattr_set"}
        /\ pc[t] \in Effective
    BY <2>1 DEF Effective
  <2>3. QED
    BY <1>2, <2>2, DoneReturns DEF WriteAttr
<1>3. QED
  BY <1>1, <1>2

\* The truncate makes a REMOVE take effect: without the cache it replies
\* in the same step, with it once the cache entry is dropped.  A failing
\* truncate replies.
LEMMA RemoveDeleteRefines ==
    ASSUME TypeOK, NEW t \in Tasks, RemoveDelete(t)
    PROVE  Table!Return(t) \/ Table!EffectAndReturn(t) \/ Table!TakeEffect(t)
<1>1. pc[t] = "remove_delete" /\ arg[t].op = "remove"
  BY DEF RemoveDelete, TypeOK, StepArgs
<1>2. pc[t] \notin {"idle", "getattr_cache", "getattr_compute", "getattr_set"}
      /\ pc[t] \notin Effective
  BY <1>1 DEF Effective
<1>3. CASE Faults /\ Done(t) /\ UNCHANGED db
  BY <1>2, <1>3, DoneReturns DEF RemoveDelete
<1>4. CASE db' = {} /\ Done(t)
  <2>1. pendingBar[t].op = "remove"
    BY <1>1, <1>2, PendingOp
  <2>2. Table!Effect(t)
    BY <1>4, <2>1 DEF RemoveDelete, Table!Effect, pendingBar
  <2>3. QED
    BY <1>2, <1>4, <2>2, DoneEffects
<1>5. CASE db' = {} /\ Continue(t, "remove_inval")
  <2>1. pendingBar[t].op = "remove" /\ pendingBar[t] \in Table!Ops
    BY <1>1, <1>2, PendingOp, PendingFacts, TableOpFacts
  <2>2. Table!Effect(t)
    BY <1>5, <2>1 DEF RemoveDelete, Table!Effect, pendingBar
  <2>3. arg' = arg /\ pc' = [pc EXCEPT ![t] = "remove_inval"]
    BY <1>5 DEF Continue
  <2>4. pendingBar' = pendingBar
    BY <2>3 DEF pendingBar, Serves
  <2>5. doneBar' = doneBar \cup {t} /\ t \notin doneBar
    BY <1>2, <2>3 DEF doneBar, Effective, TypeOK
  <2>6. QED
    BY <2>1, <2>2, <2>4, <2>5 DEF Table!TakeEffect, pendingBar, doneBar
<1>6. QED
  BY <1>3, <1>4, <1>5 DEF RemoveDelete


\* Every step of a server built by new is a step of NfsTable or leaves its
\* state alone.
LEMMA NoCacheStepRefines ==
    ASSUME ~CacheEnabled, NoCacheInv, [Next]_vars
    PROVE  [Table!Next]_Table!vars
<1> USE DEF NoCacheInv
<1>1. ASSUME NEW t \in Tasks,
             Receive(t) \/ Getattr(t) \/ Read(t) \/ Write(t) \/ Remove(t)
      PROVE  [Table!Next]_Table!vars
  <2>1. pc[t] \notin CacheSteps
    OBVIOUS
  <2>2. CASE Receive(t)
    BY <2>2, ReceiveRefines DEF Table!Next
  <2>3. CASE Getattr(t)
    BY <2>3, GetattrRefines
  <2>4. CASE Read(t)
    <3>1. ReadGen(t) \/ ReadSize(t)
      BY <2>1, <2>4 DEF Read, ReadCache, ReadFull, ReadInsert, CacheSteps
    <3>2. QED
      BY <3>1, ReadGenRefines, ReadSizeRefines DEF Table!Next
  <2>5. CASE Write(t)
    <3>1. WriteApply(t) \/ WriteSize(t) \/ WriteAttr(t)
      BY <2>1, <2>5 DEF Write, WriteCache, WriteGen, WriteInsert, CacheSteps
    <3>2. CASE WriteApply(t)
      <4>1. tmp[t] \in {Nil, db}
        BY <3>2 DEF WriteApply
      <4>2. QED
        BY <3>2, <4>1, WriteApplyRefines DEF Table!Next
    <3>3. QED
      BY <3>1, <3>2, WriteTailRefines DEF Table!Next
  <2>6. CASE Remove(t)
    <3>1. RemoveDelete(t)
      BY <2>1, <2>6 DEF Remove, RemoveInval, CacheSteps
    <3>2. QED
      BY <3>1, RemoveDeleteRefines DEF Table!Next
  <2>7. QED
    BY <1>1, <2>2, <2>3, <2>4, <2>5, <2>6
<1>2. CASE CsvCacheEvict \/ AttrExpire \/ UNCHANGED vars
  <2>1. UNCHANGED <<db, reply, pc, arg>>
    BY <1>2 DEF CsvCacheEvict, AttrExpire, vars
  <2>2. pendingBar' = pendingBar /\ doneBar' = doneBar
    BY <2>1 DEF pendingBar, doneBar, Serves
  <2>3. QED
    BY <2>1, <2>2, Stutter
<1>3. QED
  BY <1>1, <1>2 DEF Next

\* A server built by new (line 38), with no content cache, serves data.csv
\* linearizably: however its READs, WRITEs and REMOVEs interleave and
\* whichever storage calls fail, every WRITE makes the table exactly the
\* rows written and every REMOVE empties it at one instant between call and
\* reply, and every READ returns the table as it was at one such instant.
THEOREM NoCacheLinearizable == ~CacheEnabled => (Spec => Linearizable)
<1> SUFFICES ASSUME ~CacheEnabled PROVE Spec => Linearizable
  OBVIOUS
<1>1. Init => Table!Init
  BY NilAssumption DEF Init, TasksInit, Table!Init, Serves, Effective
<1>2. Init => NoCacheInv
  BY NoCacheInvInit
<1>3. NoCacheInv /\ [Next]_vars => NoCacheInv'
  BY NoCacheInvNext
<1>4. NoCacheInv /\ [Next]_vars => [Table!Next]_Table!vars
  BY NoCacheStepRefines
<1>5. QED
  BY <1>1, <1>2, <1>3, <1>4, PTL DEF Spec, Linearizable, Table!Spec

=============================================================================
