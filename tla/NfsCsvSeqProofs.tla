--------------------------- MODULE NfsCsvSeqProofs ---------------------------
(***************************************************************************)
(* Proofs about data.csv on a server built with the content cache, served *)
(* one request at a time with no failing call: the cache tracks the table, *)
(* a READ's eof is exact, a WRITE leaves exactly the rows written, and the *)
(* server implements NfsTable.  Each of the four fails, under TLC, with    *)
(* two requests in flight (runs csv_write_remove_race, csv_stale_diff_base *)
(* and csv_read_eof_race show three) and with one request whose calls may  *)
(* fail.                                                                   *)
(***************************************************************************)
EXTENDS NfsCsvProofs

\* At most one request is in flight at a time.
Sequential == \A t, u \in Tasks : t = u

\* The steps of WRITE and REMOVE at which the table has changed and the
\* cache is not yet brought up to date.
CacheLag == {"write_gen", "write_insert", "remove_inval"}

\* The inductive invariant: besides TypeOK, what a request carries across
\* its awaits is still the table, and a server built by new has no cache.
SeqInv ==
    /\ TypeOK
    /\ CsvCacheCoherent
    /\ ReadEofExact
    /\ ~CacheEnabled => csv_cache = Nil /\ \A t \in Tasks : pc[t] \notin CacheSteps
    /\ \A t \in Tasks :
          /\ pc[t] \in {"read_insert", "write_insert"} => tmp[t] = db
          /\ pc[t] = "write_apply" => tmp[t] \in {Nil, db}
          /\ pc[t] \in ReadTail => reply[t].rows = db

\* SeqInv for the one request t of a sequential server.
CacheOK(t) == csv_cache \in {Nil, db} \/ pc[t] \in CacheLag
EofOK(t) ==
    reply[t] # Nil /\ reply[t].eof # Nil =>
        reply[t].eof = (reply[t].upto >= CsvSize(reply[t].rows))
NoCacheOK(t) == ~CacheEnabled => csv_cache = Nil /\ pc[t] \notin CacheSteps
CarryOK(t) ==
    /\ pc[t] \in {"read_insert", "write_insert"} => tmp[t] = db
    /\ pc[t] = "write_apply" => tmp[t] \in {Nil, db}
    /\ pc[t] \in ReadTail => reply[t].rows = db
Local(t) == CacheOK(t) /\ EofOK(t) /\ NoCacheOK(t) /\ CarryOK(t)

LEMMA SeqInvLocal ==
    ASSUME Sequential, NEW t \in Tasks
    PROVE  /\ SeqInv <=> TypeOK /\ Local(t)
           /\ SeqInv' <=> TypeOK' /\ Local(t)'
<1>1. \A u \in Tasks : u = t
  BY DEF Sequential
<1>2. QED
  BY <1>1 DEF SeqInv, Local, CacheOK, EofOK, NoCacheOK, CarryOK,
              CsvCacheCoherent, ReadEofExact, CacheLag

\* Where a request starts.
LEMMA FirstStepSeq ==
    ASSUME NEW r \in Requests
    PROVE  /\ FirstStep(r) \notin CacheLag \cup ReadTail
           /\ FirstStep(r) \notin {"read_insert", "write_insert"}
           /\ ~CacheEnabled => FirstStep(r) \notin CacheSteps
  BY DEF Requests, FirstStep, CacheLag, ReadTail, CacheSteps

\* A step of the one request t keeps Local(t) when no call fails.
LEMMA SeqTaskStep ==
    ASSUME ~Faults, TypeOK, NEW t \in Tasks, Local(t),
           Receive(t) \/ Getattr(t) \/ Read(t) \/ Write(t) \/ Remove(t)
    PROVE  Local(t)'
<1> USE DEF Local, CacheOK, EofOK, NoCacheOK, CarryOK
<1>1. CASE Receive(t)
  <2>1. PICK r \in Requests : pc' = [pc EXCEPT ![t] = FirstStep(r)]
    BY <1>1 DEF Receive
  <2>2. pc'[t] = FirstStep(r) /\ pc[t] = "idle" /\ tmp[t] = Nil
    BY <1>1, <2>1, StepArgsFacts DEF Receive, TypeOK
  <2>3. UNCHANGED <<tmp, db, csv_cache, reply>>
    BY <1>1 DEF Receive
  <2>4. QED
    BY <2>2, <2>3, FirstStepSeq DEF CacheLag, ReadTail, CacheSteps
<1>2. CASE Getattr(t)
  BY <1>2 DEF Getattr, GetattrCache, GetattrCompute, GetattrSet, Continue,
             ContinueWith, Done, TypeOK, CacheLag, ReadTail, CacheSteps
<1>3. CASE ReadCache(t)
  BY <1>3 DEF ReadCache, Continue, Done, TypeOK, CacheLag, ReadTail, CacheSteps
<1>4. CASE ReadGen(t)
  BY <1>4 DEF ReadGen, Continue, Done, TypeOK, CacheLag, ReadTail, CacheSteps
<1>5. CASE ReadFull(t)
  BY <1>5 DEF ReadFull, ContinueWith, TypeOK, CacheLag, ReadTail, CacheSteps
<1>6. CASE ReadInsert(t)
  BY <1>6 DEF ReadInsert, ContinueWith, TypeOK, CacheLag, ReadTail, CacheSteps
<1>7. CASE ReadSize(t)
  <2>1. pc[t] = "read_size" /\ reply[t] \in Replies /\ reply[t].rows = db
    BY <1>7 DEF ReadSize, TypeOK, ReadTail
  <2>2. reply' = SetEof(t, CsvSize(db))
    BY <1>7 DEF ReadSize
  <2>3. reply'[t] = [reply[t] EXCEPT !.eof = reply[t].upto >= CsvSize(db)]
    BY <2>2 DEF SetEof, TypeOK
  <2>4. reply'[t].eof = (reply'[t].upto >= CsvSize(reply'[t].rows))
    BY <2>1, <2>3 DEF Replies
  <2>5. pc'[t] = "idle" /\ UNCHANGED <<db, csv_cache>>
    BY <1>7 DEF ReadSize, Done, TypeOK
  <2>6. CacheOK(t)' /\ NoCacheOK(t)' /\ CarryOK(t)'
    BY <2>1, <2>5 DEF CacheLag, ReadTail, CacheSteps
  <2>7. EofOK(t)'
    BY <2>4
  <2>8. QED
    BY <2>6, <2>7
<1>8. CASE WriteCache(t)
  BY <1>8 DEF WriteCache, ContinueWith, TypeOK, CacheLag, ReadTail, CacheSteps
<1>9. CASE WriteApply(t)
  BY <1>9 DEF WriteApply, ContinueWith, Done, TypeOK, CacheLag, ReadTail, CacheSteps
<1>10. CASE WriteGen(t)
  BY <1>10 DEF WriteGen, ContinueWith, Done, TypeOK, CacheLag, ReadTail, CacheSteps
<1>11. CASE WriteInsert(t)
  BY <1>11 DEF WriteInsert, ContinueWith, TypeOK, CacheLag, ReadTail, CacheSteps
<1>12. CASE WriteSize(t) \/ WriteAttr(t)
  BY <1>12 DEF WriteSize, WriteAttr, ContinueWith, Done, TypeOK, CacheLag,
              ReadTail, CacheSteps
<1>13. CASE Remove(t)
  BY <1>13 DEF Remove, RemoveDelete, RemoveInval, Continue, Done, TypeOK,
              CacheLag, ReadTail, CacheSteps
<1>14. QED
  BY <1>1, <1>2, <1>3, <1>4, <1>5, <1>6, <1>7, <1>8, <1>9, <1>10, <1>11,
     <1>12, <1>13 DEF Read, Write

LEMMA SeqInit == Init => SeqInv
  BY InitTypeOK DEF Init, TasksInit, SeqInv, CsvCacheCoherent, ReadEofExact,
                    CacheSteps, ReadTail

\* Evicting the content cache or expiring the size keeps SeqInv, whatever
\* the number of requests in flight.
LEMMA SeqEnvStep ==
    ASSUME SeqInv, CsvCacheEvict \/ AttrExpire
    PROVE  SeqInv'
<1>1. TypeOK'
  BY DEF SeqInv, TypeOK, CsvCacheEvict, AttrExpire
<1>2. CsvCacheCoherent' /\ ReadEofExact'
  BY DEF SeqInv, CsvCacheCoherent, ReadEofExact, CsvCacheEvict, AttrExpire
<1>3. QED
  BY <1>1, <1>2 DEF SeqInv, CsvCacheEvict, AttrExpire

LEMMA SeqInvNext ==
    ASSUME Sequential, ~Faults, SeqInv, [Next]_vars
    PROVE  SeqInv'
<1>1. ASSUME NEW t \in Tasks,
             Receive(t) \/ Getattr(t) \/ Read(t) \/ Write(t) \/ Remove(t)
      PROVE  SeqInv'
  <2>1. TypeOK /\ Local(t)
    BY SeqInvLocal
  <2>2. TypeOK'
    BY <1>1, <2>1, TaskStepTypeOK
  <2>3. Local(t)'
    BY <1>1, <2>1, SeqTaskStep
  <2>4. QED
    BY <2>2, <2>3, SeqInvLocal
<1>2. CASE CsvCacheEvict \/ AttrExpire
  BY <1>2, SeqEnvStep
<1>3. CASE UNCHANGED vars
  BY <1>3 DEF vars, SeqInv, TypeOK, CsvCacheCoherent, ReadEofExact
<1>4. QED
  BY <1>1, <1>2, <1>3 DEF Next

\* With one request at a time and no failing call, the content cache never
\* holds a CSV other than the table's, except between WRITE or REMOVE
\* changing the table and the same handler refreshing or invalidating the
\* cache (write lines 356-382, remove lines 409-431).
THEOREM SequentialCacheCoherent ==
    Sequential /\ ~Faults => (Spec => []CsvCacheCoherent)
<1> SUFFICES ASSUME Sequential, ~Faults PROVE Spec => []CsvCacheCoherent
  OBVIOUS
<1>1. Init => SeqInv
  BY SeqInit
<1>2. SeqInv /\ [Next]_vars => SeqInv'
  BY SeqInvNext
<1>3. SeqInv => CsvCacheCoherent
  BY DEF SeqInv
<1>4. QED
  BY <1>1, <1>2, <1>3, PTL DEF Spec

\* With one request at a time and no failing call, the eof a READ returns
\* says exactly whether the bytes it read reach the end of the CSV it read
\* them from (read lines 254-287).
THEOREM SequentialEofExact ==
    Sequential /\ ~Faults => (Spec => []ReadEofExact)
<1> SUFFICES ASSUME Sequential, ~Faults PROVE Spec => []ReadEofExact
  OBVIOUS
<1>1. Init => SeqInv
  BY SeqInit
<1>2. SeqInv /\ [Next]_vars => SeqInv'
  BY SeqInvNext
<1>3. SeqInv => ReadEofExact
  BY DEF SeqInv
<1>4. QED
  BY <1>1, <1>2, <1>3, PTL DEF Spec

-----------------------------------------------------------------------------
(* WriteExact: a WRITE whose apply_write succeeds leaves the table holding *)
(* exactly the rows written, whenever its diff base is the table itself.  *)

\* The only step a task at write_apply takes is WriteApply.
LEMMA AtWriteApply ==
    ASSUME NEW t \in Tasks, pc[t] = "write_apply",
           Receive(t) \/ Getattr(t) \/ Read(t) \/ Write(t) \/ Remove(t)
    PROVE  WriteApply(t)
  BY DEF Receive, Getattr, Read, Write, Remove, GetattrCache, GetattrCompute,
         GetattrSet, ReadCache, ReadGen, ReadFull, ReadInsert, ReadSize,
         WriteCache, WriteGen, WriteInsert, WriteSize, WriteAttr,
         RemoveDelete, RemoveInval

\* A step that moves t from write_apply on to the cache refresh or the
\* size is t's successful apply_write; with the table or no cached CSV as
\* its base, the diff turns the table into the rows written.
LEMMA ApplyExact ==
    ASSUME TypeOK, [Next]_vars, NEW t \in Tasks,
           pc[t] = "write_apply", pc'[t] \in {"write_gen", "write_size"},
           tmp[t] \in {Nil, db}
    PROVE  db' = arg[t].data
<1>1. PICK u \in Tasks :
        Receive(u) \/ Getattr(u) \/ Read(u) \/ Write(u) \/ Remove(u)
  BY DEF Next, vars, CsvCacheEvict, AttrExpire
<1>2. u = t
  BY <1>1, TaskFrame
<1>3. WriteApply(t)
  BY <1>1, <1>2, AtWriteApply
<1>4. pc'[t] # "idle"
  OBVIOUS
<1>5. db' = ApplyDiff(db, IF tmp[t] = Nil THEN db ELSE tmp[t], arg[t].data)
  BY <1>3, <1>4 DEF WriteApply, Done, TypeOK
<1>6. (IF tmp[t] = Nil THEN db ELSE tmp[t]) = db
  OBVIOUS
<1>7. QED
  BY <1>5, <1>6, ApplyDiffSelf

\* apply_write against a base other than the table still leaves exactly the
\* rows written iff every row the table gained since the base was taken
\* is among them, and every written row of the base is still in the table:
\* what the stale diff base of run csv_stale_diff_base breaks.
LEMMA ApplyDiffExact ==
    ASSUME NEW cur, NEW base, NEW data
    PROVE  ApplyDiff(cur, base, data) = data
             <=> cur \ base \subseteq data /\ base \cap data \subseteq cur
<1>1. ApplyDiff(cur, base, data) \subseteq data <=> cur \ base \subseteq data
  BY DEF ApplyDiff
<1>2. data \subseteq ApplyDiff(cur, base, data) <=> base \cap data \subseteq cur
  BY DEF ApplyDiff
<1>3. QED
  BY <1>1, <1>2

\* WriteExact follows from any invariant under which the diff base of a
\* task at write_apply is the table or absent.
LEMMA WriteExactFrom ==
    ASSUME NEW STATE I, I => TypeOK,
           I => \A t \in Tasks : pc[t] = "write_apply" => tmp[t] \in {Nil, db}
    PROVE  I /\ [Next]_vars =>
             [\A t \in Tasks : (pc[t] = "write_apply" /\ pc'[t] \in {"write_gen", "write_size"})
                                  => db' = arg[t].data]_vars
  BY ApplyExact

\* With the cache and one request at a time, no call failing, the CSV a
\* WRITE takes from the cache as its diff base (lines 341-354) is still
\* the table when apply_write runs, so the table ends up holding exactly
\* the rows written.
THEOREM SequentialWriteExact ==
    Sequential /\ ~Faults => (Spec => WriteExact)
<1> SUFFICES ASSUME Sequential, ~Faults PROVE Spec => WriteExact
  OBVIOUS
<1>1. SeqInv => \A t \in Tasks : pc[t] = "write_apply" => tmp[t] \in {Nil, db}
  BY DEF SeqInv
<1>2. SeqInv /\ [Next]_vars =>
        [\A t \in Tasks : (pc[t] = "write_apply" /\ pc'[t] \in {"write_gen", "write_size"})
                             => db' = arg[t].data]_vars
  BY <1>1, WriteExactFrom DEF SeqInv
<1>3. QED
  BY <1>2, SeqInit, SeqInvNext, PTL DEF Spec, WriteExact

-----------------------------------------------------------------------------
(* With the cache, one request at a time, data.csv implements NfsTable.    *)

\* A step of t alone that keeps its request and the table and replies, and
\* does not cross the instant its request takes effect, is a stutter.
LEMMA ContinueStutter ==
    ASSUME NEW t \in Tasks, NEW l, pc' = [pc EXCEPT ![t] = l], arg' = arg,
           UNCHANGED <<db, reply>>, pc[t] \in Effective <=> l \in Effective,
           TypeOK
    PROVE  UNCHANGED Table!vars
<1>1. \A u \in Tasks \ {t} : pc'[u] = pc[u] /\ arg'[u] = arg[u]
  BY DEF TypeOK
<1>2. pendingBar'[t] = pendingBar[t]
  BY DEF pendingBar, Serves
<1>3. t \in doneBar' <=> t \in doneBar
  BY DEF doneBar, TypeOK
<1>4. QED
  BY <1>1, <1>2, <1>3, TaskStutter

\* A hit answers with the cached CSV; when that is the table the READ
\* takes effect and replies in one step.  A miss goes on to view.read.
LEMMA ReadCacheRefines ==
    ASSUME TypeOK, NEW t \in Tasks, ReadCache(t), csv_cache \in {Nil, db}
    PROVE  Table!EffectAndReturn(t) \/ UNCHANGED Table!vars
<1>1. pc[t] = "read_cache" /\ arg[t].op = "read"
      /\ arg[t] \in [op: {"read"}, offset: {0, 1}, count: {1, 2}]
  BY DEF ReadCache, TypeOK, StepArgs
<1>2. pc[t] \notin {"idle", "getattr_cache", "getattr_compute", "getattr_set"}
      /\ pc[t] \notin Effective
  BY <1>1 DEF Effective
<1>3. CASE /\ csv_cache # Nil
           /\ reply' = [reply EXCEPT ![t] =
                          [rows |-> csv_cache,
                           upto |-> arg[t].offset + ReadLen(csv_cache, arg[t]),
                           eof |-> arg[t].offset + ReadLen(csv_cache, arg[t])
                                     >= CsvSize(csv_cache)]]
           /\ Done(t)
  <2>1. pendingBar[t].op = "read"
    BY <1>1, <1>2, PendingOp
  <2>2. csv_cache = db
    BY <1>3
  <2>3. replyBar' = [replyBar EXCEPT ![t] = db]
    <3> DEFINE R == [rows |-> csv_cache,
                     upto |-> arg[t].offset + ReadLen(csv_cache, arg[t]),
                     eof |-> arg[t].offset + ReadLen(csv_cache, arg[t])
                               >= CsvSize(csv_cache)]
    <3>1. R # Nil
      <4>1. csv_cache \in SUBSET Rows
        BY <2>2 DEF TypeOK
      <4>2. arg[t].offset + ReadLen(csv_cache, arg[t]) \in Nat
        BY <1>1, <4>1, ReadLenType
      <4>3. R \in Replies
        BY <4>1, <4>2 DEF Replies, R
      <4>4. QED
        BY <4>3, NilAssumption
    <3>2. reply'[t] = R /\ \A u \in Tasks \ {t} : reply'[u] = reply[u]
      BY <1>3 DEF TypeOK, R
    <3>3. replyBar'[t] = db
      BY <2>2, <3>1, <3>2 DEF replyBar, R
    <3>4. \A u \in Tasks \ {t} : replyBar'[u] = replyBar[u]
      BY <3>2 DEF replyBar
    <3>5. QED
      BY <3>3, <3>4 DEF replyBar
  <2>4. Table!Effect(t)
    BY <2>1, <2>3 DEF ReadCache, Table!Effect, pendingBar, replyBar
  <2>5. QED
    BY <1>2, <1>3, <2>4, DoneEffects
<1>4. CASE UNCHANGED reply /\ Continue(t, "read_gen")
  BY <1>1, <1>4, ContinueStutter DEF ReadCache, Continue, Effective
<1>5. QED
  BY <1>3, <1>4 DEF ReadCache

\* The steps a server with the cache adds after its request took effect,
\* and the lookup of the diff base before it, are invisible to NfsTable,
\* save the return.
LEMMA CacheStepRefines ==
    ASSUME TypeOK, NEW t \in Tasks,
           ReadFull(t) \/ ReadInsert(t) \/ WriteCache(t) \/ WriteGen(t)
           \/ WriteInsert(t) \/ RemoveInval(t)
    PROVE  Table!Return(t) \/ UNCHANGED Table!vars
<1>1. CASE ReadFull(t) \/ ReadInsert(t) \/ WriteCache(t) \/ WriteInsert(t)
  <2>1. PICK l : pc' = [pc EXCEPT ![t] = l] /\ arg' = arg /\ UNCHANGED <<db, reply>>
                 /\ (pc[t] \in Effective <=> l \in Effective)
    BY <1>1 DEF ReadFull, ReadInsert, WriteCache, WriteInsert, ContinueWith, Effective
  <2>2. QED
    BY <2>1, ContinueStutter
<1>2. CASE WriteGen(t)
  <2>1. pc[t] = "write_gen" /\ pc[t] \in Effective
        /\ pc[t] \notin {"idle", "getattr_cache", "getattr_compute", "getattr_set"}
    BY <1>2 DEF WriteGen, Effective
  <2>2. CASE Done(t)
    BY <1>2, <2>1, <2>2, DoneReturns DEF WriteGen
  <2>3. CASE ContinueWith(t, "write_insert", db)
    BY <1>2, <2>1, <2>3, ContinueStutter DEF WriteGen, ContinueWith, Effective
  <2>4. QED
    BY <1>2, <2>2, <2>3 DEF WriteGen
<1>3. CASE RemoveInval(t)
  <2>1. pc[t] = "remove_inval" /\ pc[t] \in Effective
        /\ pc[t] \notin {"idle", "getattr_cache", "getattr_compute", "getattr_set"}
    BY <1>3 DEF RemoveInval, Effective
  <2>2. QED
    BY <1>3, <2>1, DoneReturns DEF RemoveInval
<1>4. QED
  BY <1>1, <1>2, <1>3

\* Every step of a sequential server is a step of NfsTable or leaves its
\* state alone: a cache hit returns the table, and apply_write's diff base
\* is the table.
LEMMA SeqStepRefines ==
    ASSUME Sequential, SeqInv, [Next]_vars
    PROVE  [Table!Next]_Table!vars
<1>1. ASSUME NEW t \in Tasks,
             Receive(t) \/ Getattr(t) \/ Read(t) \/ Write(t) \/ Remove(t)
      PROVE  [Table!Next]_Table!vars
  <2>1. TypeOK /\ Local(t)
    BY SeqInvLocal
  <2>2. CASE Receive(t)
    BY <2>1, <2>2, ReceiveRefines DEF Table!Next
  <2>3. CASE Getattr(t)
    BY <2>1, <2>3, GetattrRefines
  <2>4. CASE ReadCache(t)
    <3>1. csv_cache \in {Nil, db}
      BY <2>1, <2>4 DEF ReadCache, Local, CacheOK, CacheLag
    <3>2. QED
      BY <2>1, <2>4, <3>1, ReadCacheRefines DEF Table!Next
  <2>5. CASE WriteApply(t)
    <3>1. tmp[t] \in {Nil, db}
      BY <2>1, <2>5 DEF WriteApply, Local, CarryOK
    <3>2. QED
      BY <2>1, <2>5, <3>1, WriteApplyRefines DEF Table!Next
  <2>6. CASE ReadGen(t) \/ ReadSize(t) \/ RemoveDelete(t)
    BY <2>1, <2>6, ReadGenRefines, ReadSizeRefines, RemoveDeleteRefines
       DEF Table!Next
  <2>7. CASE WriteSize(t) \/ WriteAttr(t)
    BY <2>1, <2>7, WriteTailRefines DEF Table!Next
  <2>8. CASE ReadFull(t) \/ ReadInsert(t) \/ WriteCache(t) \/ WriteGen(t)
             \/ WriteInsert(t) \/ RemoveInval(t)
    BY <2>1, <2>8, CacheStepRefines DEF Table!Next
  <2>9. QED
    BY <1>1, <2>2, <2>3, <2>4, <2>5, <2>6, <2>7, <2>8 DEF Read, Write, Remove
<1>2. CASE CsvCacheEvict \/ AttrExpire \/ UNCHANGED vars
  <2>1. UNCHANGED <<db, reply, pc, arg>>
    BY <1>2 DEF CsvCacheEvict, AttrExpire, vars
  <2>2. pendingBar' = pendingBar /\ doneBar' = doneBar
    BY <2>1 DEF pendingBar, doneBar, Serves
  <2>3. QED
    BY <2>1, <2>2, Stutter
<1>3. QED
  BY <1>1, <1>2 DEF Next

\* A server built with_cache (line 48), serving one request at a time with
\* no failing call, serves data.csv linearizably: a READ answered from the
\* cache (lines 257-264) returns the table as it is, and a WRITE whose diff
\* base comes from the cache (lines 341-354) makes the table exactly the
\* rows written.
THEOREM SequentialLinearizable ==
    Sequential /\ ~Faults => (Spec => Linearizable)
<1> SUFFICES ASSUME Sequential, ~Faults PROVE Spec => Linearizable
  OBVIOUS
<1>1. Init => Table!Init
  BY NilAssumption DEF Init, TasksInit, Table!Init, Serves, Effective
<1>2. SeqInv /\ [Next]_vars => SeqInv'
  BY SeqInvNext
<1>3. SeqInv /\ [Next]_vars => [Table!Next]_Table!vars
  BY SeqStepRefines
<1>4. QED
  BY <1>1, <1>2, <1>3, SeqInit, PTL DEF Spec, Linearizable, Table!Spec

=============================================================================
