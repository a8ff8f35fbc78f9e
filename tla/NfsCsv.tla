------------------------------- MODULE NfsCsv -------------------------------
(***************************************************************************)
(* data.csv, the CSV view of the whole table (src/fsdb/src/nfs/server.rs): *)
(* GETATTR, READ, WRITE and REMOVE of file id DATA_CSV_ID, with the        *)
(* content cache entry "csv:data" (NfsCache) and the attribute cache entry *)
(* of DATA_CSV_ID (AttrCache).                                             *)
(*                                                                         *)
(* The table is a set of rows and data.csv shows it; the size of data.csv *)
(* is its number of rows, and offsets and counts are in rows.             *)
(***************************************************************************)
EXTENDS NfsCommon

CONSTANT Rows   \* rows the table may hold

ASSUME CsvAssumption == IsFiniteSet(Rows)

VARIABLES
    db,         \* rows of the table behind DatabaseOps
    csv_cache,  \* NfsCache entry "csv:data": the cached table, or Nil
    attr_csv,   \* AttrCache entry of DATA_CSV_ID: the cached size, or Nil
    reply       \* the reply to the last READ of each task, or Nil

vars == <<db, csv_cache, attr_csv, reply, pc, arg, tmp>>

\* Size of data.csv for a table: one unit per row.
CsvSize(rows) == Cardinality(rows)

\* CsvFileView::apply_write(data, cached) diffs the written CSV against a
\* base (the cached CSV when given, else the table as it is, line 344) and
\* applies the difference: rows of base missing from data are deleted,
\* rows of data missing from base are inserted.
ApplyDiff(cur, base, data) == (cur \ (base \ data)) \cup (data \ base)

\* Requests on data.csv that reach state; the other branches return
\* constants.
Requests ==
    [op: {"getattr"}]
    \cup [op: {"read"}, offset: {0, 1}, count: {1, 2}]
    \cup [op: {"write"}, data: SUBSET Rows]
    \cup [op: {"remove"}]

\* Nil, "no request" and "no reply", is none of the requests and replies.
\* The replies of READ: the rows cut from, offset + data.len(), eof.
Replies == [rows: SUBSET Rows, upto: Nat, eof: {Nil} \cup BOOLEAN]

ASSUME NilAssumption == Nil \notin Requests /\ Nil \notin Replies

Init ==
    /\ db \in SUBSET Rows
    /\ csv_cache = Nil
    /\ attr_csv = Nil
    /\ reply = [t \in Tasks |-> Nil]
    /\ TasksInit

\* nfsserve decodes an RPC and calls the handler for it.
FirstStep(r) ==
    CASE r.op = "getattr" -> "getattr_cache"
      [] r.op = "read" -> IF CacheEnabled THEN "read_cache" ELSE "read_gen"
      [] r.op = "write" -> IF CacheEnabled THEN "write_cache" ELSE "write_apply"
      [] r.op = "remove" -> "remove_delete"

Receive(t) ==
    /\ pc[t] = "idle"
    /\ \E r \in Requests :
          /\ arg' = [arg EXCEPT ![t] = r]
          /\ pc' = [pc EXCEPT ![t] = FirstStep(r)]
    /\ UNCHANGED <<tmp, db, csv_cache, attr_csv, reply>>

-----------------------------------------------------------------------------
(* GETATTR (lines 195-243): attr_cache.get; on a miss view.size(), whose   *)
(* Err is taken as size 0 (lines 209-217); then attr_cache.set.            *)

GetattrCache(t) ==
    /\ pc[t] = "getattr_cache"
    /\ \/ attr_csv # Nil /\ Done(t)
       \/ attr_csv = Nil /\ Continue(t, "getattr_compute")
    /\ UNCHANGED <<db, csv_cache, attr_csv, reply>>

GetattrCompute(t) ==
    /\ pc[t] = "getattr_compute"
    /\ \/ ContinueWith(t, "getattr_set", CsvSize(db))
       \/ Faults /\ ContinueWith(t, "getattr_set", 0)
    /\ UNCHANGED <<db, csv_cache, attr_csv, reply>>

GetattrSet(t) ==
    /\ pc[t] = "getattr_set"
    /\ attr_csv' = tmp[t]
    /\ Done(t)
    /\ UNCHANGED <<db, csv_cache, reply>>

Getattr(t) == GetattrCache(t) \/ GetattrCompute(t) \/ GetattrSet(t)

-----------------------------------------------------------------------------
(* READ (lines 254-288): cache.get("csv:data"), a failing get being a      *)
(* miss; on a miss view.read; at offset 0 get_full_content and then        *)
(* cache.insert; last view.size() for eof.  A reply holds the rows it was *)
(* cut from, how far into them it reaches (offset + data.len()) and eof.   *)

\* The length of the slice [offset, offset + count) of content of size
\* size(rows), both ends clamped to the content (lines 259-261).
ReadLen(rows, r) ==
    LET size == CsvSize(rows)
        end == IF r.offset + r.count < size THEN r.offset + r.count ELSE size
        start == IF r.offset < size THEN r.offset ELSE size
    IN end - start

\* A hit answers from the cached content, eof against its length
\* (lines 257-264).
ReadCache(t) ==
    /\ pc[t] = "read_cache"
    /\ \/ /\ csv_cache # Nil
          /\ LET upto == arg[t].offset + ReadLen(csv_cache, arg[t])
             IN reply' = [reply EXCEPT ![t] = [rows |-> csv_cache, upto |-> upto,
                                               eof |-> upto >= CsvSize(csv_cache)]]
          /\ Done(t)
       \/ (csv_cache = Nil \/ Faults) /\ UNCHANGED reply /\ Continue(t, "read_gen")
    /\ UNCHANGED <<db, csv_cache, attr_csv>>

\* view.read(offset, count) cuts the data from the table (lines 271-275);
\* eof is not known yet.
ReadGen(t) ==
    /\ pc[t] = "read_gen"
    /\ \/ Faults /\ UNCHANGED reply /\ Done(t)
       \/ /\ reply' = [reply EXCEPT ![t] = [rows |-> db, eof |-> Nil,
                                            upto |-> arg[t].offset + ReadLen(db, arg[t])]]
          /\ Continue(t, IF arg[t].offset = 0 /\ CacheEnabled THEN "read_full" ELSE "read_size")
    /\ UNCHANGED <<db, csv_cache, attr_csv>>

\* An Err of get_full_content skips the insert (line 279).
ReadFull(t) ==
    /\ pc[t] = "read_full"
    /\ \/ ContinueWith(t, "read_insert", db)
       \/ Faults /\ ContinueWith(t, "read_size", Nil)
    /\ UNCHANGED <<db, csv_cache, attr_csv, reply>>

\* What ReadFull read is inserted, whatever happened since; an Err of the
\* insert is ignored (line 280).
ReadInsert(t) ==
    /\ pc[t] = "read_insert"
    /\ \/ csv_cache' = tmp[t]
       \/ Faults /\ UNCHANGED csv_cache
    /\ ContinueWith(t, "read_size", Nil)
    /\ UNCHANGED <<db, attr_csv, reply>>

\* Mutant: eof compared with > instead of >=, so a read ending exactly at
\* the end of the file is not marked eof.
MutSetEof(t, size) ==
    [reply EXCEPT ![t] = [reply[t] EXCEPT !.eof = reply[t].upto > size]]

\* The reply of t with eof = offset + data.len() >= size (line 286).
SetEof(t, size) ==
    [reply EXCEPT ![t] = [reply[t] EXCEPT !.eof = reply[t].upto >= size]]

\* eof against view.size(), the size of the table now; an Err of size() is
\* taken as 0 (lines 285-287).
ReadSize(t) ==
    /\ pc[t] = "read_size"
    /\ \/ reply' = SetEof(t, CsvSize(db))
       \/ Faults /\ reply' = SetEof(t, 0)
    /\ Done(t)
    /\ UNCHANGED <<db, csv_cache, attr_csv>>

Read(t) ==
    ReadCache(t) \/ ReadGen(t) \/ ReadFull(t) \/ ReadInsert(t) \/ ReadSize(t)

-----------------------------------------------------------------------------
(* WRITE (lines 338-392): take the cached CSV as the diff base, apply the  *)
(* write, refresh the content cache from the table (an Err of generate_csv *)
(* returns NFS3ERR_IO at once, an Err of insert is ignored), read the new  *)
(* size and put it in the attribute cache.                                 *)

\* Mutant: a missing cache entry is taken as an empty CSV, not as None.
MutWriteCache(t) ==
    /\ pc[t] = "write_cache"
    /\ \/ ContinueWith(t, "write_apply", IF csv_cache = Nil THEN {} ELSE csv_cache)
       \/ Faults /\ ContinueWith(t, "write_apply", {})
    /\ UNCHANGED <<db, csv_cache, attr_csv, reply>>

WriteCache(t) ==
    /\ pc[t] = "write_cache"
    /\ \/ ContinueWith(t, "write_apply", csv_cache)
       \/ Faults /\ ContinueWith(t, "write_apply", Nil)
    /\ UNCHANGED <<db, csv_cache, attr_csv, reply>>

\* Mutant: the Err of apply_write is not returned (the `?` dropped).
MutWriteApply(t) ==
    /\ pc[t] = "write_apply"
    /\ \/ Faults /\ UNCHANGED db
          /\ ContinueWith(t, IF CacheEnabled THEN "write_gen" ELSE "write_size", Nil)
       \/ /\ db' = ApplyDiff(db, IF tmp[t] = Nil THEN db ELSE tmp[t], arg[t].data)
          /\ ContinueWith(t, IF CacheEnabled THEN "write_gen" ELSE "write_size", Nil)
    /\ UNCHANGED <<csv_cache, attr_csv, reply>>

WriteApply(t) ==
    /\ pc[t] = "write_apply"
    /\ \/ Faults /\ Done(t) /\ UNCHANGED db
       \/ /\ db' = ApplyDiff(db, IF tmp[t] = Nil THEN db ELSE tmp[t], arg[t].data)
          /\ ContinueWith(t, IF CacheEnabled THEN "write_gen" ELSE "write_size", Nil)
    /\ UNCHANGED <<csv_cache, attr_csv, reply>>

WriteGen(t) ==
    /\ pc[t] = "write_gen"
    /\ \/ Faults /\ Done(t)
       \/ ContinueWith(t, "write_insert", db)
    /\ UNCHANGED <<db, csv_cache, attr_csv, reply>>

\* Mutant: the CSV the client wrote is cached instead of the one regenerated
\* from the table after apply_write.
MutWriteInsert(t) ==
    /\ pc[t] = "write_insert"
    /\ \/ csv_cache' = arg[t].data
       \/ Faults /\ UNCHANGED csv_cache
    /\ ContinueWith(t, "write_size", Nil)
    /\ UNCHANGED <<db, attr_csv, reply>>

WriteInsert(t) ==
    /\ pc[t] = "write_insert"
    /\ \/ csv_cache' = tmp[t]
       \/ Faults /\ UNCHANGED csv_cache
    /\ ContinueWith(t, "write_size", Nil)
    /\ UNCHANGED <<db, attr_csv, reply>>

\* Mutant: the size leaves out one line too many (a header off-by-one).
MutWriteSize(t) ==
    /\ pc[t] = "write_size"
    /\ \/ ContinueWith(t, "write_attr", CsvSize(db) - 1)
       \/ Faults /\ ContinueWith(t, "write_attr", 0)
    /\ UNCHANGED <<db, csv_cache, attr_csv, reply>>

\* view.size().await.unwrap_or(0) (line 386).
WriteSize(t) ==
    /\ pc[t] = "write_size"
    /\ \/ ContinueWith(t, "write_attr", CsvSize(db))
       \/ Faults /\ ContinueWith(t, "write_attr", 0)
    /\ UNCHANGED <<db, csv_cache, attr_csv, reply>>

WriteAttr(t) ==
    /\ pc[t] = "write_attr"
    /\ attr_csv' = tmp[t]
    /\ Done(t)
    /\ UNCHANGED <<db, csv_cache, reply>>

Write(t) ==
    \/ WriteCache(t) \/ WriteApply(t) \/ WriteGen(t)
    \/ WriteInsert(t) \/ WriteSize(t) \/ WriteAttr(t)

-----------------------------------------------------------------------------
(* REMOVE of data.csv (lines 414-431): delete_rows_where("1=1") truncates  *)
(* the table, then cache.remove("csv:data"), whose result is ignored.  The *)
(* attribute cache is left as it is.                                       *)

RemoveDelete(t) ==
    /\ pc[t] = "remove_delete"
    /\ \/ Faults /\ Done(t) /\ UNCHANGED db
       \/ /\ db' = {}
          /\ IF CacheEnabled THEN Continue(t, "remove_inval") ELSE Done(t)
    /\ UNCHANGED <<csv_cache, attr_csv, reply>>

\* Mutant: the truncate does not invalidate "csv:data".
MutRemoveInval(t) ==
    /\ pc[t] = "remove_inval"
    /\ UNCHANGED csv_cache
    /\ Done(t)
    /\ UNCHANGED <<db, attr_csv, reply>>

RemoveInval(t) ==
    /\ pc[t] = "remove_inval"
    /\ \/ csv_cache' = Nil
       \/ Faults /\ UNCHANGED csv_cache
    /\ Done(t)
    /\ UNCHANGED <<db, attr_csv, reply>>

Remove(t) == RemoveDelete(t) \/ RemoveInval(t)

-----------------------------------------------------------------------------
(* The caches may drop an entry at any time (capacity, expiry).            *)

CsvCacheEvict ==
    /\ csv_cache # Nil
    /\ csv_cache' = Nil
    /\ UNCHANGED <<db, attr_csv, reply, pc, arg, tmp>>

AttrExpire ==
    /\ attr_csv # Nil
    /\ attr_csv' = Nil
    /\ UNCHANGED <<db, csv_cache, reply, pc, arg, tmp>>

Next ==
    \/ \E t \in Tasks :
          Receive(t) \/ Getattr(t) \/ Read(t) \/ Write(t) \/ Remove(t)
    \/ CsvCacheEvict
    \/ AttrExpire

Spec == Init /\ [][Next]_vars

-----------------------------------------------------------------------------
(* Properties                                                              *)

\* The steps of the handlers, and the request and the local each works on.
Steps ==
    {"idle", "getattr_cache", "getattr_compute", "getattr_set",
     "read_cache", "read_gen", "read_full", "read_insert", "read_size",
     "write_cache", "write_apply", "write_gen", "write_insert", "write_size",
     "write_attr", "remove_delete", "remove_inval"}

StepArgs(l) ==
    CASE l \in {"getattr_cache", "getattr_compute", "getattr_set"} -> [op: {"getattr"}]
      [] l \in {"read_cache", "read_gen", "read_full", "read_insert", "read_size"} ->
            [op: {"read"}, offset: {0, 1}, count: {1, 2}]
      [] l \in {"write_cache", "write_apply", "write_gen", "write_insert",
                "write_size", "write_attr"} -> [op: {"write"}, data: SUBSET Rows]
      [] l \in {"remove_delete", "remove_inval"} -> [op: {"remove"}]
      [] OTHER -> {Nil}

\* The steps of a READ after view.read returned its data.
ReadTail == {"read_full", "read_insert", "read_size"}

StepTmp(l) ==
    CASE l \in {"getattr_set", "write_attr"} -> Nat
      [] l \in {"read_insert", "write_insert"} -> SUBSET Rows
      [] l = "write_apply" -> {Nil} \cup SUBSET Rows
      [] OTHER -> {Nil}

\* Type invariant: every variable has its type, and each task holds the
\* request and the local its current step of the handler expects; a READ
\* past view.read holds the data it will answer with.
TypeOK ==
    /\ db \subseteq Rows
    /\ csv_cache \in {Nil} \cup SUBSET Rows
    /\ attr_csv \in {Nil} \cup Nat
    /\ reply \in [Tasks -> {Nil} \cup Replies]
    /\ pc \in [Tasks -> Steps]
    /\ arg \in [Tasks -> {Nil} \cup Requests]
    /\ tmp = [u \in Tasks |-> tmp[u]]
    /\ \A t \in Tasks : arg[t] \in StepArgs(pc[t]) /\ tmp[t] \in StepTmp(pc[t])
    /\ \A t \in Tasks : pc[t] \in ReadTail => reply[t] \in Replies

\* The "csv:data" entry is absent or holds the table as it is, unless a
\* write or a truncate is between changing the table and updating the
\* cache: write (lines 365-382) and remove (lines 424-428) keep it fresh
\* and read fills it with the table it read (lines 276-283).
CsvCacheCoherent ==
    \/ csv_cache \in {Nil, db}
    \/ \E t \in Tasks : pc[t] \in {"write_gen", "write_insert", "remove_inval"}

\* A successful apply_write leaves the table holding exactly the rows of
\* the data.csv the client wrote (lines 357-363, with the diff base taken
\* from the cache at lines 341-354).
WriteExact ==
    [][\A t \in Tasks :
         (pc[t] = "write_apply" /\ pc'[t] \in {"write_gen", "write_size"})
            => db' = arg[t].data]_vars

\* The eof of a READ reply is TRUE exactly when the data returned reaches
\* the end of the data.csv it was cut from: offset + data.len() >= size
\* (lines 262 and 285-286), so a client stops reading at the real end.
ReadEofExact ==
    \A t \in Tasks :
        reply[t] # Nil /\ reply[t].eof # Nil =>
            reply[t].eof = (reply[t].upto >= CsvSize(reply[t].rows))

\* The cached size of data.csv is the size of the table as it is, unless a
\* write is between changing the table and setting the attribute: "We
\* must return accurate file size or OS NFS clients will truncate reads!"
\* (lines 384-388).
AttrCoherent ==
    \/ attr_csv \in {Nil, CsvSize(db)}
    \/ \E t \in Tasks :
          pc[t] \in {"write_gen", "write_insert", "write_size", "write_attr"}

-----------------------------------------------------------------------------
(* Refinement: data.csv as NfsTable promises it.  A READ, WRITE or REMOVE  *)
(* in flight is pending; it has taken effect once apply_write or           *)
(* delete_rows_where returned Ok (lines 357, 415), or once view.read       *)
(* returned the rows of a READ (line 271); the eof computed after it does *)
(* not change which rows the READ returned.                                 *)
(* GETATTR is not a request of NfsTable: it changes no table and no reply. *)

\* The request of NfsTable a task serves.
TableOp(r) ==
    IF r.op = "write" THEN [op |-> "write", data |-> r.data] ELSE [op |-> r.op]

\* Whether task t serves a READ, WRITE or REMOVE.
Serves(t) == arg[t] # Nil /\ arg[t].op # "getattr"

\* The steps at which the request of a task has taken effect.
Effective ==
    {"read_full", "read_insert", "read_size", "write_gen", "write_insert", "write_size",
     "write_attr", "remove_inval"}

Table == INSTANCE NfsTable WITH
    table <- db,
    pending <- [t \in Tasks |-> IF Serves(t) THEN TableOp(arg[t]) ELSE Nil],
    done <- {t \in Tasks : pc[t] \in Effective},
    reply <- [t \in Tasks |-> IF reply[t] = Nil THEN Nil ELSE reply[t].rows]

\* data.csv is linearizable: the table and the rows every READ returns are
\* those of NfsTable, in which each READ, WRITE and REMOVE takes effect at
\* one instant between its call and its reply.  It rests on WRITE diffing
\* against a base equal to the table (lines 341-363) and READ serving
\* "csv:data" only when it holds the table (lines 257-265).
Linearizable == Table!Spec
=============================================================================
