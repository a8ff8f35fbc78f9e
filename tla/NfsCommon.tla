------------------------------ MODULE NfsCommon ------------------------------
(***************************************************************************)
(* What the two views of FsdbFilesystem (src/fsdb/src/nfs/server.rs)       *)
(* share: the requests in flight and the way a handler steps.              *)
(*                                                                         *)
(* nfsserve runs every RPC as its own tokio task, so the requests of       *)
(* several clients interleave at every .await of a handler.  A task is a   *)
(* request in flight; each handler is cut at its awaits into steps.  A     *)
(* section run under the parquet_files tokio Mutex holds no await, so it   *)
(* is one atomic step and the lock needs no variable of its own.           *)
(*                                                                         *)
(* The server has two independent halves: data.csv, the CSV view of the   *)
(* whole table (NfsCsv), and the parquet data files of the Delta table     *)
(* (NfsParquet).  They share no state: data.csv has file id 3 and the      *)
(* cache key "csv:data", the parquet files have ids from 100 and the keys  *)
(* "csv:file:<path>", and only the parquet half takes the mutex.           *)
(***************************************************************************)
EXTENDS Naturals, FiniteSets

CONSTANTS
    Tasks,         \* NFS requests that may be in flight at once
    CacheEnabled,  \* TRUE: built by with_cache (line 48); FALSE: by new (line 38)
    Faults,        \* TRUE: storage, directory and cache calls may return Err
    Nil            \* "no value": a cache miss, an empty Option

ASSUME CommonAssumption ==
    /\ CacheEnabled \in BOOLEAN
    /\ Faults \in BOOLEAN

\* File id constants, server.rs lines 20-23.
ROOT_ID == 1
DATA_DIR_ID == 2
DATA_CSV_ID == 3
PARQUET_FILE_ID_START == 100

VARIABLES
    pc,   \* the step each task is at; "idle" between requests
    arg,  \* the request a task is serving, or Nil
    tmp   \* the local a task carries across its next await, or Nil

\* Task t goes on to step l of its request, keeping its local or carrying
\* the new local v; Done: the handler returns and its locals are dropped.
Continue(t, l) ==
    /\ pc' = [pc EXCEPT ![t] = l]
    /\ UNCHANGED <<arg, tmp>>

ContinueWith(t, l, v) ==
    /\ pc' = [pc EXCEPT ![t] = l]
    /\ tmp' = [tmp EXCEPT ![t] = v]
    /\ UNCHANGED arg

Done(t) ==
    /\ pc' = [pc EXCEPT ![t] = "idle"]
    /\ arg' = [arg EXCEPT ![t] = Nil]
    /\ tmp' = [tmp EXCEPT ![t] = Nil]

TasksInit ==
    /\ pc = [t \in Tasks |-> "idle"]
    /\ arg = [t \in Tasks |-> Nil]
    /\ tmp = [t \in Tasks |-> Nil]
=============================================================================
