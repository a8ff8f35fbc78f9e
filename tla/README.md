# TLA+ models of the fsdb NFS server

The code under `src/` that holds behaviour is `src/fsdb/src/nfs/server.rs`
(`FsdbFilesystem`). It serves a Delta Lake table over NFSv3 as a small tree:
- `/` (id 1);
- `/data` (id 2);
- `/data/data.csv` (id 3), a CSV view of the whole table;
- one entry per parquet data file of the table, with ids numbered from 100.

The rest of the engine is not under `src/`. That covers the transaction log,
statistics, merge, maintenance, `DatabaseOps`, `NfsCache`, `AttrCache` and
`CsvFileView`. `lib.rs`, `delta_lake/mod.rs` and `security/mod.rs` only
declare modules.

## Inventory

| Part | State | Operations that change state | Modelled in |
|---|---|---|---|
| data.csv view | the table (`DatabaseOps`), the `csv:data` entry of `NfsCache`, the `AttrCache` entry of id 3 | GETATTR, READ, WRITE, REMOVE of id 3 | `NfsCsv` |
| parquet files | `parquet_files: Mutex<HashMap<id, name>>`, the `AttrCache` entries of ids ≥ 100, the `csv:file:<path>` cache entries | `refresh_parquet_files`, LOOKUP and READDIR in `/data`, GETATTR and READ of ids ≥ 100 | `NfsParquet` |
| fixed tree, unsupported calls | none | none (constants, `NOTSUPP`, `ROFS`) | not modelled |
| Delta engine (log, stats, merge, optimize/vacuum) | not under `src/` | data files written and vacuumed | environment actions of `NfsParquet` |
| caches | not under `src/` | evict, expire | environment actions, spec-modelled |

How the parts interact:
- nfsserve runs every RPC as its own tokio task, so handlers interleave at
  every `.await`.
- The two halves share no state. data.csv has its own id and its own cache
  key, and only the parquet half takes the mutex. So the halves are two
  modules over the common task machinery in `NfsCommon`. Their product would
  add only interleavings of independent steps.

## Modules

- **`NfsCommon`** models the tasks.
  - Constants:
    - `Tasks` are the requests in flight.
    - `CacheEnabled` says which constructor built the server: `with_cache`
      or `new`.
    - `Faults` says whether storage, directory and cache calls may return
      `Err`.
    - `Nil`.
  - The id constants of lines 20-23.
  - Each task has `pc`, `arg` (its request) and `tmp` (the local it carries
    across its next await).
  - A section under the tokio mutex holds no await, so it is one atomic
    step. The lock needs no variable.
- **`NfsCsv`** models data.csv.
  - The table is a set of `Rows`, and the size of data.csv is its row count.
    Offsets and counts of READ are in rows.
  - `reply` is the reply to each task's last READ. It holds the rows the data
    was cut from, how far it reaches (`offset + data.len()`) and `eof`.
    `ReadLen` clamps the slice to the content as lines 259-261 do.
  - One action per await-separated step:
    - `Getattr*`: lines 195-242;
    - `Read*`: lines 254-287. `ReadSize` is the trailing `view.size()` that
      computes `eof` (`SetEof`, lines 285-287). A failing `size()` counts
      as 0.
    - `Write*`: lines 339-391;
    - `Remove*`: lines 409-431.
  - Every `Err` branch is a disjunct guarded by `Faults`. An `Err` the code
    returns ends the task; one it ignores (`let _ =`) leaves the cache
    unchanged.
  - `ApplyDiff` is `CsvFileView::apply_write`. It deletes the rows of the
    base that are missing from the written data and inserts the rows of the
    data that are missing from the base. The base is the cached CSV, or else
    the table. This is spec-modelled from the comments at lines 340-345.
- **`NfsParquet`** models the parquet files.
  - `RefreshOk`/`RefreshFails` are `refresh_parquet_files`. The map is
    cleared and rebuilt by numbering the listed files densely from 100, in
    read_dir order (`ReadDirOrder`).
  - read_dir's order is unspecified, but on a real directory it is the same
    for the same entries. The constant `DirOrder` ranks the names once and
    for all, and the files are numbered in increasing rank. So a refresh of
    an unchanged directory gives the same map, and an id can only change
    meaning when a data file is written or vacuumed.
  - Entries that fail to read are skipped, so with `Faults` any subset of the
    files may be listed. A failing `read_dir` leaves the map empty.
  - `handle` records one `<<id, name>>` that LOOKUP or READDIR handed to a
    client. `listing` records the last READDIR reply.
  - HashMap iteration order in READDIR is any subset of the right size.
  - The Delta engine is the environment: `DataFileWritten` (a name is never
    reused) and `DataFileVacuumed`.
- **`NfsTable`** is the abstract data.csv: what a client may expect.
  - The table is a set of rows.
  - Each READ, WRITE or REMOVE takes effect at one instant between its call
    and its reply (`TakeEffect`, then `Return`, or `EffectAndReturn`). A
    READ's reply is the table at that instant.
  - With faults, a request may return without effect, or after it.
  - `NfsCsv` refines it through `Table == INSTANCE NfsTable WITH ...`:
    - `table` is `db`;
    - `pending` is the READ, WRITE or REMOVE a task serves. GETATTR changes
      neither table nor reply, so NfsTable does not see it;
    - `done` is the set of tasks at a step after the request took effect:
      after `apply_write` or `delete_rows_where` returned `Ok`, or after
      `view.read` returned;
    - `reply` is the rows of each reply.
    - `Linearizable == Table!Spec` is checked as a PROPERTY.
- **`NfsCsvHistory`** adds a history variable to `NfsCsv`: `tables`, every
  set of rows the table has held. It changes no step of `NfsCsv`.
- **`NfsParquetProofs`**, **`NfsCsvProofs`** and **`NfsCsvSeqProofs`** hold
  the TLAPS proofs (below). `NfsCsvSeqProofs` extends `NfsCsvProofs` with
  the proofs about a server that serves one request at a time.
- **`MC_NfsCsv`, `MC_NfsCsvHistory`, `MC_NfsParquet`** are the TLC entry
  points. The parquet one gives the two files different sizes, and has
  read_dir list the smaller one last.

## Properties and runs

| Run | Expect | Bounds | Checks | Shows |
|---|---|---|---|---|
| `csv_sequential` | pass | 1 task, 2 rows, cache on, no faults | `TypeOK`, `CsvCacheCoherent`, `ReadEofExact`, `WriteExact`, `Linearizable` | alone, the cache tracks the table, eof is right, and data.csv is the abstract table |
| `csv_nocache` | pass | 2 tasks, cache off, faults | `Linearizable` | without the cache, concurrent requests are linearizable |
| `csv_faults` | pass | 1 task, 2 rows, cache on, faults | `NoPhantomRows` | the cache and every reply hold only rows the table really held |
| `csv_read_eof_race` | violation | 2 tasks, cache off | `ReadEofExact` | a WRITE between `view.read` and `size()` gives a wrong eof |
| `csv_write_remove_race` | violation | 2 tasks, cache on | `CsvCacheCoherent` | WRITE re-inserts rows a concurrent REMOVE deleted |
| `csv_stale_diff_base` | violation | 2 tasks, cache on | `WriteExact` | a stale diff base makes a write wrong |
| `csv_attr_after_truncate` | violation | 1 task | `AttrCoherent` | REMOVE leaves the old size cached |
| `parquet_concurrent` | pass | 2 tasks, 2 files, max_entries 1, cache on, faults, task symmetry | `TypeOK` | concurrent and failing handlers, refreshes and cache calls keep ids in range and every task well formed |
| `parquet_fileid_reuse` | violation | 1 task, 2 files | `FileIdStable` | a held id comes to name another file |
| `parquet_readdir_truncated` | violation | 1 task, max_entries 1 | `ReaddirComplete` | READDIR says `end = true` when truncated |
| `parquet_attr_after_renumber` | violation | 1 task, 2 files | `ParquetAttrCoherent` | GETATTR returns the size cached for the id's previous file |

The properties:
- `CsvCacheCoherent`: `csv:data` is absent or equals the table, except while
  a WRITE or REMOVE is between changing the table and updating the cache.
- `AttrCoherent`: the same for the cached size.
- `WriteExact`: an action property. A write that applies leaves the table
  equal to the written rows.
- `ReadEofExact`: a READ reply's eof is `offset + data.len() >= size` of
  the content its data was cut from.
- `Linearizable`: `NfsCsv` implements `NfsTable` under the mapping above.
- `ParquetAttrCoherent`: a cached size of a parquet id that maps to a
  present file is that file's size.
- `NoPhantomRows`: `csv:data`, when present, and the rows of every READ
  reply are sets of rows the table held at some point. The cache may lag
  after a failed insert or a race, but it never holds a CSV made of rows
  that were never together in the table. A WRITE that cached the client's
  CSV instead of the one regenerated after `apply_write` would break it.
- `FileIdStable`: an id a client holds keeps naming the same file.
- `ReaddirComplete`: a reply marked `end` lists every eligible id.

No fairness and no liveness property. The tokio mutex on `parquet_files` is
never held across an `.await`: its guard is dropped before every await
(lines 112, 176, 222, 292, 479). No handler loops. So every critical section
is one atomic step, and no task can wait on another. Every request replies
within a bounded number of its own steps, so a liveness property would hold
by the shape of the code.

Why `Linearizable` is checked with two tasks only without the cache:
- With the cache and two tasks, `Linearizable` does not hold, and not only
  in the way the mapping makes it fail. After the WRITE/REMOVE race of
  finding 1, `csv:data` keeps rows the table no longer has. A later READ
  hit, long after, returns them, which no instant of that READ explains.
- Some traces TLC finds first are artefacts of the mapping. It fixes the
  instant a hit takes effect at the hit, and an entry that was the table
  earlier in the READ's interval fails there. A prophecy variable would
  remove these traces, but not the real ones.
- So the bugs with the cache are stated by `CsvCacheCoherent` and
  `WriteExact` (findings 1 and 2). What survives them is stated by
  `NoPhantomRows`. `Linearizable` with the cache is
  checked, and proved (`SequentialLinearizable`), for one task at a time.

Why the bounds are enough:
- Every violation needs at most two tasks and two rows or files. A race
  needs two requests, a stale diff needs one row that differs, and a
  renumbering needs two files.
- Two rows let a write both delete and insert.
- Two files of different sizes let a renumbering show.
- `MaxEntries = {1}` is the smallest bound at which READDIR truncates,
  because data.csv takes one slot.
- The passing runs fire every action and every failure branch.
- `csv_faults` has one task. A failed `cache.insert` or regenerate already
  leaves a stale cached CSV that the next WRITE diffs against. With two
  tasks, the history variable takes TLC past five minutes. Two rows are
  needed for a WRITE to turn a set the table held into one it never held.
- `parquet_concurrent` uses the symmetry of the tasks, since no property
  names one. The history module cannot: a task's local is a set at some
  steps and a number at others.
- With one task and faults, TLC also breaks `CsvCacheCoherent` through the
  ignored failed `cache.remove` (line 426), and `ReadEofExact` through a
  failing `size()` read as 0 (line 285). These have no run of their own.
  They are listed as hazards with those properties.

Each property of a passing run has a mutant in `PROJECT.json`, and the run
finds each one:
- an off-by-one in the size;
- `>` for `>=` in eof;
- a missing invalidation after a truncate (`CsvCacheCoherent`, and
  `Linearizable` with the cache);
- a cache miss taken as an empty diff base (`WriteExact`);
- a dropped `?` after `apply_write` (`Linearizable` without the cache);
- the client's CSV cached instead of the regenerated one (`NoPhantomRows`);
- numbering from 99 (`TypeOK` of the parquet half).

## Findings

1. WRITE and READ insert CSV content into `csv:data` that was generated
   before a concurrent change (lines 280, 376). The cache then serves rows
   the table no longer has.
2. WRITE diffs against a cached CSV that may be stale (line 342).
3. REMOVE never updates the cached size of data.csv (line 425). The comment
   at lines 384-385 says clients need that size to be accurate.
4. File ids are reassigned on every refresh (line 130), so an id a client
   holds changes meaning when a data file is written or vacuumed.
5. READDIR always answers `end: true` (line 509), even when `max_entries`
   cut the listing short (line 482).
6. READ computes eof from a second `size()` (line 285). A WRITE in between
   makes eof disagree with the data returned.
7. GETATTR answers from `attr_cache` by id (line 199). After a renumbering
   it returns the size of the file that had the id before.

## Proofs (`NfsParquetProofs`, checked by `tlapm`)

- **`TypeCorrect == Spec => []TypeOK`** holds for all constants satisfying
  `CommonAssumption` and `ParquetAssumption`: `Files` is finite and sizes
  are naturals.
  - TypeOK is split into `StateOK` and `TasksOK`.
  - Lemmas `TaskMove`, `ContinueOK`, `ContinueWithOK` and `DoneOK` show
    that a handler step keeps `TasksOK` when it moves to a step whose
    request and local it supplies.
  - `TaskStepTypeOK` has one case per handler step.
  - The hard part is `DOMAIN parquet_files \subseteq ParquetIds`. It rests
    on `EnumerationFacts`: a refresh lists a subset of `Files`, whose
    cardinality is at most `|Files|` (`FS_Subset`). `IntervalFacts` counts
    the ids `100..100+n-1` as `n` (`FS_Interval`).

Proofs in `NfsCsvProofs`, for every set of tasks and of rows (`Rows`
finite, `Nil` no request and no reply):
- **`CsvTypeCorrect == Spec => []TypeOK`**.
  - It is split into `StateOK`, `TasksOK` and `ReplyOK`. `ReplyOK` says
    that a READ past `view.read` holds a reply, which `ReadSize` updates.
  - `TaskStepStateTasks` has one case per handler step.
    `ReadLenType` bounds the slice of lines 259-261.
- **`NoCacheLinearizable == ~CacheEnabled => (Spec => Linearizable)`**.
  - `NoCacheInv` strengthens `TypeOK`: a server built by `new` never
    reaches a cache step, and its writes carry no cached diff base. Without
    it, `write_apply` could diff against a stale base, and the step would
    map to no step of NfsTable.
  - Per step: `ReceiveRefines` is a `Call` or stutter, and GETATTR
    stutters. `ReadGenRefines` is `TakeEffect` or a failing `Return`.
    `ReadSizeRefines` is a `Return`, since eof changes no rows.
    `WriteApplyRefines` is `TakeEffect` whenever the diff base is the table
    or absent (`ApplyDiffSelf`: a diff against the table itself yields the
    data). `RemoveDeleteRefines` is `EffectAndReturn` without the cache and
    `TakeEffect` with it. These lemmas hold with the cache on or off, and
    `NfsCsvSeqProofs` reuses them.
  - The theorem follows from these, the invariant, and `Init => Table!Init`
    by PTL.

Proofs in `NfsCsvSeqProofs`. Every theorem has the
hypothesis `Sequential /\ ~Faults`: one task (`\A t, u \in Tasks : t = u`)
and no failing call. That is the setting of run `csv_sequential`, and it is
needed. With two tasks, TLC finds each of these properties violated (runs
`csv_write_remove_race`, `csv_stale_diff_base` and `csv_read_eof_race` show
three of them). With one task whose calls may fail, TLC finds them violated
too: a failed `cache.insert` after a WRITE leaves the old CSV cached.
- The inductive invariant `SeqInv` adds to `TypeOK` and the two invariants:
  - a server built by `new` has no cache and no task at a cache step;
  - what a task carries across an await is still the table. That covers
    the CSV that `read_insert` or `write_insert` will insert, the diff base
    at `write_apply` (the cache, itself coherent), and the rows of a READ
    reply before eof is computed.
  - Without this, `CsvCacheCoherent` is not inductive: a state where the
    insert is about to write a CSV other than the table satisfies it.
  - `SeqInvLocal` turns `SeqInv` into a predicate `Local(t)` of the one
    task, and `SeqTaskStep` proves it per handler step.
  - TLC checked `SeqInv` as an invariant on the `csv_sequential` constants
    with the cache on and off before it was proved.
- **`SequentialCacheCoherent`**, **`SequentialEofExact`**: `Spec` implies
  `[]CsvCacheCoherent` and `[]ReadEofExact`.
- **`SequentialWriteExact`** proves the action property `WriteExact`.
  - `ApplyExact`: a step that takes a task from `write_apply` to
    `write_gen` or `write_size` can only be that task's successful
    `apply_write` (`TaskFrame`, `AtWriteApply`). If its base is absent or
    the table, it leaves exactly the data.
  - `SeqInv` gives the base: the coherent cache, or none.
  - `ApplyDiffExact` says exactly when a diff against another base still
    yields the data: every row the table gained since is written, and
    every written row of the base is still there. The stale base of run
    `csv_stale_diff_base` breaks it.
- **`SequentialLinearizable`**: with the cache, `Spec => Linearizable`.
  - `ReadCacheRefines`: a hit whose entry is the table is
    `EffectAndReturn`; `SeqInv` supplies that at `read_cache`.
  - `CacheStepRefines`: the fill, insert and diff-base lookup steps
    stutter; a failed refresh and `cache.remove` are a `Return`.

Only TLC checks these: `AttrCoherent`, `FileIdStable`, `ReaddirComplete`,
`ParquetAttrCoherent` (all violated by the code), and `NoPhantomRows`.
TLAPS cannot prove liveness or `ENABLED`, induction over data, or anything
in a module that reaches a RECURSIVE operator.

## Not modelled, and the plan

Not modelled:
- Bytes: offsets, counts and sizes are in rows. Line 285 compares them in
  the same unit, so the eof race shows just as well.
- The ignored write offset at line 335. Chunked writes are a hazard with no
  property yet.
- Pagination by `start_after` beyond the two starts 0 and 100.

Planned:
- A spec-modelled `DeltaLog` module: commit by put-if-absent of version
  `v+1` with bounded retries, snapshot replay, and vacuum with retention.
  It will come with an abstract log specification and a refinement mapping,
  and its data files will feed `NfsParquet`'s environment.
- Offsets of WRITE, to state what chunked writes should do.
