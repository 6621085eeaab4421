# A verification development for lsmkv

TLA+ models of the storage engine of `lsmkv` (a log-structured key-value store
in C++), the TLC runs that check them on small instances, and proofs checked by
TLAPS. Paths such as `src/engine.cpp:408` are relative to the repository.

## 1. The system

| Component | State it keeps | Operations | Talks to | What makes it correct |
|---|---|---|---|---|
| Write-ahead log (`wal.cpp`) | segment files; active segment and its size, highest seqNo per segment, seqNo counter, appends since the last sync | open with replay and tail truncation, append, roll, sync, close, watermark cleanup | called by the writer and by the flush job, own mutex | an acknowledged record is replayed until a watermark covers it, in write order; loss under N > 1 is bounded |
| Engine (`engine.cpp`) | active memtable, queue of immutables, manifest, readers, flags for shutdown and cancellation | open, put, remove, get, rotation, flush_one, flush_pending, run_compaction, close | two worker threads, any number of readers, one writer at a time; four locks and a condition variable | the store is a map that only writes change, across flush, compaction, close, failure and crash |
| Manifest (`manifest.cpp`) | tables newest first, next id, epoch; `manifest.json` | load and sort, add_table, apply_compaction, atomic save | edited under `state_mutex_` | never names a missing file; never shows half an edit |
| Memtable (`memtable.cpp`) | a map with one entry per key | apply, find | shared by writer and readers | entries of different memtables are ordered by seqNo |
| Versions and reads (`engine.cpp`) | current Version; shared_ptr counts on table handles | publish, get, deferred deletion of inputs | readers take no lock | a get returns a current value whatever is published meanwhile, from files that exist |
| FdPool, TableReader (`table_reader.cpp`) | LRU list of open handles; per handle file, lazy footer, index, Bloom filter | ensure_open, on_open with eviction, touch, on_close, get | pool mutex and one mutex per handle, eviction by try_lock | every open file is accounted for, no handle is used after its end |
| Picker, compaction worker, write stall (`compaction.cpp`, `engine.cpp`) | table sizes, queue length, pause flag | pick_compaction, tick, compact, stall, pause | writer, flush worker, compaction worker | the pick is the promised one, the backlog is bounded, stalls end |
| SSTable writer and scanner (`sstable.cpp`) | a file of blocks, index, filter, footer | write_sstable, scan_sstable, verify | flush and compaction | published only when complete; lookup finds what was written |
| Block cache (`table_reader.cpp`) | LRU of verified blocks | find, insert | readers, own mutex | stays in its capacity, never mixes blocks |
| Commands and sessions (`main.cpp`) | one process at a time on a data directory; the file `compaction.paused` | one-shot commands, repl, serve, quit | open and close the engine, start its workers and the HTTP server | refusals say what to do and doing it helps; sessions end |
| HTTP server (`http_server.cpp`) | listening socket, thread | accept and answer, stop | handler reads the engine | answers only while the engine is open, a session that quits waits for it no longer than for its client |
| Configuration, logging | settings; counters | parse, print | read by all | not part of the models (section 8) |

Hard behaviours, each with its line, are listed as `hazards` in `PROJECT.json`
with the properties that cover them. In short: crashes between a durable step
and the next one (append and ack, rename and manifest edit, publish and log
cleanup, roll and enqueue); a save that throws after it has edited memory; I/O
errors in the log; close racing a put, a flush and a compaction; lock-free reads
during table-set changes; file eviction through raw pointers; compaction that
yields to flushes while writers are stalled by the table count; lookups where a
block is cut or a read fails; a cache shared by threads that miss on the same
block; and shutdown with a worker, a stalled writer or an HTTP client in the way.

## 2. The modules

| Module | Models | State and actions |
|---|---|---|
| `KvStore` | what users are promised: a map changed one write at a time | abstract specification |
| `DurableLog` | what the log promises the engine when N = 1 | one action per public operation of `Wal`, a crash in each |
| `Wal` | class `Wal` on its segment files | `disk` maps a segment to its header flag and items; `append` is BeginAppend, RollForSize, WriteRecord, SyncRecord, Acknowledge, between which a crash or a failure may fall |
| `Engine` | class `Engine` with workers on, built on `DurableLog` | `writer` is the holder of `write_mutex_`, `job` of `creation_mutex_`; `dman`, `files`, `recs` are durable, the rest is lost in a crash |
| `StoreInvariant` | the parts of `Engine` as sets of entries, the inductive invariant `SafeInv` behind the store's properties, and the condition `CompactsSafely` it holds under | |
| `MCEngine` | symmetry for the runs of `Engine` | |
| `Reads` | Versions, `get()`, FdPool, deferred deletion | `get[r]` is where a reader is and the Version it pinned; `job` the handles a compaction still holds; `open` and `lru` the pool |
| `CompactionPolicy` | picker, worker, write stall | tables as sizes; writer, worker and queue |
| `SstFile` | `write_sstable`, `scan_sstable` and `TableReader::get` on one table, loop by loop | `block`, `disk`, `index`, `offset`, `bits`, `meta` are what the writer builds; `pc`, `lo`, `hi`, `pos` where the lookup is |
| `MCSstFile` | keys, entry sizes and colliding hash values for `SstFile` | |
| `TableReads` | threads inside `TableReader::get`: handle locks, lazy loads with failures, `BlockCache` | `file`, `footer`, `bloom`, `index` are the handles that have theirs; `lru`, `map`, `used` the cache; `get[r]` a thread |
| `MCTableReads` | block sizes for `TableReads`, one block larger than the cache | |
| `Shell` | commands and sessions on a data directory: `main.cpp` around the engine, with the workers, `HttpServer` and the pause flag | `mode` and `main` are the process and its main thread; `flusher`, `compactor`, `http` (which waits for a client in "accept", "receive" and "send") the others; `said` what a refused user was told |
| `EngineProofs` | theorems about `Engine`: types, live tables, the order of memtables, and the store: reads, writes, the refinement of `KvStore` | |
| `WalProofs`, `PolicyProofs`, `SstProofs`, `ReadsProofs`, `TableReadsProofs`, `ShellProofs` | theorems about `Wal`, `CompactionPolicy`, `SstFile`, `Reads`, `TableReads`, `Shell` | |
| `CommonLemmas` | facts about naturals, induction on a set, existence of recursive functions, folds and sums over finite sets, sequences summed, concatenated or with an element moved or removed; used by the other proofs | |

How they fit together: `Wal` implements `DurableLog` (run `Wal_sync1`, theorem
`WalIsDurableLog`, refinement mapping `DL` in `Wal`), `Engine` uses `DurableLog` action by action
(`Log!Append`, `Log!Roll`, ...) and implements `KvStore` (mapping `Store`: the
store is `DurableView`, what a restart would recover). `Reads` and
`CompactionPolicy` look closer at what `Engine` abstracts: `Engine` lets a get
see one atomic Version and any window be compacted. `SstFile` opens up the step
"a table holds these records" of `Engine` and `Reads`; `TableReads` opens up the
step ReadTable of `Reads` for several threads, and takes from `SstFile` only that
a lookup needs one block. `Shell` composes what the others look at one by one,
main thread, workers, HTTP thread and log, at the price of coarser data: every
write has a key of its own, and memtables and segments are ranges of seqNos.

Step granularity in `Engine`: one step is what a thread does under one lock, or
up to the next durable effect. `flush_one` is FlushWrite (pick, build, rename),
FlushPublish (manifest save, readers, queue, notification; all under
`state_mutex_`) and FlushClean (watermark and segment removal);
`run_compaction` is Compact, CompactPublish or CompactCancel, and
CompactDelete; a put is BeginWrite, LogWrite, ApplyWrite, and Rotate or
ReturnFromWrite, with BlockWriter and WakeWriter for the condition variable.
Each module's header names its simplifications. Definitions marked `mistake`
are not used by the specifications: they are the variants that `PROJECT.json`
puts in place of the correct definition that follows each to show that the
property does break.

## 3. The runs

Passing runs:

| Run | Question | Size |
|---|---|---|
| `Engine_crash` | Do two crashes anywhere in writing, rotating, flushing, cleanup or replay disturb the order of the memtables? Two keys, one-entry memtables, queue of two, four writes. | 0.6M states |
| `Engine_compact` | Do compactions with dropped delete markers, deferred deletions, one failing build or save and one crash ever change what is read or recovered, as long as they keep to `CompactsSafely` (section 4)? | 0.4M states |
| `Engine_close` | Do graceful and fast close, racing a put, a flush and a compaction with one failing build or save, end, release the writer and lose nothing? | 0.3M states |
| `Wal_sync1` | Do the segment files keep the promise the engine relies on, with process crashes? | 50k states |
| `Wal_faults` | With N = 2, power cuts, and two failing calls among write, fsync, header write and fopen, what still holds? | 0.4M states |
| `Reads_gets` | Two readers, two gets each, four tables and a budget of one open file: are gets current, files present and open files tracked? | 0.9M states |
| `Policy_stall` | Fan-in 3, trigger and first stalling count 4: is the pick right, the backlog bounded, and does each stall end? | 9k states |
| `Sst_lookup` | Every table of up to six keys with two entry sizes, nine choices of block size and restart interval, colliding filter bits: does every lookup end with the right answer, does a scan deliver every entry in order, do the offsets fit? | 0.5M states |
| `Table_reads` | Two threads, two tables of two blocks, any read failing, a cache that holds two blocks and is too small for one: does the cache keep its books and its order, does each thread get its own block and read it once, is a failed footer harmless where it is claimed to be, are locks released? | 80k states |
| `Shell_commands` | One-shot commands and sessions, six writes, memtables of one entry, a queue of two, write stall above one table, one failing flush or cleanup: do the advice, the pause, the stall and the shutdown do what they say? | 1.1M states |

Runs that show a disagreement with the code's own documentation:

| Run | What it shows |
|---|---|
| `Engine_lost` | Records flushed but still in the log after a restart are flushed again into a table placed in front of newer ones; compaction merges by position, so an old value wins over the newer one, whose log segment has been deleted. README.md:208-211 promises disjoint, ordered ranges. |
| `Reads_victim` | A table handle is destroyed while another thread still has it on its list of eviction victims (table_reader.cpp:116). |

Further disagreements are listed under `findings` without a run of their own;
each can be reproduced by a small change of a configuration or a property.

| Finding | How to see it |
|---|---|
| The rule for dropping a delete marker looks at the tables outside the set, not at the log: after a crash before the cleanup it may drop a marker whose put is still to be replayed; the put is flushed again, the log is cleaned up past the marker, and a second crash brings the deleted key back (engine.cpp:638, README.md:218) | `ReadsAreDurable` with the constants of `Engine_compact` but five writes, ids up to 5, three crashes, no failure and the specification `Init /\ [][Next /\ (job.pc = "compact" => InOrder)']_vars`, which excludes the flaw of `Engine_lost`; 48 states |
| `close(false)` sets its flags and notifies without `state_mutex_`; a writer between its check and its wait is never woken (engine.cpp:812-813, 281) | `Engine_close` with `StalledWriterReleased` as property, no failures, compactions or table limit |
| After a short write the next records go behind torn bytes and are cut off by recovery (wal.cpp:337) | `AcknowledgedIsReplayed` in `Wal` with `FsyncEveryN = 1`, `Faults = {"write"}`, `MaxFaults = 1`, no crashes |
| Survivors of a process crash are never synced and not counted, so more than N-1 acknowledged records can be lost (README.md:79-82) | `LossIsBounded` in `Wal` with `FsyncEveryN = 2`, `MaxCrashes = 1`, no faults |
| A table whose footer could not be read after a flush stays half open, and the next get runs past a buffer (table_reader.cpp:174) | in `TableReads`, `~broken` as an invariant |
| `close()` on the listening socket does not wake `accept()` on POSIX, and nothing ends a `recv()` or `send()` whose client does not move: `quit` in `serve` waits for that client (http_server.cpp:116, 91, 107) | in `Shell`, `QuitEnds` without its condition |
| "run flush-now" does not help once a deferred rotation has left a segment with more records than the queue takes: replay cannot roll, the same records are flushed again and again (engine.cpp:278, 385) | in `Shell`, `AdviceHelps` without `SegmentTooLong` |

Met while modelling and recorded without a model: the statistics read the
manifest without `state_mutex_` (main.cpp:242, 273 against engine.hpp:187);
flush_pending may report another flush's table (engine.cpp:503 against
engine.hpp:127); a corruption is counted twice (table_reader.cpp:68, main.cpp:487,
932); `lsm_wal_segments_total` is never decremented (docs/observability.md:23); the
footer has 40 bytes, sstable.hpp:38 says 44; the seqNo counter can run
backwards after compaction has dropped the newest delete marker and the log is
empty (README.md:135-137; engine.cpp:110); a failed fsync leaves a record whose
seqNo is given again (wal.cpp:344-352, TESTING.md:32); an append after a failed
header write goes to a segment recovery discards (wal.cpp:271-282); the file
budget is soft, README.md:240 says "at most"; a failed `accept()` ends the server thread
also while its socket is open (http_server.cpp:88); the worker may merge a fallback
window below the trigger after a manual compaction between its two picks
(README.md:175).

### Why the bounds are enough

Memtables of one entry and segments of one to nine records make every write a
rotation, a roll or neither, by choice of the run. Two keys are enough for a
table or a segment that holds one key's newest record and another's old one;
three or four writes give a record in the log, in the queue, in two tables and
in a compaction output at the same time. One crash, with all the crash points
between any two steps, covers each unclean restart from each reachable state;
`Engine_compact` runs under `SafeSpec`, that is, without the compactions that
`CompactsSafely` excludes: they lead to the flaws of `Engine_lost` and of the first
row above, which would hide the remaining behaviour. Crashed and failed stores are
compacted all the same, only in order. (A larger instance with one close besides,
2.9 million states, holds too, but takes five minutes.)
`Wal_faults` needs two faults for a failure after a recovery from a failure.
In `Reads_gets` four tables are two flushed, one compacted and one more, and one
open file forces an eviction at each change of table. `Policy_stall` has no
bound but the number of failing jobs and the sizes: the stall itself keeps the
state space finite.

`Sst_lookup` has block sizes that cut after every entry, after two or three, and
after three to six or not at all, and restart intervals that fall inside, at the end
of and beyond a block; blocks with up to six restart points let the binary search
go both ways. Hashes are taken modulo 16 instead of 2^64 and wrap for one key.
In `Table_reads` two threads and a capacity of two blocks give a hit, a miss, an
eviction and a block that never fits; a third thread adds only more of the same
waiting. `Shell_commands` needs six writes: five, with restarts between them, put three
records into a segment that was never rolled, more than the queue of two takes,
and the sixth is refused for good; without that state `AdviceHelps` would need no
exception. One failure is enough for a segment that
stays behind, a flush that is retried and a close that is left halfway.

Deadlock checking is off in the runs because the systems may stop: writes,
crashes and closes are bounded and nobody has to write.

### Fairness

`Engine!Fairness`: threads that can take a step under a free lock do so (the
writer in its put, a flush or compaction under way, close). The flush worker is
fair only until it is told to stop, because its loop leaves at
`if (stop_workers_) break` (engine.cpp:163) whatever is queued. Starting a
write, a compaction, a close or a crash is never fair. `CompactionPolicy!Spec`:
the flush worker and the compaction worker's tick and job are scheduled;
`StallClears` assumes that compaction is eventually not paused, and the
constants satisfy `StallCanClear`, which the code does not validate. `Shell!FairSpec`:
the main thread (except at the prompt, where nobody has to type), the flush
worker, the workers' way out of their loops, a compaction the worker has begun
and the server thread where it does not wait for a client are scheduled, and a
refused user tries what he was told; starting a session, the worker's decision to
compact and a client's connecting, sending and reading are never fair, because
accept, recv and send have no timeout. `QuitEnds` therefore has the condition that the
thread does not wait for a client for ever, `[]<>~WaitsForClient`. `SstFile` and
`TableReads`: a thread inside a lookup goes on. `Reads` and `Wal` have safety properties only.

## 4. What is proved

`EngineProofs` proves, for any constants allowed by `EngineAssumption` (any
sets of keys and values, any queue length, memtable and roll size, any number
of crashes, closes and failures):

- `TypeCorrect`: `Spec => []TypeOK`. The inductive invariant `TypeInv` is
  `TypeOK /\ Quiet`: a step of the flush or the compaction job keeps its types
  only because a job exists while the workers are up, the replay list is used
  only while the log is replayed, and the output of a job is finite. The proof
  has one lemma per group of actions (open, write, flush, compaction, stop) and
  in each one step per action.
- `LiveTablesAreThere`: `Spec => []LiveTablesExist`. The property alone is not
  inductive: `TablesInv` adds that every id in a table list is below the next
  id, that the output of the job under way carries the next id and its file
  exists, that the inputs of a compaction are still named by the manifest in
  memory, and that the ids being deleted are named by no table list. The
  argument is that ids below the next id are never given again, so deleting an
  input or a cancelled output can never hit a live table.

Lemmas about the operators (prepending, dropping the last, sorted tables,
merged windows) are stated once and cited.

- `MemtablesAreOrdered`: `Spec => []MemtablesOrdered`. The order of the
  memtables is inherited from the log and the seqNo counter, so `OrderInv`
  carries all three: segments follow each other in seqNo order and no seqNo
  occurs twice; an open log has no record above the counter and none behind
  the active segment; during replay memory holds only seqNos of the log, later
  only counted ones; and a record the writer has logged but not applied is
  newer than all that is held. A restart is where it is needed: memory is
  empty, the whole log is still to be replayed, and the oldest record by
  segment and place is the oldest by seqNo.

The last and longest part proves, on top of these and for any constants, what the
engine is for. The theorems are about `Spec`, with a condition on compactions that the
code does not keep (findings 1 and 2 of `PROJECT.json`), so it cannot be
dropped:

- `CompactsSafely`: nothing at all in the first session, that is, before the first
  close, crash or failed build or save (`FirstSession`); afterwards, while a
  compaction is under way, the manifest is ordered by max_seqno
  (README.md:208-211 promises it) and the compaction drops no delete marker,
  unless everything in the log and in memory is newer than all tables. Both are
  needed: `Engine_lost` breaks the first, the second finding the second.
- `StoreIsSafe`: `Spec /\ []CompactsSafely => []SafeInv`.
- `GetsWhatIsDurable`: `Spec /\ []CompactsSafely => []ReadsAreDurable`.
- `OnlyWritesChange`: `Spec /\ []CompactsSafely => OnlyWritesChangeTheStore`.
- `EngineIsKvStore`: `Spec /\ []CompactsSafely /\ []KeepsLastWrite =>
  ImplementsKvStore`. `KeepsLastWrite` is for the seqNo counter: a delete marker
  that is the very last write and is dropped lets recovery give its seqNo again.
- `KvStoreWithoutCompaction`: `MaxCompactId = 0 => (Spec => ImplementsKvStore)`.
  Flushes, failed saves, closes and crashes alone never need a condition, not even
  where records are flushed twice.

The argument, in the order of `StoreInvariant`. Everything is a set of entries
(key, value, seqNo): those of the log, of memory, of the tables saved, listed and
readable. `LogInv`: a seqNo stands for one entry, and the log is the newest part of
what is known. `CoverInv`: a table with a higher max_seqno has the newer entry of a
key that both hold, and what the log or memory have at or below a table's
max_seqno is in the tables up to that one, so that the watermark may delete it.
This survives a table flushed twice, although the order of the manifest does not,
and is what the proof turns on. `KeepInv`: the newest entry of a key that the log
does not hold is in a table, or was a delete marker and no table has the key.
`PlaceInv`: every logged entry is in a memtable, in the right place of the queue, or
in a table that no memtable is behind; and if one is only in a table, no memtable is
behind the first table of the list. `ReplayInv`: while the log is replayed, memory is part
of it. `ReadInv`: what a get finds first is the newest. `JobInv`: the flush builds
the oldest memtable, the cleanup follows a save, a compaction's output is that of a
window. From these, `DurableView` and the live view both give, for every key, the
newest entry there is (`DurableIsNewest`, `LiveIsNewest`), which is the property;
a step that keeps the newest entries keeps the store (`StoreIsSame`). In the first
session `SessionInv` shows that rotation rolls the log, so that a flushed
memtable's records fill whole segments, all of them are removed, and what is left
of the log is newer than all tables: `CompactsSafely` holds by itself. `CounterInv`:
the last seqNo given out is in the log or is a max_seqno.

`WalProofs` proves, from `WalAssumption` (any mutations, N and roll size, any number of
crashes, power cuts and failing calls), with all faults allowed unless a theorem says
otherwise,

- `WalTyped`: `Spec => []TypeOK`. The invariant `Typed` adds that the set of segments is
  finite, that a step inside `append` happens only in an open log, and that the record
  under way is the last item of the active segment with the next seqNo.
- `ReplayNeverGoesBackHolds`: `Spec => []ReplayNeverGoesBack`. `OrderInv`: the seqNos of
  the good items do not fall through the files, those behind a torn item or in a file
  without header included, and none in an open log is above the one that is given next.
- `ReplayInWriteOrderHolds`: `"sync" \notin Faults => (Spec => []ReplayInWriteOrder)`.
  A failed fsync leaves a record that is not counted and whose seqNo is given again;
  without it the order is strict (`StrictInv`).
- `CleanupKeepsUncoveredHolds`: `Spec => CleanupKeepsUncovered`. The highest seqNo the
  class keeps of a segment is at least that of each acknowledged item in it
  (`CleanupInv`), even if the segment was entered by an append after a failed one.
- `AcknowledgedIsReplayedHolds`: `{"write", "header"} \cap Faults = {} => (Spec =>
  []AcknowledgedIsReplayed)`. `WholeInv`: a segment with items has a header and a bad item
  at most at its end, and the active one of an open log has its header and no bad item.
  A short write and a header that is not written leave an open log where that is
  false; both are in section 3.
- `LossIsBoundedHolds`: `FsyncEveryN = 1 \/ MaxCrashes = 0 => (Spec =>
  []LossIsBounded)`. `RiskInv`: an open log has at most N-1 acknowledged records behind
  what is synced, and at most as many as were appended since, one less while a record is
  due to be synced or is on its way to be acknowledged; a closed one has none. A
  process that dies on its own with N > 1 leaves records that the next one does not
  count: the finding about survivors in section 3.
- `WalIsDurableLog`: `FsyncEveryN = 1 /\ Faults = {} /\ MaxPowerCuts = 0 => (Spec =>
  ImplementsDurableLog)`. `LoggedAre` says that the records a restart would replay, the
  one under way apart, are the good items in the files. Opening, rolling, marking and
  cleanup each do to them what the action of `DurableLog` does; writing and syncing are
  stutters, so that the record appears when the append returns or the process dies.
  `SyncedInv`: a crash can take only the record that is not synced yet
  (`OneByOne`); the active segment has room for it, so that it goes where `DurableLog`
  puts it; and the highest seqNo known of a segment covers everything in it (`KnowsAll`).
  Power cuts are excluded for a reason: a record whose append did not return can
  survive a process crash, be replayed, and still be lost when the power fails, since
  `open()` syncs nothing. `AcknowledgedIsReplayedHolds` and `LossIsBoundedHolds` cover
  them.

`PolicyProofs` proves, from `PolicyAssumption` (any fan-in, ratio, trigger,
stall limit, queue length; `StallCanClear` is not used),

- `PickIsRight`: `Spec => []PickIsTheReference`, for lists of any length. By
  induction over the windows the loop has looked at: its two candidates are
  the cheapest of the size-similar ones and the cheapest of all so far.
- `StallBoundsBacklog`: `Spec => []BacklogIsBounded`. A put that is under way
  has seen at most `l0_stop_writes` tables and from then on only moves, not
  adds, until its rotation; so the bound is one lower while it is under way.
- `PolicyTyped`: `Spec => []TypeOK`. The room in the queue that a rotation
  needs is checked when it happens; a compaction of the picked window, which
  the previous lemmas locate, leaves a shorter list of tables.

`SstProofs` proves, from `SstAssumption` (any set of natural keys, any entry
sizes, any positive restart interval, any block size, any hash functions),

- `LookupIsExactHolds`: `Spec => []LookupIsExact`. The invariant has a part for
  the writer and one for the lookup. Writer: the entries in the finished blocks
  and the block under construction are those of the keys already written, in key
  order across blocks; every offset on disk is below `offset`, so that a
  finished block is never overwritten, and every index entry leads to a good block
  under its first key; restart points lie inside the block, the first at its first
  entry; every bit of every written key is set. Lookup: if the table has the key,
  its entry is in the block chosen by the index search, the key at the restart
  point `lo` is not above it, and it is at or behind `pos` in the scan.
- `ScanDeliversAllHolds`: `Spec => []ScanDeliversAll`, from the writer's part of the
  same invariant: each block is in key order and lies below the first key of those
  after it, and what the blocks hold together is the memtable. `FlattenInOrder`
  carries both over to the concatenation, by induction over the blocks.
- `WrittenFileVerifiesHolds`: `Spec => []WrittenFileVerifies`, with the invariant
  `LayoutInv`: `bytes` of every block, the one under construction too, is the sum of
  the sizes of its entries; the size in the index is that of the block with its
  trailer; each block ends where the next begins, the last at `offset`.

`ReadsProofs` proves, from `ReadsAssumption` (any number of threads, writes,
memtables, tables and open files),

- `TypeOKHolds`, and `PinnedFilesExistHolds`: the invariant says that a table
  occurs once in the current Version, that the inputs still to be deleted are not
  in it, and that the files of the current Version and of every Version a reader
  has pinned are there. A reader that starts later pins the current Version only,
  so what no reader holds when it is deleted is never asked for again.
- `GetIsLinearizableHolds`: `Spec => []GetIsLinearizable`. What a Version holds,
  memtables and tables together and newest first, is ordered: an entry found
  first is the highest. The current Version's highest is `writes`, and no step
  lowers the highest of a Version a reader has, since memtables only grow and
  tables never change; so the reader's highest is at least what it was at its
  call, and what it has passed over held nothing.
- `OpenFilesAreTrackedHolds`: `Spec => []OpenFilesAreTracked`, from an invariant of
  the pool, `PoolInv`: no file is in two places of the list or with two evicting
  threads or with both, and no thread holds victims unless it is evicting; every open
  file is in one of those places, and of a handle that still lives the converse
  holds. The list is what the order of `on_open`, `touch`, `requeue` and of the
  destructors makes it; the destructors run one after the other, in an order the
  code does not fix, and `RemovalOfSet` of `CommonLemmas` says what is left.

`TableReadsProofs` proves, from `TableReadsAssumption` (any threads, tables, block
sizes and capacity),

- `NoBlockReadTwiceHolds`: the lock of a handle is held by at most one thread,
  blocks of different tables have different keys, and only the holder of the lock
  of its table inserts under such a key.
- `BlocksAreTheirsHolds`: the map gives for a key the block of that key.
- `StartupTablesAreSafeHolds`: footers are never forgotten; a thread that is past
  the filter has a footer.
- `CacheAgreesHolds` and `WarmBlocksStayHolds`, from one invariant, `CacheInv`: the
  cache's list is the beginning of the list of all blocks ever used, latest first
  (`ListOK`); a longer beginning would not fit (`RoomIsUsed`); and the byte count is
  the sum of the sizes of the cached blocks (`UsedOK`). An insertion moves the block
  to the front of both lists and evicts from the back what does not fit, so that what
  was beyond the capacity stays beyond it. The sums are folds that choose their
  elements in no known order; `SumInAnyOrder` of `CommonLemmas` makes them
  independent of it.

`ShellProofs` proves, from `ShellAssumption` (any configuration and bounds),

- `HandlersSeeOpenEngineHolds`: the engine is closed only after the thread was
  joined, and a session is left only through the close.
- `PauseStopsSoonHolds`: while compaction is paused the worker takes no new
  decision, so a decision and a late compaction together are at most one.
- `TypeOKHolds`: `Spec => []TypeOK`, so that also the queue is never longer than
  `max_immutable_tables` and `flushed` never passes `last`. `TypeInv` adds that a
  memtable under a flush is still queued until it is published, so that what is
  published is there; `RebuiltFits` says that the queue rebuilt by replay, a
  multiple of the memtable's size for each entry, ends at or before the last seqNo.

Induction is used as a fact about sets (`InductionOnASet` in `CommonLemmas`):
a set of naturals with 0 and all successors is `Nat`, because a set without a
least element would make strict inclusion of finite intervals ill-founded. With
it `RecursionExists` shows that a recursive function satisfies its equation,
which is what the two loops of the picker are, and `FoldExists` does the same for
folds over finite sets, which are what sums are.

Every invariant and every action property of the passing runs is the subject of a
theorem, some under the conditions named above. Only model-checked is all liveness
(`CloseTerminates`, `ReleasedUnlessClosedFast`, `StallClears`, `LookupEnds`,
`LocksAreReleased`, `AdviceHelps`, `StallEnds`, `QuitEnds`), which under fairness is out
of the prover's reach.

## 5. Components and properties, in the source's terms

- `MemtablesOrdered` is what wal.hpp:85-88 relies on for cleanup ("tables are
  strictly seqNo-ordered, so anything unflushed is above the watermark").
- `LiveTablesExist` is what `open()` checks (engine.cpp:85-88) and refuses to
  start without.
- `ReadsAreDurable` equates what `get` returns with what a restart would
  return, in every state; `OnlyWritesChangeTheStore` says maintenance is
  invisible; `ImplementsKvStore` says both for histories and counts writes.
- `GetIsLinearizable`, `PinnedFilesExist` and `OpenFilesAreTracked` are the
  three duties of the Version scheme: right answer, file still there, file
  closed some day.
- `PickIsTheReference` compares the loop of `pick_compaction` with the
  description of the picker; `BacklogIsBounded` and `StallClears` say what the
  write stall is for.
- `LookupIsExact` says of one file what `Engine` and `Reads` take for granted of
  all; `ScanDeliversAll` says it of what a compaction reads.
- `CacheAgrees`, `WarmBlocksStay`, `BlocksAreTheirs` and `NoBlockReadTwice` are the
  duties of the block cache: accounts, order, identity, and no double work.
- `StartupTablesAreSafe` is the part of "the request fails, the process does not
  crash" (README.md:242-244) that holds.
- `AdviceHelps` takes the texts of the refusals at their word ("run flush-now",
  "run compaction-run", "run compaction-resume first"); `PauseStopsSoon`, `StallEnds`,
  `QuitEnds` and `HandlersSeeOpenEngine` are what a session's threads owe each other.

## 6. Plan

Done: the models, runs and theorems above. What could follow, the most
important first:

1. `Shell` implementing a coarser `Engine`, so that its ranges of seqNos are shown
   to be what `Engine` keeps for pairwise different keys.

## 7. Running

From this directory, `tlc -config X.cfg M` with the module and configuration of
`PROJECT.json`, and `tlapm M.tla` for each of the eight modules with proofs.

## 8. Not modelled

Configuration parsing, log lines and the text of metrics have no state that the
engine's behaviour depends on; the relations between settings that the code
does not check are the assumptions of the modules. Of the command line, commands
that only read (stats, probe, get, the info, list and verify commands, doctor) and
the offline tools wal-verify and wal-truncate are left out; the unlocked reads of
the manifest in the statistics commands are listed as a hazard and a finding.
Bytes, checksums and JSON are abstracted: a record, a block or a file is good or
not; keys are numbers in byte order, and hashes are functions given as constants.
Corruption of files at rest is outside all modules. Crashes, also those a lost
client can cause in `send()` (SIGPIPE), are steps of `Engine` and `Wal`, not of `Shell`.
