# A TLA+ verification of HeavyDB

HeavyDB (formerly MapD, OmniSciDB) is a SQL database for CPUs and GPUs. This
directory holds TLA+ models of the parts of it whose correctness depends on the
order in which things happen, the TLC configurations that check them on small
instances, and TLAPS proofs that hold for instances of every size.

Three subsystems are modelled: the storage of a table on disk, its recovery and its
compaction (`DataMgr/FileMgr`), the buffer pool that queries read chunks through
(`DataMgr/BufferMgr`), and the manager that decides which queries may run with which
resources (`QueryEngine/ExecutorResourceMgr`).

## The system

A query arrives at the server (`ThriftHandler`), is parsed and planned (`Parser`,
`Calcite`, `Analyzer`), and is executed by an `Executor` on worker threads. Before
its kernels run, the executor asks the **ExecutorResourceMgr** for CPU or GPU slots,
result memory and the chunks the query reads; the call blocks until a queue thread
grants them out of the **ExecutorResourcePool**. The kernels then fetch chunks
through **DataMgr**, which keeps them at three levels: GPU and CPU buffer pools
(**BufferMgr**), and disk. On disk, a table is one directory managed by one
**FileMgr**; **GlobalFileMgr** opens and closes them, and the **Fragmenter** drives
them with inserts, updates, deletes, vacuums and drops. The **Catalog** keeps the
metadata, and **LockMgr** sees to it that a table has one writer at a time.

| Part | State | Operations | Behaviours that are hard to test | Module |
|---|---|---|---|---|
| FileMgr, FileBuffer, FileInfo, Page.h, Epoch.h | page headers and contents on disk and in the system's cache, per-file dirty flags, the epoch file, chunk index, free pages | append, write (copy on write), vacuum, delete, checkpoint, close, open at an epoch, roll-off of old versions | a crash at any point with any part of the writes on disk; rollback to an earlier epoch, again and again; history rolled off in between | `FileMgr`, and `EpochStore` for what it promises |
| File compaction (FileMgr.cpp) | files, free pages, status file, page mappings | sort files, copy pages, show the copy and hide the original, sync, delete files, resume | a crash between any two steps, again while resuming; pages that are free in memory and not on disk | `FileCompaction` |
| ExecutorResourcePool, ResourceGrantPolicy | totals, policies, allocations, pledged chunks with reference counts | calculate the bounds of a grant, determine it, allocate, deallocate, change totals and policies | rounding, oversubscription, chunks shared by queries, memory gated by slots | `ExecutorResourcePool` |
| ExecutorResourceMgr, OutstandingQueueRequests, BinarySemaphore | requests by stage, counters, semaphores, flags of the queue thread | request, enqueue, wait, time out, grant, wake, release, retry with fewer slots, pause, resume, stop | the interleavings of query threads, the queue thread and administrative threads over three mutexes | `ExecutorResourceMgr` |
| BufferMgr, Buffer, the global lock of DataMgr | slabs, segments, pins, the chunk index, three kinds of mutex | get, fetch, alloc, free, reserve, evict, delete a table, clear the slabs | eviction against pinning and against deletes, slabs the system refuses, loads that fail, out of memory | `BufferMgr` |
| QueryDispatchQueue, DataRecycler, StringDictionary, CachingFileMgr | task queue; caches with eviction; append-only dictionary; disk cache | | | later, see the plan |
| Catalog, LockMgr, Parser, Calcite, ForeignStorage, ImportExport, GPU drivers, Geospatial, StringOps and the rest | | | | not modelled, see the end |

## The modules

| Module | Lines it stands for | What it is |
|---|---|---|
| `FileMgr` | `FileMgr.cpp`, `FileBuffer.cpp`, `FileInfo.cpp`, `Page.h` | state machine of one table: 11 actions |
| `EpochStore` | | abstract: a table with a history of epochs; `FileMgr` implements it |
| `MCFileMgr` | | instances for TLC |
| `FileMgrProofs` | | theorems about `FileMgr` |
| `FileCompaction` | `FileMgr.cpp` from `resumeFileCompaction` on, `GlobalFileMgr::compactDataFiles` | state machine of one compaction: 15 actions |
| `MCFileCompaction` | | instances for TLC |
| `FileCompactionPageProofs` | | the invariant behind the theorems about `FileCompaction`, and what copying, showing and hiding a page does to it |
| `FileCompactionProofs` | | theorems about `FileCompaction` |
| `BufferMgr` | `BufferMgr.cpp`, `Buffer.cpp`, `Buffer.h`, `DataMgr::getGlobalLockIfEnabled` | state machine of one pool and its callers |
| `MCBufferMgr` | | instances for TLC |
| `BufferMgrUseProofs` | | the invariant behind the theorems about `BufferMgr`, and that the steps of a call keep it |
| `BufferMgrProofs` | | theorems about `BufferMgr` |
| `ExecutorResourcePool` | `ExecutorResourcePool.cpp`, `ResourceGrantPolicy.cpp`, `ResourceRequest.h` | the arithmetic of the pool as operators on a record, and a small state machine that grants and returns |
| `MCExecutorResourcePool` | | configurations and requests for TLC |
| `ExecutorResourcePoolBooksProofs` | | lemmas about the operators of the pool: sums, the accounts, the chunks, the bounds of a grant |
| `ExecutorResourcePoolProofs` | | theorems about `ExecutorResourcePool` |
| `ExecutorResourceMgr` | `ExecutorResourceMgr.cpp`, `OutstandingQueueRequests.h`, the callers in `Execute.cpp` and `DBHandler.cpp` | the threads, composed with the operators and the state of the pool |
| `MCExecutorResourceMgr` | | thread sets and workloads for TLC |
| `ExecutorResourceMgrProofs` | | theorems about `ExecutorResourceMgr` |

`PROJECT.json` maps every definition to the lines it models.

Definitions whose comment starts with "Mutant" are faulty variants of the
definition that follows them. They are not part of the model; replacing the
definition by its mutant makes TLC report the property that guards against that
mistake (the list is in `PROJECT.json`).

### FileMgr

A chunk is a sequence of rows in logical pages; a logical page is a *MultiPage*, a
set of versions `<<epoch, page>>`. The model keeps, per physical page, a header
(`hdr`), the cells of a data page (`cells`) and the size in a metadata page
(`msize`). Everything exists twice: `cache` is what the process reads, `disk` is
what survives a power loss.

| In the model | In the code |
|---|---|
| `epoch`, `epochFile` | `epoch_`, and what `writeAndSyncEpochToDisk` last wrote |
| `chunkIndex` | `chunkIndex_`: key to `FileBuffer` |
| `freePages`, `free_pages` | `FileInfo::freePages`; `free_pages_`, freed in this epoch and reusable after the checkpoint |
| `isDirty` | `FileInfo::isDirty`, here per page (every page in a file of its own is the finest case) |
| `live`, `snap` | history variables: the rows as the callers know them, now and at each checkpoint the epoch file offers |
| `append`, `putBufferUpdated`, `putBufferVacuumed` | `FileBuffer::append`, `FileMgr::putBuffer` with `FileBuffer::write` |
| `dropColumn`, `dropFragments` | `deleteBuffersWithPrefix` with and without `resetEpochFloor` |
| `checkpoint`, `syncFilesToDisk`, `writeAndSyncEpochToDisk` | the three parts of `FileMgr::checkpoint`; a crash can come between them |
| `closeFileMgr`, `init` | `closePhysicalUnlocked`, `FileMgr::init` with `setEpoch`, `openFiles`, `createBufferFromHeaders` and `rollOffOldData` |
| `crash` | the process or the machine dies: `Images` is every mixture of `disk` and `cache`, by header, by cell and by metadata page |

An operation that runs under the table's write lock is one action up to its
writes; a crash may keep any part of those, so the order of the writes inside
an operation does not matter to what a restart can find.

`PromptWriteback` is an assumption about the operating system: what a process
that ended has left in the system's cache is on disk before the machine loses
power. The passing runs assume it; `FileMgr_lazy_writeback` drops it.

### EpochStore

What `FileMgr` promises its callers, with no pages: `table` changes freely while it
is open; `Checkpoint` makes it the newest entry of `history` in one step and may give
up the oldest entries; `Lose` (a crash or a close) forgets `table`; `Open` brings back
any entry and forgets the later ones. `ImplementsEpochStore` is its specification
under the mapping of `FileMgr`'s `Store`: `history` is what opening the files at
each epoch of the epoch file would find (of an open table, what is on disk), and `table` is what reading the
chunks through the chunk index gives. A checkpoint is thus one step, the write of
the epoch file; rolling off, syncing and the writes of metadata are stutters; and a
crash in the middle of any of them must not be seen in `history`.

### FileCompaction

A page is a header size (`used`) and the rest (`body`, which says which page of which
chunk and epoch it is); `Deleted` is what `freePage` leaves. `freePages` is in memory;
`status` is the status file, whose name says which phase to resume; `page_mappings`
is in memory and, from the end of the first phase, in the status file. `loop` holds
the locals of `sortAndCopyFilePagesForCompaction`. One copy, one change of a header
and one deletion of a file are a step each, and `crash` may come between any two.
`init` opens the files, resumes (`resumeFileCompaction`) and then opens them again,
where `Duplicates` stands for the CHECK that fails on two pages with the same
identity. Ties of `std::sort` are left open.

`FreedSinceOpen` says whether pages were freed since the table was opened (their
header sizes are not zero on disk); `LosesBuffered` says whether a killed process may
lose what it has written and not synced.

### BufferMgr

Sizes are in pages. What runs under `slab_mutex_` is one action, except that each
attempt to get a slab from the system is its own, with `slab_mutex` held in between.

| In the model | In the code |
|---|---|
| `slabs`, `unsized` | `slab_segments_`, `unsized_segs_` |
| `chunk_index`, `buffers` | `chunk_index_`, and the `Buffer` with its pins, reserved pages and size |
| `touched` | the order of `last_touched` |
| `chunk_mutex`, `slab_mutex` | `getChunkMutex(key)`, `slab_mutex_` |
| `op`, `held` | where each thread is in its call; the buffers it has pinned and reads |
| `getBuffer` to `finish` | `getBuffer` and `fetchBuffer`: find and pin, or make a placeholder; reserve; fetch from the parent; return |
| `growInPlace`, `findFreeBufferInSlab`, `addSlab`, `slabRefused`, `noSlab`, `evict`, `OutOfMemory` | the alternatives of `reserveBuffer` and `findFreeBuffer` |
| `deleteBuffersWithPrefix`, `lookUp`, `eraseChunkSegment`, `deleteSegment` | the steps of dropping a table's buffers, between which other threads may come |
| `fatal` | `LOG(FATAL)` or a failed CHECK: the server starts again |

`clearSlabs` takes `clear_slabs_global_mutex_` exclusively, which every call holds
shared, so it runs when no call does; callers may still hold buffers. With
`global_lock` one call runs at a time. `DeletesUnlocked` says whether tables are
dropped without that lock, as they are by default. If there is no slab at all, the
search for an eviction compares iterators of an empty vector; the model takes the
outcome of that comparison in practice, out of memory.

### ExecutorResourcePool

The pool is a record (totals, policies, allocations by subtype, outstanding
requests by type, pledged chunks). Each operator is one function of
`ExecutorResourcePool.cpp`; its CHECKs are predicates with the suffix `_CHECK`.
Sizes are small integers; a ratio is a pair of integers, and rounding is that of
the code. A failed CHECK ends the process: `aborted` names the function it was in.

### ExecutorResourceMgr

One action is one critical section. Query threads go through `idle`,
`calculated`, `enqueued`, `notified`, `waiting`, `woken`, `executing`,
`deallocated`, `finished`, `done`; the queue thread through `wait`, `dequeue`,
`allocate`, `wake`; an administrative thread through `pausing`, `paused`,
`inside`, `applied`, `done`. `processor_queue_mutex_` is held by the queue thread
through an iteration, so those who need it wait for `queue.pc = "wait"`. A
semaphore is an entry of `outstanding_requests_map_` that says whether it is
ready; it can be ready before its thread waits for it. A request that fails for
lack of result memory is retried with fewer slots (`after_error`), as in
`ExecutorResourceMgr::request_resources`.

## The runs

Run one with `tlc -config <cfg> <module>`.

| Run | Configuration | Checks | Result |
|---|---|---|---|
| `crash` | `FileMgr_crash` | `CrashSafe`, `ReadsWhatWasWritten`, `FloorNeverLowered` | holds, 62 036 states |
| `drops` | `FileMgr_drops` | `CrashSafe`, `PagesAccountedFor` | holds, 36 914 states |
| `implements` | `FileMgr_implements` | `TypeOK`, `RollbackSafe`, `ImplementsEpochStore` | holds, 8 017 states |
| `compaction` | `Compaction_phases` | `ContentsKept`, `CompactedFully`, `ChecksHold`, `OpensAgain` | holds, 149 513 states |
| `buffers` | `Buffer_calls` | `TypeOK`, `SegmentsTile`, `IndexMatchesSegments`, `HeldIsPinned`, `DeletesWhatItFound`, `HeldMovesOnlyToGrow` | holds, 320 487 states |
| `pool` | `Pool_grants` | `PoolMatchesGrants`, `NeverOvercommitted`, `RunsAlone`, `GrantsWithinBounds`, `AcceptedIsServable`, `ChecksHold`, `SanityCheckHolds` | holds, 5 542 states |
| `mgr_queue` | `Mgr_queue` | `TypeOK`, `StagesMatchCounters`, `AllocatedIsExecuting`, `PausedMeansIdle`, `PauserIsAlone`, `NoGrantMissed`, `RunsOnItsGrant`, `NothingLeaks`, `NeverOvercommitted`, `ChecksHold` | holds, 70 810 states |
| `mgr_live` | `Mgr_live` | `EveryRequestIsAnswered`, `PauseCompletes`, `ShutdownCompletes` | holds, 54 916 states |
| `mgr_timeouts` | `Mgr_timeouts` | `StagesMatchCounters`, `NothingLeaks` | holds, 96 958 states |
| `vacuum_rollback` | `FileMgr_vacuum_rollback` | `RollbackSafe` | violated |
| `compaction_freed` | `Compaction_freed` | `ChecksHold` | violated |
| `buffer_delete` | `Buffer_delete` | `DeletesWhatItFound` | violated |

**crash, drops.** Whatever part of the writes since the last checkpoint reached the
disk, a restart finds exactly the rows of that checkpoint, including the rows of
chunks whose deletion was marked and not checkpointed; an open table reads back
what was written; no page is lost or used twice.

**implements.** `FileMgr` refines `EpochStore`. In particular every epoch between the
floor and the ceiling of the epoch file can be opened and has the rows it had when it
was checkpointed (`RollbackSafe`), for a table that is appended to and updated in
place, whose history is capped, and which may have been rolled back before.

**compaction.** From every layout of used and free pages over three data files and a
metadata file, with two crashes anywhere: no page is lost or doubled, the files that
remain are as few as they can be, and the table opens again.

**buffers.** All interleavings of two threads, two chunks and a temporary buffer in a
pool of three pages: segments tile their slabs, index and segments agree between
calls, what a caller reads is neither evicted, deleted nor cleared, and it moves only
when a call makes that buffer larger.

**pool.** Under every combination of the concurrency options three clients that take
and return grants in any order keep the books right and never exceed what a policy
allows, also with requests whose chunks do not fit at once and whose memory is gated
by their slots.

**mgr_queue, mgr_timeouts.** All interleavings of two queries (which may be refused
and retried) with a thread that pauses the queue, changes the CPU slots or their
policy and resumes it; and of three queries, one with a timeout.

**mgr_live.** Every request is granted or refused in the end, a pause ends, and a
shutdown at any moment completes.

The violated runs show where the code does something other than its comments say:

- `vacuum_rollback`: an append after a vacuum writes into the free cells of a page
  that an earlier epoch still uses, so a rollback to that epoch finds the new rows.
- `compaction_freed`: a page freed since the table was opened is on the free list with
  a header size that is not zero on disk. A copy into it is visible at once; a crash
  then leaves the page twice, and every later opening fails a CHECK.
- `buffer_delete`: a delete looks up a segment and goes on with it without
  `slab_mutex_`, while another thread evicts it. The global lock that would prevent
  this is off by default.

### Bounds, and why they are enough

- *FileMgr.* One or two chunks, two or three data pages, two or three metadata
  pages, pages of one or two rows, epochs up to 3 or 4, one reopening (after a
  `close`, or a crash at any point). A page of two cells is what makes a partly
  filled last page (`crash`, `vacuum_rollback`); two chunks make drops of one and not
  of the other; three pages of a kind let a logical page have three versions, so
  that one lies below the floor, one at it and one above (metadata pages in
  `implements`, pages of both kinds in `FileMgr_rollback`); `RollbackLimits` of 0 and 1
  roll off within a run of three epochs. A crash and the
  invariants that compare what a restart would find need no reopening; a reopening
  is needed for damage that an opened table does to what it found. Row values are
  interchangeable and need two members for an old row to be told from a new one.
  When the bounds of epochs and reopenings are reached nothing is enabled, so the
  configurations of `FileMgr` do not check for deadlock.
- *Compaction.* Three files of one page size make a destination, a source and one
  that is either, so that a source can fill two destinations and a destination take
  two sources; a fourth, of the other page size, makes the loop over page sizes; two
  pages make full, partly used and empty files. Two crashes interrupt a resumption.
- *Buffers.* Two threads, as every lock has two sides; two chunks and a temporary
  buffer of one or two pages in a pool of at most three pages, in slabs of at most
  two: a slab fills, splits and merges, a second slab is smaller than the limit, a
  buffer grows in place or moves, and two buffers of two pages do not fit, so that
  one must be evicted. `MaxPins` bounds the pins that failed calls leave behind.
- *Pool.* Four CPU slots, two GPUs, memories of 5 and 2 units: small enough for
  requests to collide, exceed a total, and round in both directions. Three clients:
  two to share a chunk, and a third to be refused or to remain.
- *Manager.* Two or three queries with one request each and its retries: a small
  one, one as wide as the pool, one that must shrink, and one for the GPU. Deadlock
  is checked, except in `mgr_live`, where a shutdown leaves waiting queries
  behind by design of the code (see `Mgr_stop` below).

### Fairness

`FairSpec` assumes weak fairness of every query thread that has begun a request
(semaphores and mutexes are granted, a query that runs ends), of the queue
thread (a C++ thread woken by a condition variable), and of an administrative thread
in the middle of its operation. Nothing makes queries arrive, timeouts pass or
administrative operations start. No strong fairness is used. A thread
that needs `processor_queue_mutex_` may lose it to the queue thread, but not for
ever: the queue thread holds it only while it grants, and it grants finitely many
requests before it sleeps, so the mutex comes free and stays free. A pause that is
reached stays reached until someone resumes the queue; with two pausers someone may,
and the property fails (`Mgr_two_pausers_live`).

`FileCompaction` assumes weak fairness of `Step`: the process goes on, and a killed
one is started again. Nothing makes a compaction start. Crashes are bounded in
number; without a bound a process could be killed for ever.

`BufferMgr` assumes strong fairness of each thread's steps: a mutex that comes free
again and again is obtained in the end, although others take it in between. Only
`CallsEnd` (`Buffer_live`) uses it; C++ mutexes do not promise it, schedulers provide
it.

### Further configurations

These are kept beside the runs and can be checked in the same way.

| Configuration | Property | What it shows |
|---|---|---|
| `FileMgr_limits` | `CrashSafe` | holds: reopening with another `max_rollback_epochs`, which rolls off data while the table is opened, keeps the rows of the last checkpoint at every point it can crash at |
| `FileMgr_rollback` | `TypeOK`, `RollbackSafe` | holds, 36 314 states: as `implements`, with more pages and epochs |
| `FileMgr_lazy_writeback` | `CrashSafe` | violated: `syncToDisk` syncs the files this process has written, not those that an earlier process wrote and left to the system ("Fsyncs data files, writes out epoch and fsyncs that", FileMgr.h:267) |
| `FileMgr_drop_rollback` | `RollbackSafe` | violated: `dropFragmentsToSize` deletes chunks without `resetEpochFloor`, so an epoch the file still offers lacks the rows of a dropped fragment once its pages are reused ("the lowest epoch for which we have complete data", FileMgr.cpp:1196) |
| `FileMgr_limit_crash` | `RollbackSafe` | violated: `init` rolls off old versions before the epoch file says so; a crash in between leaves a floor that is too low ("only safe to be called within a checkpoint, after the sync and epoch increment", FileBuffer.cpp:218) |
| `FileMgr_limit_epoch` | `EpochOneAheadOfCheckpoint` | violated: opening a table that has data to roll off increments the epoch twice ("should be one greater than recorded at last checkpoint", FileMgr.h:276) |
| `FileMgr_epoch_ahead` | `OpeningNeverRaisesEpoch` | violated: `setEpoch` compares with the floor only ("both not higher than the last checkpointed epoch AND it is >= the epoch floor", FileMgr.cpp:1193) |
| `Compaction_lost` | `ContentsKept` | violated: the copies are not synced before the second phase hides the originals, so a killed process that loses buffered writes may lose a page ("graceful recovery if a crash/process interruption occurs", FileMgr.cpp:1252) |
| `Buffer_live` | `CallsEnd` | holds: every call returns or throws |
| `Buffer_empty` | `HeldIsPinned` | violated for requests of no pages: `clearSlabs` looks for pins in the slabs only, and a pinned buffer without pages goes with the rest ("Buffers may also be *pinned* to a slab, preventing them from being evicted.", docs/source/data_model/memory_layout.rst:13) |
| `Pool_gated` | `PoolMatchesGrants`, `NeverOvercommitted`, `SanityCheckHolds`, `ChecksHold` | holds, 1 424 states: gated requests where CPU slots may be oversubscribed |
| `Pool_result_mem` | `ChecksHold` | violated: with result memory taken from the buffer pool, result memory and chunks are tested one by one and allocated together ("Caller (ExecutorResourceMgr) should never request resource allocation for a request it knows cannot be granted", ExecutorResourcePool.cpp:984) |
| `Pool_gated_slots` | `ChecksHold` | violated: the slots of a gated grant are what its memory allows, not what is free, and `allocate_resources` fails a CHECK (ExecutorResourcePool.cpp:972) |
| `Pool_cpu_concurrency` | `CpuQueriesRunConcurrently` | violated: without CPU-GPU concurrency the policy of GPU slots makes CPU queries wait for each other, although CPU concurrency is on (CommandLineOptions.cpp:203) |
| `Mgr_timeout_race` | `ChecksHold` | violated: a timeout that meets the grant fails a CHECK instead of giving an exception (ExecutorResourceMgr.cpp:576) |
| `Mgr_two_pausers` | `PauserIsAlone` | violated: of two threads that pause the queue at once, the second goes on while queries execute ("waiting for all queries in the executing stage to finish before yielding to the caller", ExecutorResourceMgr.h:278) |
| `Mgr_two_pausers_live` | `PauseCompletes` | violated: a thread that waits for the pause misses it when another resumes the queue first (ExecutorResourceMgr.cpp:338) |
| `Mgr_smaller_pool` | `ChecksHold` | violated: a request accepted before the buffer pool was made smaller fails a CHECK when its turn comes (ExecutorResourcePool.cpp:662) |
| `Mgr_device_counters` | `DeviceCountersAgree` | violated: a request refused when its turn comes stays counted as executing on its device (ExecutorResourceMgr.cpp:620) |
| `Mgr_stop` | `NobodyWaitsAfterStop` | violated: the destructor stops the queue thread and wakes no waiting request (ExecutorResourceMgr.h:153) |

Some more observations from the source, which no property states: an exception to a
caller with a timeout leaves its request in stage EXECUTING
(`handle_resource_stat_error` is called by the variant without timeout only); the
queue thread spins while it is paused, since its wait returns at once; and a stream
of small requests can hold back a large one for ever, since the oldest request
*that fits* is chosen. In the buffer pool, a call that finds a buffer and fails to
grow it leaves its pin behind; growth moves a buffer that other callers read; and at
verbosity 2 the out-of-memory path prints the slabs, which locks `slab_mutex_` again
in the thread that holds it.

## The proofs

`tlapm <module>` checks them. They hold for every value of the constants that
satisfies the modules' named assumptions: any number of chunks, pages, values and
epochs; any threads, buffers and slab sizes; any configurations, requests, query
threads, timeouts and administrative threads.

| Theorem | States | Rests on |
|---|---|---|
| `FloorMonotonic` | `FloorNeverLowered`: history once given up is not offered again | `FloorInv`, `RollOffFloorBounds` |
| `HeldAlwaysPinned` | `HeldIsPinned`, if no request is for zero pages: what a caller reads is never evicted, deleted or cleared | `UseInv` and `IndexInv` |
| `DeletesFindTheirSegment` | `DeletesWhatItFound`, if tables are dropped under the global lock only | `LockInv` |
| `CompactionKeepsContents` | `ContentsKept`, if freed pages have no size left in their headers and a killed process loses no write: a compaction that is interrupted anywhere, and as often as one likes, leaves every written page exactly once | compaction's `IInv` |
| `CompactionPassesChecks` | `ChecksHold` of the compaction, under the same conditions | compaction's `IInv` |
| `BooksBalance` | `PoolMatchesGrants`: counters and reference counts are the sums over the grants that are out | `PoolInv` |
| `GrantsAsPromised` | `GrantsWithinBounds`: a grant lies within the bounds of its request | `PoolInv` |
| `ExclusiveRequests` | `RunsAlone`: who is to run alone in the system does | `PoolInv` |
| `PoolNotOvercommitted` | `NeverOvercommitted`, if `SeparateResults` | `PoolInv` and `Committed` |
| `AcceptedRequestsFit` | `AcceptedIsServable`, if `NestedLimits` | `PoolInv` |
| `AllocationsAreSane` | `SanityCheckHolds`, if `SeparateResults` and `ChunksHaveBytes` | `PoolInv` and `Committed` |
| `PoolPassesChecks` | `ChecksHold` of the pool, if `SeparateResults` and `NoneGated` | `PoolInv` and `Committed` |
| `StagesAlwaysMatch` | `StagesMatchCounters`: the counters agree with the stages, a request is in one stage at a time and none is forgotten | `IInv` |
| `AllocationsAreExecuting` | `AllocatedIsExecuting`: a grant is allocated once and returned once, inside stage EXECUTING | `IInv` |
| `PausedIsIdle` | `PausedMeansIdle`: a paused queue means that nothing executes and nothing is allocated | `IInv` |
| `RunsOnGrant` | `RunsOnItsGrant`: a query runs on the grant that was determined for it | `IInv` and `GrantInv` |
| `OnePauserIsAlone` | `PauserIsAlone`, if `OnePauser` | `IInv` and `PauserInv` |
| `NoLostWakeup` | `NoGrantMissed`, if `OnePauser`: the queue thread does not sleep on a request it could grant | `IInv`, `PauserInv`, `BusyInv` and `MissedInv` |

**FileMgr.** `FloorInv` says that the epoch in memory, which the next
`writeAndSyncEpochToDisk` will write, has a floor not below that of the epoch file
and not above its own ceiling. Without the second half it is not inductive: opening
at an epoch, rolling off and DROP COLUMN all compute a floor from a ceiling.
`RollOffFloorBounds` gives both bounds of what `rollOffOldData` computes.

**BufferMgr.** `HeldIsPinned` counts the callers that read a buffer; it is not
inductive, since a call has its pin before it returns. `UseInv` counts the *users* of
a buffer, callers and calls under way alike, and adds what keeps others from removing
it: `ShapeInv`, the shapes of the variables; `PinInv`, a pin for each user;
`OwnerInv`, the call that works on a chunk has its mutex, a new buffer has no other
user and one that is being removed has none; `SizedInv`, a buffer that is read has
pages, so that `clearSlabs` sees its pins (here the assumption on requests is used;
without it the property fails, `Buffer_empty`). `IndexInv` says that what can be
looked up exists. The theorem does not assume the global lock: a delete that races
an eviction ends the process, it does not take a buffer from its caller.
`LockInv` says that with the global lock one call is under way and that without it
none is a delete, which leaves nobody to evict what a delete has looked up.

**FileCompaction.** `ContentsKept` speaks of an open table; between two phases the
files hold a page twice. `IInv` says what they amount to at every step, from the status
file on: with status `update_page_visibility`, `Half`, every written page is used at the
source or at the destination of its mapping, or at both; otherwise `Exact`, it is used
once. `MappingsInv` keeps the mappings apart: sources differ from each other and
from all destinations. `FreeInv` says what each phase may believe of
`FileInfo::freePages`, and `LoopInv` why the loop that copies stops before a source
becomes a destination: the source index runs down, the destination index up, over files
sorted by their free pages, and files between the two have pages of both kinds. The two
conditions are needed: `compaction_freed` and `Compaction_lost` show what happens
without them.

**ExecutorResourcePool.** The operators of the pool work on a record, so the lemmas are
about any pool `p` and any grants `h` that are out. `Books(p, h)` equates each counter
with a sum over `h`, and each chunk's count with the number of holders that refer to it;
`PoolInv` adds the types of the pool, that every grant is as promised, and that
who is to run alone does. A grant adds one summand and a return takes it away
(`SumAdded`, `SumDropped`); for chunks, `ChunksAdded` and `ChunksRemoved` follow the
reference counts. `Committed` is what `can_currently_satisfy_request_impl` establishes
for a pool with result memory of its own. The sums are
`SumFunction` of the community modules; what the lemmas use of it is proved from its
definition on finite sets, one element at a time. The conditions of the theorems:

- `SeparateResults`: result memory does not come from the buffer pool
  (`g_use_cpu_mem_pool_for_output_buffers`, on by default, is off). Otherwise
  `ChecksHold` fails, since result memory and chunks are tested one by one
  (`Pool_result_mem`);
- `NestedLimits`: a request may have no more pageable than pinned memory, and no more
  of that than there is, as the ratios 0.5 and 1.0 of `Executor::init_resource_mgr` say;
- `ChunksHaveBytes`: the sanity check takes allocated bytes to mean that someone holds a
  chunk, and conversely; an empty chunk would confuse it;
- `NoneGated`: no request needs more than one query may have pinned; with gated requests
  the property fails where slots are scarce (`Pool_gated_slots`).

**ExecutorResourceMgr.** None of the properties is inductive by itself.
That a request is taken off a stage once, and returned to the pool once, rests on
who owns its id. `IInv` has five parts:

- `ShapeInv`: the domains of what the threads share;
- `StagesInv`: the stages are finite sets of ids, with `StagesMatchCounters`;
- `OwnerInv`: no two threads have the same request; a request is owned by the queue
  thread from `dequeue` to `wake`, by its semaphore while that is ready, and by its
  query thread from `woken` on, never by two of them, and all of them own requests
  in stage EXECUTING only;
- `PausedInv`: `process_queue_is_paused_` implies that the pause is still asked for,
  that the queue thread is outside its critical section, and that nothing executes;
- `HeldInv`: which owner's request has an allocation, or else was refused.

`RunsOnGrant` adds `GrantInv`: what the pool holds for a request is what the request's
entry says it was granted. An entry is written only while its request is queued, and
then it holds nothing, which `HeldInv` and `StagesInv` say.

Two properties hold where one thread pauses the queue (`OnePauser`; with two,
`Mgr_two_pausers` shows the first of them violated). `PauserInv` ties the flags of the
pause to the place that thread has reached. `MissedInv` says that while the queue thread
may sleep (`Asleep`: no work is announced, nobody has just returned resources), each
queued request was found to wait, or its thread is about to set
`should_process_queue_` (`Announced`); `BusyInv` says that the flag stays set through an
iteration that dequeues a request, so that the others are looked at again after it.

There is one lemma for each action or group of actions alike, and under it one step
for each part of the invariant. TLC checked `IInv` on the instances of `mgr_queue`,
`mgr_timeouts` and of `Mgr_two_pausers` before it was proved. The theorems hold
for two pausers and for timeouts as well: what goes wrong there is that a thread
believes the queue to be paused, or that a CHECK ends the process, not that the
books are wrong.

Only model-checked: liveness (under fairness, out of the prover's reach);
`CompactedFully`, which compares cardinalities of sets of pages and files;
`CrashSafe`, `RollbackSafe`, `ReadsWhatWasWritten` and `PagesAccountedFor`, whose
statements read a table back through `CHOOSE` and cardinalities of sets of headers; the refinement of `EpochStore`, whose mapping reads
tables back in the same way; `NothingLeaks`, which takes the books of the pool through
the steps of the manager; `SegmentsTile`, `IndexMatchesSegments` and
`HeldMovesOnlyToGrow`, which sum and select over sequences of segments; and the type
invariants, of which the proofs use the parts they need (`ShapeInv`, `PoolType`).

## What could come next

1. *DataMgr* over two pools and `FileMgr`: a dirty chunk is written down before it is
   forgotten. This needs dirty buffers, `checkpoint` and `putBuffer` in `BufferMgr`.
2. *Proofs about `FileMgr`*: `PagesAccountedFor` and `CrashSafe` for every number of
   pages and files; and `NothingLeaks` for the resource manager, from `Books` and `IInv`.
3. *QueryDispatchQueue*, the *DataRecycler*'s caches and the *StringDictionary*'s
   recovery, as far as they have state worth a model.

## Not modelled, and why

- In BufferMgr: dirty buffers and `checkpoint`, `putBuffer`, growth by a caller that
  appends to a buffer it holds, `deleteBuffer` of a single chunk. The pools of GPU and
  CPU are not composed: the parent of a pool is a step that delivers or fails.
- CachingFileMgr (it shares `FileMgr`'s pages and may lose its content),
  QueryDispatchQueue, DataRecycler, StringDictionary: see above.
- The encoders and the metadata of chunks (minimum, maximum, nulls): functions on
  data; in `FileMgr` a chunk's metadata is its size.
- The Fragmenter's list of fragments, the Catalog and LockMgr: `FileMgr` takes from
  them that a table has one writer at a time.
- Migrations of old data directories (`MigrationMgr`, `FileMgr::migrateToLatestFileMgrVersion`):
  run once, before a table is used.
- The timing statistics of the resource manager and everything that prints.
- The query engine's code generation and kernels, Geospatial, StringOps, UDFs: pure
  functions on values far from what a model checker enumerates.
- Parser and Calcite (generated code and a translation), ForeignStorage and
  ImportExport (parsing and I/O), CudaMgr and L0Mgr (wrappers of drivers).
