------------------------------- MODULE FileMgr -------------------------------
(***************************************************************************)
(* The storage of one table (DataMgr/FileMgr): chunks kept as versioned    *)
(* pages, checkpoints that advance an epoch, rollback to an earlier epoch, *)
(* a capped history, and recovery after a crash.                           *)
(*                                                                         *)
(* A page lives in a file.  `cache' is what a read returns, `disk' is what *)
(* survives a power loss; the stdio and system buffers lie between them.   *)
(* Every page is in a file of its own: the finest granularity the          *)
(* per-file dirty flag can have.  Creating another file when no page is    *)
(* free is bounded by DataPages and MetaPages.                             *)
(***************************************************************************)
EXTENDS Integers, Sequences, FiniteSets, FiniteSetsExt

CONSTANTS Chunks,          \* chunk keys of the table, naturals: the index is ordered
          DataPages,       \* page numbers of the data files
          MetaPages,       \* page numbers of the metadata files
          PageCells,       \* rows that fit in a data page
          Vals,            \* row values
          RollbackLimits,  \* values max_rollback_epochs may take; -1 is uncapped
          MaxSize,         \* bound: rows of a chunk
          MaxEpoch,        \* bound: highest epoch reached
          MaxRestarts,     \* bound: how often the table is opened again
          Vacuums,         \* whether deleted rows are ever vacuumed
          FragmentDrops,   \* whether max_rows ever drops a fragment
          PromptWriteback, \* whether the system has written to disk what a process left
                           \* behind before the machine can lose it
          EpochsAhead      \* how far past the checkpointed epoch a caller asks to open

ASSUME PagesAssumption ==
  /\ Chunks \subseteq Nat /\ DataPages \subseteq Nat /\ MetaPages \subseteq Nat
  /\ IsFiniteSet(Chunks) /\ IsFiniteSet(DataPages) /\ IsFiniteSet(MetaPages)
  /\ DataPages \cap MetaPages = {}
ASSUME SizesAssumption ==
  /\ PageCells \in Nat \ {0} /\ MaxSize \in Nat /\ MaxEpoch \in Nat /\ MaxRestarts \in Nat
  /\ EpochsAhead \in Nat
  /\ RollbackLimits \subseteq Int
  /\ Vacuums \in BOOLEAN /\ FragmentDrops \in BOOLEAN /\ PromptWriteback \in BOOLEAN

VARIABLES disk,       \* durable pages
          cache,      \* pages as the process reads them
          isDirty,    \* FileInfo::isDirty, per page
          epochFile,  \* the epoch file, always written with a sync
          epoch,      \* epoch_: floor and ceiling in memory
          chunkIndex, \* chunkIndex_: chunk key to FileBuffer, a partial function
          freePages,  \* FileInfo::freePages of all files
          free_pages, \* free_pages_: freed in this epoch, not yet reusable
          pc,         \* where the process is: down, running, or in a checkpoint
          initializing,      \* the checkpoint in progress was started by init
          maxRollbackEpochs, \* maxRollbackEpochs_
          restarts,   \* how often the table was opened again
          live,       \* history: the rows the callers wrote, by chunk key
          snap        \* history: what was live at the checkpoint of each epoch that
                      \* the epoch file offers

vars == <<disk, cache, isDirty, epochFile, epoch, chunkIndex, freePages,
          free_pages, pc, initializing, maxRollbackEpochs, restarts,
          live, snap>>

Pages == DataPages \cup MetaPages
MetaId == -1

(***************************************************************************)
(* Page headers.  A header size of zero marks the page free; freePage      *)
(* overwrites the table part of the chunk key with a contingent (DELETE or *)
(* ROLLOFF, read alike) and the epoch the page was freed in.               *)
(***************************************************************************)
FreeHeader == [used |-> FALSE, contingent |-> FALSE, freedAt |-> 0,
               key |-> 0, id |-> 0, ver |-> 0]

PageHeader(c, id, e) == [used |-> TRUE, contingent |-> FALSE, freedAt |-> 0,
                         key |-> c, id |-> id, ver |-> e]

\* Mutant: a page counts as deleted whether or not the epoch of its deletion was
\* checkpointed.
DeletedOnceMarked(h, e) == h.contingent

is_page_deleted_with_checkpoint(h, e) == h.contingent /\ e >= h.freedAt
is_page_deleted_without_checkpoint(h, e) == h.contingent /\ e < h.freedAt

freePage(h, e) == [h EXCEPT !.contingent = TRUE, !.freedAt = e]
recoverPage(h) == [h EXCEPT !.contingent = FALSE, !.freedAt = 0]

\* Mutant: opening keeps the pages of an epoch that was not checkpointed.
KeepsUncheckpointedPages(h, e) ==
  IF ~h.used \/ is_page_deleted_with_checkpoint(h, e) THEN FreeHeader
  ELSE IF is_page_deleted_without_checkpoint(h, e) THEN recoverPage(h) ELSE h

\* What opening a file at epoch e leaves in the header of a page.
openHeader(h, e) ==
  IF \/ ~h.used
     \/ is_page_deleted_with_checkpoint(h, e)
     \/ h.ver > e
  THEN FreeHeader
  ELSE IF is_page_deleted_without_checkpoint(h, e) THEN recoverPage(h) ELSE h

(***************************************************************************)
(* A MultiPage is the set of <<epoch, page>> versions of a logical page.   *)
(***************************************************************************)
\* Mutant: the first version of a page is taken for the current one.
OldestVersion(mp) == CHOOSE v \in mp : \A w \in mp : v[1] <= w[1]

current(mp) == CHOOSE v \in mp : \A w \in mp : w[1] <= v[1]
PagesOf(mp) == {v[2] : v \in mp}

EmptyBuffer == [meta |-> {}, pages |-> <<>>, size |-> 0,
                dirty |-> FALSE, updated |-> FALSE]

BufferPages(b) == PagesOf(b.meta) \cup UNION {PagesOf(b.pages[i]) : i \in DOMAIN b.pages}

IndexedPages == UNION {BufferPages(chunkIndex[c]) : c \in DOMAIN chunkIndex}

(***************************************************************************)
(* Rows of a chunk: row k is cell SlotOf(k) of logical page PageOf(k).     *)
(***************************************************************************)
PageOf(k) == (k - 1) \div PageCells + 1
SlotOf(k) == ((k - 1) % PageCells) + 1
PageCount(n) == (n + PageCells - 1) \div PageCells

\* FileBuffer::read: the rows a buffer holds.
read(img, b) ==
  [k \in 1 .. b.size |-> img.cells[current(b.pages[PageOf(k)])[2]][SlotOf(k)]]

(***************************************************************************)
(* createBufferFromHeaders: the buffers that the headers of an opened      *)
(* image give.  The process dies on an image that is not Consistent.       *)
(***************************************************************************)
ChunkPages(hdr, c) == {p \in Pages : hdr[p].used /\ hdr[p].key = c}
PageIds(hdr, c) == {hdr[p].id : p \in ChunkPages(hdr, c)}
MultiPageOf(hdr, c, id) ==
  {<<hdr[p].ver, p>> : p \in {q \in ChunkPages(hdr, c) : hdr[q].id = id}}

BufferFromHeaders(img, c) ==
  LET meta == MultiPageOf(img.hdr, c, MetaId)
  IN [meta |-> meta,
      pages |-> [i \in 1 .. Cardinality(PageIds(img.hdr, c) \ {MetaId}) |->
                   MultiPageOf(img.hdr, c, i - 1)],
      size |-> img.msize[current(meta)[2]],
      dirty |-> FALSE, updated |-> FALSE]

IndexFromHeaders(img) ==
  [c \in {d \in Chunks : ChunkPages(img.hdr, d) # {}} |-> BufferFromHeaders(img, c)]

Consistent(hdr) ==
  /\ \A c \in Chunks :
       LET ids == PageIds(hdr, c)
       IN ids # {} => MetaId \in ids /\ ids \ {MetaId} = 0 .. (Cardinality(ids) - 2)
  /\ \A p, q \in Pages :
       (p # q /\ hdr[p].used /\ hdr[q].used) =>
         <<hdr[p].key, hdr[p].id, hdr[p].ver>> # <<hdr[q].key, hdr[q].id, hdr[q].ver>>

\* The bytes under a free header are never read before they are written: the
\* model does not keep them (NoRow stands for them and is not a row value).
NoRow == 0
WithoutGarbage(img) ==
  [img EXCEPT !.cells = [p \in DataPages |-> IF img.hdr[p].used THEN @[p]
                                             ELSE [j \in 1 .. PageCells |-> NoRow]],
              !.msize = [p \in MetaPages |-> IF img.hdr[p].used THEN @[p] ELSE 0]]

openFiles(img, e) ==
  WithoutGarbage([img EXCEPT !.hdr = [p \in Pages |-> openHeader(img.hdr[p], e)]])

\* Opening image img at epoch e gives exactly the rows of contents.
Restores(img, e, contents) ==
  LET o == openFiles(img, e)
      index == IndexFromHeaders(o)
  IN /\ Consistent(o.hdr)
     /\ \A c \in DOMAIN index : PageCount(index[c].size) <= Len(index[c].pages)
     /\ contents = [c \in DOMAIN index |-> read(o, index[c])]

-----------------------------------------------------------------------------
(***************************************************************************)
(* Taking pages.  requestFreePage returns the lowest free page; the pages  *)
(* taken by one operation are a function from what they are taken for.     *)
(***************************************************************************)
requestFreePages(taken, free) ==
  \A i \in DOMAIN taken :
    {q \in free : q < taken[i]} = {taken[j] : j \in {k \in DOMAIN taken : k < i}}

FreeData == freePages \cap DataPages
FreeMeta == freePages \cap MetaPages
Taken(taken) == {taken[i] : i \in DOMAIN taken}

\* Headers of the pages taken for logical pages of chunk c, at epoch e.
writeHeaders(hdr, c, taken, e) ==
  [p \in Pages |-> IF \E i \in DOMAIN taken : taken[i] = p
                   THEN PageHeader(c, (CHOOSE i \in DOMAIN taken : taken[i] = p) - 1, e)
                   ELSE hdr[p]]

\* Cells once rows are written to buffer b from row lo on.
writeRows(cells, b, lo, rows) ==
  LET At(p, j) == {k \in lo .. lo + Len(rows) - 1 :
                     current(b.pages[PageOf(k)])[2] = p /\ SlotOf(k) = j}
  IN [p \in DataPages |-> [j \in 1 .. PageCells |->
        IF At(p, j) = {} THEN cells[p][j]
        ELSE rows[(CHOOSE k \in At(p, j) : TRUE) - lo + 1]]]

\* Physical pages that hold rows lo..hi of buffer b.
PagesOfRows(b, lo, hi) == {current(b.pages[PageOf(k)])[2] : k \in lo .. hi}

getOrCreateBuffer(c) == IF c \in DOMAIN chunkIndex THEN chunkIndex[c] ELSE EmptyBuffer

SetBuffer(c, b) ==
  chunkIndex' = [d \in DOMAIN chunkIndex \cup {c} |-> IF d = c THEN b ELSE chunkIndex[d]]
SetLive(c, rows) ==
  live' = [d \in DOMAIN live \cup {c} |-> IF d = c THEN rows ELSE live[d]]

-----------------------------------------------------------------------------
(***************************************************************************)
(* FileBuffer::append, reached from inserts: rows go into the free cells   *)
(* of the last page in place, and into new pages after it.                 *)
(***************************************************************************)
append(c, n, v) ==
  LET b == getOrCreateBuffer(c)
      lo == b.size + 1
      hi == b.size + n
      new == (Len(b.pages) + 1) .. PageCount(hi)
      rows == [k \in 1 .. n |-> v]
  IN /\ pc = "running"
     /\ c \in DOMAIN chunkIndex \/ \A d \in DOMAIN chunkIndex : d < c
     /\ hi <= MaxSize
     /\ \E taken \in [new -> FreeData] :
          LET nb == [b EXCEPT !.pages = [i \in DOMAIN b.pages \cup new |->
                                           IF i \in new THEN {<<epoch.ceiling, taken[i]>>}
                                           ELSE b.pages[i]],
                              !.size = hi, !.dirty = TRUE]
          IN /\ requestFreePages(taken, FreeData)
             /\ freePages' = freePages \ Taken(taken)
             /\ cache' = [cache EXCEPT
                            !.hdr = writeHeaders(@, c, taken, epoch.ceiling),
                            !.cells = writeRows(@, nb, lo, rows)]
             /\ isDirty' = isDirty \cup PagesOfRows(nb, lo, hi)
             /\ SetBuffer(c, nb)
             /\ SetLive(c, (IF c \in DOMAIN live THEN live[c] ELSE <<>>) \o rows)
     /\ UNCHANGED <<disk, epochFile, epoch, free_pages, pc, initializing,
                    maxRollbackEpochs, restarts, snap>>

(***************************************************************************)
(* FileBuffer::write of all the rows of a chunk: a page whose current      *)
(* version is of an earlier epoch is copied to a new one first.            *)
(***************************************************************************)
write(c, b, rows) ==
  LET ids == 1 .. PageCount(Len(rows))
      stale == {i \in ids : current(b.pages[i])[1] < epoch.ceiling}
  IN \E taken \in [stale -> FreeData] :
       LET nb == [b EXCEPT !.pages = [i \in DOMAIN b.pages |->
                                        IF i \in stale
                                        THEN b.pages[i] \cup {<<epoch.ceiling, taken[i]>>}
                                        ELSE b.pages[i]],
                           !.dirty = TRUE, !.updated = rows # <<>>]
           copied == [p \in DataPages |->
                        IF \E i \in stale : taken[i] = p
                        THEN cache.cells[current(b.pages[CHOOSE i \in stale : taken[i] = p])[2]]
                        ELSE cache.cells[p]]
       IN /\ requestFreePages(taken, FreeData)
          /\ freePages' = freePages \ Taken(taken)
          /\ cache' = [cache EXCEPT
                         !.hdr = writeHeaders(@, c, taken, epoch.ceiling),
                         !.cells = writeRows(copied, nb, 1, rows)]
          /\ isDirty' = isDirty \cup PagesOfRows(nb, 1, Len(rows))
          /\ SetBuffer(c, nb)

\* putBuffer of an updated buffer; a second update before a checkpoint is fatal.
putBufferUpdated(c, k, v) ==
  /\ pc = "running"
  /\ c \in DOMAIN chunkIndex
  /\ k \in 1 .. chunkIndex[c].size
  /\ ~(chunkIndex[c].dirty /\ chunkIndex[c].updated)
  /\ write(c, chunkIndex[c], [live[c] EXCEPT ![k] = v])
  /\ SetLive(c, [live[c] EXCEPT ![k] = v])
  /\ UNCHANGED <<disk, epochFile, epoch, free_pages, pc, initializing,
                 maxRollbackEpochs, restarts, snap>>

\* putBuffer of a chunk whose first n rows were vacuumed; a checkpoint follows
\* before the table lock is released.
putBufferVacuumed(c, n) ==
  /\ Vacuums
  /\ pc = "running"
  /\ c \in DOMAIN chunkIndex
  /\ ~chunkIndex[c].dirty
  /\ n \in 1 .. chunkIndex[c].size
  /\ LET rows == SubSeq(live[c], n + 1, chunkIndex[c].size)
     IN /\ write(c, [chunkIndex[c] EXCEPT !.size = Len(rows)], rows)
        /\ SetLive(c, rows)
  /\ pc' = "flush"
  /\ UNCHANGED <<disk, epochFile, epoch, free_pages, initializing,
                 maxRollbackEpochs, restarts, snap>>

(***************************************************************************)
(* deleteBuffer with purge: every version of every page is freed, to be    *)
(* reused only after the next checkpoint.                                  *)
(***************************************************************************)
freePagesOf(hdr, freed, e) ==
  [p \in Pages |-> IF p \in freed THEN freePage(hdr[p], e) ELSE hdr[p]]

deleteBuffers(dropped) ==
  LET freed == UNION {BufferPages(chunkIndex[c]) : c \in dropped}
  IN /\ pc = "running"
     /\ cache' = [cache EXCEPT !.hdr = freePagesOf(@, freed, epoch.ceiling)]
     /\ isDirty' = isDirty \cup freed
     /\ free_pages' = free_pages \cup freed
     /\ chunkIndex' = [c \in DOMAIN chunkIndex \ dropped |-> chunkIndex[c]]
     /\ live' = [c \in DOMAIN live \ dropped |-> live[c]]
     /\ UNCHANGED <<disk, epochFile, freePages, initializing, maxRollbackEpochs,
                    restarts, snap>>

\* DROP COLUMN: the chunk goes, resetEpochFloor forbids rollback, a checkpoint follows.
dropColumn(c) ==
  /\ c \in DOMAIN chunkIndex
  /\ deleteBuffers({c})
  /\ epoch' = [epoch EXCEPT !.floor = epoch.ceiling]
  /\ pc' = "flush"

\* max_rows drops the oldest fragments, up to c, during an insert.
dropFragments(c) ==
  /\ FragmentDrops
  /\ c \in DOMAIN chunkIndex
  /\ Cardinality(DOMAIN chunkIndex) > 1
  /\ deleteBuffers({d \in DOMAIN chunkIndex : d <= c})
  /\ UNCHANGED <<epoch, pc>>

-----------------------------------------------------------------------------
(***************************************************************************)
(* Rolling off history below an epoch: a version goes when a later one     *)
(* already existed at that epoch; all pages of a chunk go when none of the *)
(* versions of its metadata left says it has rows.                         *)
(***************************************************************************)
\* Mutant: the version that the floor still needs is given up.
FreesTheVersionAtTheFloor(mp, min) ==
  mp \ {v \in mp : \E w \in mp : v[1] < w[1] /\ w[1] <= min + 1}

freePagesBeforeEpochForMultiPage(mp, min) ==
  mp \ {v \in mp : \E w \in mp : v[1] < w[1] /\ w[1] <= min}

freePagesBeforeEpoch(b, min, msize) ==
  LET meta == freePagesBeforeEpochForMultiPage(b.meta, min)
      rowless == b.size = 0 /\ \A v \in meta : msize[v[2]] = 0
  IN [b EXCEPT !.meta = meta,
               !.pages = IF rowless THEN <<>>
                         ELSE [i \in DOMAIN b.pages |->
                                 freePagesBeforeEpochForMultiPage(b.pages[i], min)]]

\* Mutant: the floor follows the ceiling one epoch too far behind.
FloorOneTooLow(e, floor, limit) == IF limit >= 0 THEN e - limit - 1 ELSE floor

\* rollOffOldData: the floor that a checkpoint of epoch e leaves.
rollOffFloor(e, floor, limit) ==
  IF limit >= 0 THEN Max({e - limit, floor}) ELSE floor

rollOffOldData(index, msize, floor, min) ==
  IF min > floor
  THEN [c \in DOMAIN index |-> freePagesBeforeEpoch(index[c], min, msize)]
  ELSE index

\* Mutant: the metadata pages that were rolled off are forgotten.
DataPagesIn(index) ==
  UNION {UNION {PagesOf(index[c].pages[i]) : i \in DOMAIN index[c].pages} : c \in DOMAIN index}

PagesIn(index) == UNION {BufferPages(index[c]) : c \in DOMAIN index}

-----------------------------------------------------------------------------
(***************************************************************************)
(* checkpoint, up to the writes that reach the disk: writeDirtyBuffers     *)
(* gives every dirty chunk a metadata page of this epoch, then old data is *)
(* rolled off.                                                             *)
(***************************************************************************)
writeDirtyBuffers(taken, dirty) ==
  [c \in DOMAIN chunkIndex |->
     IF c \in dirty
     THEN [chunkIndex[c] EXCEPT !.meta = @ \cup {<<epoch.ceiling, taken[c]>>},
                                !.dirty = FALSE, !.updated = FALSE]
     ELSE chunkIndex[c]]

writeMetadata(img, taken) ==
  LET Owner(p) == CHOOSE c \in DOMAIN taken : taken[c] = p
  IN [img EXCEPT
        !.hdr = [p \in Pages |-> IF p \in Taken(taken)
                                 THEN PageHeader(Owner(p), MetaId, epoch.ceiling) ELSE @[p]],
        !.msize = [p \in MetaPages |-> IF p \in Taken(taken)
                                       THEN chunkIndex[Owner(p)].size ELSE @[p]]]

checkpoint ==
  LET dirty == {c \in DOMAIN chunkIndex : chunkIndex[c].dirty}
      min == rollOffFloor(epoch.ceiling, epoch.floor, maxRollbackEpochs)
  IN /\ pc \in {"running", "flush"}
     /\ epoch.ceiling < MaxEpoch
     /\ \E taken \in [dirty -> FreeMeta] :
          LET written == writeDirtyBuffers(taken, dirty)
              img == writeMetadata(cache, taken)
              index == rollOffOldData(written, img.msize, epoch.floor, min)
              freed == PagesIn(written) \ PagesIn(index)
          IN /\ requestFreePages(taken, FreeMeta)
             /\ freePages' = freePages \ Taken(taken)
             /\ chunkIndex' = index
             /\ cache' = [img EXCEPT !.hdr = freePagesOf(@, freed, epoch.ceiling)]
             /\ free_pages' = free_pages \cup freed
             /\ isDirty' = isDirty \cup Taken(taken) \cup freed
     /\ epoch' = [epoch EXCEPT !.floor = min]
     /\ pc' = "sync"
     /\ UNCHANGED <<disk, epochFile, initializing, maxRollbackEpochs, restarts,
                 live, snap>>

Pick(S, new, old) == [p \in DOMAIN old |-> IF p \in S THEN new[p] ELSE old[p]]

syncFilesToDisk ==
  /\ pc = "sync"
  /\ disk' = [hdr |-> Pick(isDirty, cache.hdr, disk.hdr),
              cells |-> Pick(isDirty, cache.cells, disk.cells),
              msize |-> Pick(isDirty, cache.msize, disk.msize)]
  /\ isDirty' = {}
  /\ pc' = "commit"
  /\ UNCHANGED <<cache, epochFile, epoch, chunkIndex, freePages, free_pages,
                 initializing, maxRollbackEpochs, restarts,
                 live, snap>>

\* History at the epochs from floor to e: an epoch that was skipped has the rows
\* of the one before it.
SnapUpTo(e, floor) ==
  [i \in floor .. e |-> snap[IF i > epochFile.ceiling THEN epochFile.ceiling
                             ELSE IF i < epochFile.floor THEN epochFile.floor ELSE i]]

\* writeAndSyncEpochToDisk, then incrementEpoch and freePages, which are in
\* memory only; init increments the epoch once more.
writeAndSyncEpochToDisk ==
  /\ pc = "commit"
  /\ epochFile' = epoch
  /\ epoch' = [epoch EXCEPT !.ceiling = @ + IF initializing THEN 2 ELSE 1]
  /\ freePages' = freePages \cup free_pages
  /\ free_pages' = {}
  /\ snap' = [SnapUpTo(epoch.ceiling, epoch.floor) EXCEPT ![epoch.ceiling] = live]
  /\ initializing' = FALSE
  /\ pc' = "running"
  /\ UNCHANGED <<disk, cache, isDirty, chunkIndex, maxRollbackEpochs, restarts,
                 live>>

-----------------------------------------------------------------------------
\* The process is gone and with it all that it kept in memory.
Forget ==
  /\ pc' = "down"
  /\ isDirty' = {}
  /\ epoch' = [floor |-> 0, ceiling |-> 0]
  /\ chunkIndex' = <<>>
  /\ freePages' = {}
  /\ free_pages' = {}
  /\ initializing' = FALSE
  /\ maxRollbackEpochs' = -1
  /\ live' = <<>>
  /\ UNCHANGED <<epochFile, restarts, snap>>

\* closeFileMgr: the files are closed, which flushes but does not sync them.
closeFileMgr ==
  /\ pc = "running"
  /\ Forget
  /\ disk' = IF PromptWriteback THEN cache ELSE disk
  /\ UNCHANGED cache

\* What may be left of the writes between disk and cache: any of them, by
\* header, by cell and by metadata page.
Images ==
  LET torn == {p \in Pages : disk.hdr[p] # cache.hdr[p]}
      Image(hdr, S, M) ==
        WithoutGarbage([hdr |-> hdr,
                        cells |-> [p \in DataPages |-> [j \in 1 .. PageCells |->
                                     IF <<p, j>> \in S THEN cache.cells[p][j]
                                     ELSE disk.cells[p][j]]],
                        msize |-> Pick(M, cache.msize, disk.msize)])
      Cells(hdr) == {s \in DataPages \X (1 .. PageCells) :
                       hdr[s[1]].used /\ disk.cells[s[1]][s[2]] # cache.cells[s[1]][s[2]]}
      Sizes(hdr) == {p \in MetaPages : hdr[p].used /\ disk.msize[p] # cache.msize[p]}
  IN UNION {{Image(hdr, t[1], t[2]) : t \in (SUBSET Cells(hdr)) \X (SUBSET Sizes(hdr))} :
              hdr \in {Pick(H, cache.hdr, disk.hdr) : H \in SUBSET torn}}

\* The server process dies (the disk is as it was, the system keeps what was
\* flushed to it) or the machine dies (only what reached the disk is left).
crash ==
  /\ pc # "down" \/ disk # cache
  /\ Forget
  /\ cache' \in Images
  /\ \/ disk' = cache'
     \/ pc # "down" /\ ~PromptWriteback /\ UNCHANGED disk

\* Mutant: a rollback starts the history afresh.
setEpochWithoutFloor(e) == [floor |-> 0, ceiling |-> e]

\* setEpoch: the epoch file after opening at e.
setEpoch(e) == [epochFile EXCEPT !.ceiling = e]

(***************************************************************************)
(* init of a table whose data exists, at the epoch of the epoch file       *)
(* (override -1) or at an earlier one (setEpoch throws below the floor).   *)
(***************************************************************************)
init(override, limit) ==
  LET at == IF override = -1 THEN epochFile.ceiling ELSE override
      img == openFiles(cache, at)
      opened == IndexFromHeaders(img)
      min == rollOffFloor(at, epochFile.floor, limit)
      index == rollOffOldData(opened, img.msize, epochFile.floor, min)
      freed == PagesIn(opened) \ PagesIn(index)
  IN /\ pc = "down"
     /\ restarts < MaxRestarts
     /\ restarts' = restarts + 1
     /\ override # -1 => override >= epochFile.floor
     /\ at + (IF min > epochFile.floor THEN 2 ELSE 1) <= MaxEpoch
     /\ Consistent(img.hdr)
     /\ epochFile' = setEpoch(at)
     /\ cache' = [img EXCEPT !.hdr = freePagesOf(@, freed, at)]
     /\ isDirty' = {p \in Pages : cache'.hdr[p] # cache.hdr[p]}
     /\ freePages' = {p \in Pages : ~img.hdr[p].used}
     /\ free_pages' = freed
     /\ chunkIndex' = index
     /\ IF min > epochFile.floor
        THEN /\ epoch' = [floor |-> min, ceiling |-> at]
             /\ pc' = "sync"
             /\ initializing' = TRUE
        ELSE /\ epoch' = [floor |-> epochFile.floor, ceiling |-> at + 1]
             /\ pc' = "running"
             /\ initializing' = FALSE
     /\ maxRollbackEpochs' = limit
     /\ snap' = SnapUpTo(at, epochFile.floor)
     /\ live' = snap'[at]
     /\ UNCHANGED disk

-----------------------------------------------------------------------------
\* A new table: an empty directory, the epoch file at epoch 0.
Init ==
  /\ disk = [hdr |-> [p \in Pages |-> FreeHeader],
             cells |-> [p \in DataPages |-> [j \in 1 .. PageCells |-> NoRow]],
             msize |-> [p \in MetaPages |-> 0]]
  /\ cache = disk
  /\ isDirty = {}
  /\ epochFile = [floor |-> 0, ceiling |-> 0]
  /\ epoch = [floor |-> 0, ceiling |-> 1]
  /\ chunkIndex = <<>>
  /\ freePages = Pages
  /\ free_pages = {}
  /\ pc = "running"
  /\ initializing = FALSE
  /\ maxRollbackEpochs \in RollbackLimits
  /\ restarts = 0
  /\ live = <<>>
  /\ snap = [e \in {0} |-> <<>>]

Next ==
  \/ \E c \in Chunks, n \in 1 .. MaxSize, v \in Vals : append(c, n, v)
  \/ \E c \in Chunks, k \in 1 .. MaxSize, v \in Vals : putBufferUpdated(c, k, v)
  \/ \E c \in Chunks, n \in 1 .. MaxSize : putBufferVacuumed(c, n)
  \/ \E c \in Chunks : dropColumn(c)
  \/ \E c \in Chunks : dropFragments(c)
  \/ checkpoint
  \/ syncFilesToDisk
  \/ writeAndSyncEpochToDisk
  \/ closeFileMgr
  \/ crash
  \/ \E e \in -1 .. epochFile.ceiling + EpochsAhead, limit \in RollbackLimits : init(e, limit)

Spec == Init /\ [][Next]_vars

-----------------------------------------------------------------------------
(***************************************************************************)
(* What the pages and the epoch file amount to, as a table with a history: *)
(* its contents are the rows its buffers read, and its history is what     *)
(* opening the files at each epoch would find.                             *)
(***************************************************************************)
ContentsAt(img, e) ==
  LET o == openFiles(img, e)
      index == IndexFromHeaders(o)
  IN [c \in DOMAIN index |-> read(o, index[c])]

Store == INSTANCE EpochStore WITH
  open <- pc # "down",
  table <- IF pc = "down" THEN <<>> ELSE [c \in DOMAIN chunkIndex |-> read(cache, chunkIndex[c])],
  floor <- epochFile.floor,
  ceiling <- epochFile.ceiling,
  history <- [e \in epochFile.floor .. epochFile.ceiling |->
                ContentsAt(IF pc = "down" THEN cache ELSE disk, e)]

\* The files and buffers of a table implement a table with a history: whatever
\* is written, synced, rolled off or lost on the way, checkpoints are atomic and
\* durable, and opening at an epoch finds what was checkpointed in it.
ImplementsEpochStore == Store!Spec

Headers == [used : BOOLEAN, contingent : BOOLEAN, freedAt : Int,
            key : Nat, id : Int, ver : Int]
Buffers == [meta : SUBSET (Nat \X MetaPages), pages : Seq(SUBSET (Nat \X DataPages)),
            size : Nat, dirty : BOOLEAN, updated : BOOLEAN]

\* Type correctness of the state of the file manager.
TypeOK ==
  /\ \A img \in {disk, cache} :
       /\ img.hdr \in [Pages -> Headers]
       /\ DOMAIN img.cells = DataPages
       /\ img.msize \in [MetaPages -> Nat]
  /\ isDirty \subseteq Pages
  /\ epochFile \in [floor : Nat, ceiling : Nat]
  /\ epoch \in [floor : Nat, ceiling : Nat]
  /\ DOMAIN chunkIndex \subseteq Chunks
  /\ \A c \in DOMAIN chunkIndex : chunkIndex[c] \in Buffers
  /\ freePages \subseteq Pages
  /\ free_pages \subseteq Pages
  /\ pc \in {"down", "running", "flush", "sync", "commit"}
  /\ initializing \in BOOLEAN
  /\ maxRollbackEpochs \in RollbackLimits \cup {-1}
  /\ restarts \in 0 .. MaxRestarts
  /\ DOMAIN live \subseteq Chunks
  /\ DOMAIN snap = epochFile.floor .. epochFile.ceiling

\* Whatever of the writes since the last checkpoint reached the disk, a restart
\* at the epoch of the epoch file finds exactly the rows of that checkpoint.
CrashSafe ==
  /\ Restores(disk, epochFile.ceiling, snap[epochFile.ceiling])
  /\ pc = "down" => Restores(cache, epochFile.ceiling, snap[epochFile.ceiling])

\* The table can be opened at every epoch between the floor and the ceiling of
\* the epoch file, and has the rows it had when that epoch was checkpointed.
RollbackSafe ==
  pc = "down" => \A e \in epochFile.floor .. epochFile.ceiling : Restores(cache, e, snap[e])

\* A running table reads back what was written to it.
ReadsWhatWasWritten ==
  pc # "down" => live = [c \in DOMAIN chunkIndex |-> read(cache, chunkIndex[c])]

\* Of an open table every page is in exactly one place: on a free list, queued
\* until the checkpoint, or a version of one logical page of one chunk.
PagesAccountedFor ==
  pc # "down" =>
    /\ freePages \cup free_pages \cup IndexedPages = Pages
    /\ freePages \cap free_pages = {}
    /\ (freePages \cup free_pages) \cap IndexedPages = {}
    /\ \A c, d \in DOMAIN chunkIndex :
         c # d => BufferPages(chunkIndex[c]) \cap BufferPages(chunkIndex[d]) = {}
    /\ \A c \in DOMAIN chunkIndex : \A i, j \in DOMAIN chunkIndex[c].pages :
         i # j => PagesOf(chunkIndex[c].pages[i]) \cap PagesOf(chunkIndex[c].pages[j]) = {}

\* The floor of the epoch file never goes down: history once given up is not
\* offered again.
FloorNeverLowered == [][epochFile'.floor >= epochFile.floor]_vars

\* The epoch of an open table is one greater than that of the epoch file
\* ("should be one greater than recorded at last checkpoint", FileMgr.h).
EpochOneAheadOfCheckpoint ==
  pc \in {"running", "flush"} => epoch.ceiling = epochFile.ceiling + 1

\* Opening a table never raises the checkpointed epoch ("not higher than the last
\* checkpointed epoch", setEpoch in FileMgr.cpp).
OpeningNeverRaisesEpoch ==
  [][pc = "down" => epochFile'.ceiling <= epochFile.ceiling]_vars
=============================================================================
