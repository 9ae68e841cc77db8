------------------------------ MODULE BufferMgr ------------------------------
(***************************************************************************)
(* The buffer pool of one device (DataMgr/BufferMgr): slabs of memory cut  *)
(* into segments, chunks loaded into them on demand, pinned while a query  *)
(* uses them and evicted when room is needed.  Threads call it at the same *)
(* time; what runs under slab_mutex_ is one step, except that asking the   *)
(* system for slabs takes a step for each attempt.                         *)
(*                                                                         *)
(* Sizes are in pages.  Data is not modelled, only who may read it.        *)
(***************************************************************************)
EXTENDS Integers, Sequences, FiniteSets, FiniteSetsExt

CONSTANTS Threads, Chunks,     \* callers and keys of chunks
          Temporaries,         \* keys of buffers that alloc makes
          Requests,            \* sizes asked for
          MaxPoolPages,        \* max_buffer_pool_num_pages_
          MinSlabPages, MaxSlabPages, DefaultSlabPages, \* pages of a slab
          AllocFails,          \* whether the system may refuse a slab
          FetchFails,          \* whether the parent may fail to deliver a chunk
          MaxPins,             \* bound on the pins of a buffer
          GlobalLocks,         \* settings of g_enable_data_mgr_global_lock
          DeletesUnlocked      \* whether tables are dropped without that lock

ASSUME SlabAssumption ==
  /\ MinSlabPages \in Nat \ {0} /\ MaxSlabPages \in Nat /\ DefaultSlabPages \in Nat
  /\ MinSlabPages <= DefaultSlabPages /\ DefaultSlabPages <= MaxSlabPages
  /\ MaxPoolPages \in Nat \ {0} /\ MaxPins \in Nat /\ Requests \subseteq Nat
ASSUME CallerAssumption ==
  IsFiniteSet(Threads) /\ "nobody" \notin Threads /\ Chunks \cap Temporaries = {}
ASSUME FaultAssumption == {AllocFails, FetchFails, DeletesUnlocked} \cup GlobalLocks \subseteq BOOLEAN

VARIABLES global_lock, \* g_enable_data_mgr_global_lock, fixed at the start
          slabs,       \* slab_segments_: per slab its segments, in order
          unsized,     \* unsized_segs_: chunks with no pages yet
          chunk_index, \* chunk_index_: chunks that can be looked up
          buffers,     \* chunk to its Buffer, a partial function
          touched,     \* chunks in slabs, the least recently touched first
          num_pages_allocated, current_max, allocations_capped, \* slab allocation
          slab_mutex,  \* the thread that holds it across steps, or Nobody
          chunk_mutex, \* chunk to the thread that holds its mutex, or Nobody
          op,          \* the call each thread is in
          held         \* chunks each thread has pinned and reads

vars == <<global_lock, slabs, unsized, chunk_index, buffers, touched, num_pages_allocated,
          current_max, allocations_capped, slab_mutex, chunk_mutex, op, held>>

Keys == Chunks \cup Temporaries
pool == <<slabs, unsized, chunk_index, buffers, touched>>
limits == <<num_pages_allocated, current_max, allocations_capped>>

Nobody == "nobody"
FREE == "FREE"
Idle == [pc |-> "idle"]

\* Mutant: the lock of the data manager is not taken.
TakesNoLock(t) == op[t] = Idle

\* A thread may start a call of the data manager; with the global lock, one at a time.
getGlobalLockIfEnabled(t) ==
  /\ op[t] = Idle
  /\ global_lock => \A u \in Threads : op[u] = Idle

-----------------------------------------------------------------------------
(***************************************************************************)
(* Segments of a slab.                                                     *)
(***************************************************************************)
Seg(start, pages, key) == [start_page |-> start, num_pages |-> pages, key |-> key]

Slots == UNION {{<<s, i>> : i \in DOMAIN slabs[s]} : s \in DOMAIN slabs}
Before(x, y) == x[1] < y[1] \/ (x[1] = y[1] /\ x[2] < y[2])
First(S) == CHOOSE x \in S : \A y \in S : x = y \/ Before(x, y)
SlotOf(list, k) ==
  CHOOSE x \in UNION {{<<s, i>> : i \in DOMAIN list[s]} : s \in DOMAIN list} :
    list[x[1]][x[2]].key = k
InSlab(k) == \E x \in Slots : slabs[x[1]][x[2]].key = k

\* Segments i to j of a slab replaced by others.
Splice(segs, i, j, new) == SubSeq(segs, 1, i - 1) \o new \o SubSeq(segs, j + 1, Len(segs))

\* Mutant: only the segment before is merged.
MergesOnlyBefore(segs, i) ==
  LET before == i > 1 /\ segs[i - 1].key = FREE
      from == IF before THEN i - 1 ELSE i
  IN Splice(segs, from, i,
            <<Seg(segs[from].start_page,
                  segs[i].num_pages + (IF before THEN segs[i - 1].num_pages ELSE 0), FREE)>>)

\* removeSegment: segment i becomes free, merged with free neighbours.
removeSegment(segs, i) ==
  LET before == i > 1 /\ segs[i - 1].key = FREE
      after == i < Len(segs) /\ segs[i + 1].key = FREE
      from == IF before THEN i - 1 ELSE i
      to == IF after THEN i + 1 ELSE i
      pages == segs[i].num_pages + (IF before THEN segs[i - 1].num_pages ELSE 0)
                                 + (IF after THEN segs[i + 1].num_pages ELSE 0)
  IN Splice(segs, from, to, <<Seg(segs[from].start_page, pages, FREE)>>)

\* Free segments that follow one another merged, as freeing them one by one does.
Coalesced(segs) ==
  MapThenFoldSet(LAMBDA seg, done :
                   IF seg.key = FREE /\ done # <<>> /\ done[Len(done)].key = FREE
                   THEN [done EXCEPT ![Len(done)].num_pages = @ + seg.num_pages]
                   ELSE Append(done, seg),
                 <<>>, LAMBDA i : segs[i], Max, DOMAIN segs)

\* findFreeBufferInSlab: n pages of free segment i are used for chunk k.
UseFree(segs, i, n, k) ==
  LET rest == segs[i].num_pages - n
  IN Splice(segs, i, i,
            <<Seg(segs[i].start_page, n, k)>> \o
            (IF rest > 0 THEN <<Seg(segs[i].start_page + n, rest, FREE)>> ELSE <<>>))

\* evict: segments i to j give way to one of n pages, the rest of them is free.
UseEvicted(segs, i, j, n, k) ==
  LET pages == MapThenSumSet(LAMBDA m : segs[m].num_pages, i .. j)
      start == segs[i].start_page
      rest == pages - n
      merge == rest > 0 /\ j < Len(segs) /\ segs[j + 1].key = FREE
  IN Splice(segs, i, IF merge THEN j + 1 ELSE j,
            <<Seg(start, n, k)>> \o
            (IF rest = 0 THEN <<>>
             ELSE <<Seg(start + n, rest + (IF merge THEN segs[j + 1].num_pages ELSE 0), FREE)>>))

\* Free segments of at least n pages.
FreeSlots(n) == {x \in Slots : slabs[x[1]][x[2]].key = FREE /\ slabs[x[1]][x[2]].num_pages >= n}

Evictable(seg) == seg.key = FREE \/ buffers[seg.key].pins = 0

\* Runs <<slab, first, last>> that may be evicted for n pages, no longer than needed.
Runs(n) ==
  {r \in UNION {{<<s, i, j>> : i, j \in DOMAIN slabs[s]} : s \in DOMAIN slabs} :
     LET segs == slabs[r[1]]
         Pages(j) == MapThenSumSet(LAMBDA m : segs[m].num_pages, r[2] .. j)
     IN /\ r[2] <= r[3]
        /\ \A m \in r[2] .. r[3] : Evictable(segs[m])
        /\ Pages(r[3]) >= n
        /\ r[3] > r[2] => Pages(r[3] - 1) < n}

KeysOf(r) == {slabs[r[1]][m].key : m \in r[2] .. r[3]} \ {FREE}
Score(r) == Max({0} \cup {i \in DOMAIN touched : touched[i] \in KeysOf(r)})

\* The run whose last touched buffer was touched longest ago, the first of several.
IsBestRun(r, n) ==
  \A q \in Runs(n) :
    \/ Score(r) < Score(q)
    \/ Score(r) = Score(q) /\ ~Before(<<q[1], q[2]>>, <<r[1], r[2]>>)

Touch(order, k) == Append(SelectSeq(order, LAMBDA c : c # k), k)
Forget(order, K) == SelectSeq(order, LAMBDA c : c \notin K)
Without(f, K) == [c \in DOMAIN f \ K |-> f[c]]

-----------------------------------------------------------------------------
Init ==
  /\ global_lock \in GlobalLocks
  /\ slabs = <<>>
  /\ unsized = {}
  /\ chunk_index = {}
  /\ buffers = <<>>
  /\ touched = <<>>
  /\ num_pages_allocated = 0
  /\ current_max = MaxSlabPages
  /\ allocations_capped = FALSE
  /\ slab_mutex = Nobody
  /\ chunk_mutex = [k \in Keys |-> Nobody]
  /\ op = [t \in Threads |-> Idle]
  /\ held = [t \in Threads |-> {}]

\* clear and reinit.
emptyPool ==
  /\ slabs' = <<>> /\ unsized' = {} /\ chunk_index' = {} /\ buffers' = <<>> /\ touched' = <<>>
  /\ num_pages_allocated' = 0 /\ current_max' = MaxSlabPages /\ allocations_capped' = FALSE

\* LOG(FATAL): the server stops and starts again with an empty pool.
fatal ==
  /\ emptyPool
  /\ slab_mutex' = Nobody /\ chunk_mutex' = [k \in Keys |-> Nobody]
  /\ op' = [t \in Threads |-> Idle] /\ held' = [t \in Threads |-> {}]

\* The call of thread t returns and its locks are released.
return(t) ==
  /\ op' = [op EXCEPT ![t] = Idle]
  /\ chunk_mutex' = [k \in Keys |-> IF chunk_mutex[k] = t THEN Nobody ELSE chunk_mutex[k]]
  /\ slab_mutex' = IF slab_mutex = t THEN Nobody ELSE slab_mutex

goto(t, pc) == op' = [op EXCEPT ![t].pc = pc]

-----------------------------------------------------------------------------
(***************************************************************************)
(* getBuffer and fetchBuffer.  A buffer that is found is pinned before     *)
(* slab_mutex_ is released; for one that is not, a pinned placeholder      *)
(* without pages is made.  The mutex of the chunk is held to the end.      *)
(***************************************************************************)
\* Mutant: the buffer that is found is not pinned.
FindsUnpinned(b) == b

pin(b) == [b EXCEPT !.pins = @ + 1]

\* Mutant: a pin is given back twice.
UnpinsTwice(b) == [b EXCEPT !.pins = @ - 2]

unPin(b) == [b EXCEPT !.pins = @ - 1]

With(f, k, v) == [c \in DOMAIN f \cup {k} |-> IF c = k THEN v ELSE f[c]]

\* Mutant: pages are reserved even if the buffer has just enough.
ReservesAgain(b, n) == IF n >= b.pages THEN "reserve" ELSE IF n > b.size THEN "fetch" ELSE "done"

\* The next step of a call that needs n pages of a buffer that has some.
Steps(b, n) == IF n > b.pages THEN "reserve" ELSE IF n > b.size THEN "fetch" ELSE "done"

findBuffer(t, k, n, call) ==
  /\ k \in chunk_index /\ buffers[k].pins < MaxPins
  /\ buffers' = [buffers EXCEPT ![k] = pin(@)]
  /\ touched' = IF call = "getBuffer" /\ k \notin unsized THEN Touch(touched, k) ELSE touched
  /\ op' = [op EXCEPT ![t] = [pc |-> Steps(buffers[k], n), call |-> call, key |-> k,
                              pages |-> n, new |-> FALSE]]
  /\ UNCHANGED <<chunk_index, unsized>>

\* createBufferUnlocked up to the reservation of pages.
addBufferPlaceholder(t, k, n, call) ==
  /\ k \notin chunk_index
  /\ chunk_index' = chunk_index \cup {k}
  /\ unsized' = unsized \cup {k}
  /\ buffers' = With(buffers, k, [pins |-> 1, pages |-> 0, size |-> 0])
  /\ op' = [op EXCEPT ![t] = [pc |-> Steps([pages |-> 0, size |-> 0], n), call |-> call,
                              key |-> k, pages |-> n, new |-> TRUE]]
  /\ UNCHANGED touched

getBuffer(t, k, n, call) ==
  /\ getGlobalLockIfEnabled(t)
  /\ k \notin held[t]
  /\ chunk_mutex[k] = Nobody
  /\ slab_mutex = Nobody
  /\ chunk_mutex' = [chunk_mutex EXCEPT ![k] = t]
  /\ findBuffer(t, k, n, call) \/ addBufferPlaceholder(t, k, n, call)
  /\ UNCHANGED <<slabs, limits, slab_mutex, held>>

\* alloc: a buffer with a key of its own, which nothing is fetched into.
alloc(t, k, n) ==
  /\ getGlobalLockIfEnabled(t)
  /\ chunk_mutex' = [chunk_mutex EXCEPT ![k] = t]
  /\ addBufferPlaceholder(t, k, n, "alloc")
  /\ UNCHANGED <<slabs, limits, slab_mutex, held>>

-----------------------------------------------------------------------------
(***************************************************************************)
(* Buffer::reserve and BufferMgr::reserveBuffer.                           *)
(***************************************************************************)
\* The segment of key k, if any, is given up.
Released(list, k) ==
  IF \E s \in DOMAIN list : \E i \in DOMAIN list[s] : list[s][i].key = k
  THEN LET x == SlotOf(list, k)
       IN [list EXCEPT ![x[1]] = removeSegment(@, x[2])]
  ELSE list

\* reserveBuffer from the new segment on: it takes the place of the old one.
\* The new one is marked New until the old one is gone.
New == "new"
moveTo(t, list, order) ==
  LET k == op[t].key
      left == Released(list, k)
      x == SlotOf(left, New)
  IN /\ slabs' = [left EXCEPT ![x[1]][x[2]].key = k]
     /\ touched' = Touch(order, k)
     /\ unsized' = unsized \ {k}

AfterReserve(t) == IF op[t].call = "alloc" THEN "done" ELSE "fetch"

reserved(t) ==
  /\ goto(t, AfterReserve(t))
  /\ slab_mutex' = Nobody
  /\ UNCHANGED <<chunk_mutex, held>>

\* Whether the free segment after the one of k is enough to grow in place.
CanGrow(t) ==
  /\ op[t].key \notin unsized
  /\ LET x == SlotOf(slabs, op[t].key)
         segs == slabs[x[1]]
     IN /\ x[2] < Len(segs)
        /\ segs[x[2] + 1].key = FREE
        /\ segs[x[2]].num_pages + segs[x[2] + 1].num_pages >= op[t].pages

\* Mutant: the buffer does not learn how many pages it has.
ForgetsPages(b, n) == b

Grown(b, n) == [b EXCEPT !.pages = n]

\* The segment grows into the next one, of which a segment of no pages may be left.
growInPlace(t) ==
  LET k == op[t].key
      n == op[t].pages
      x == SlotOf(slabs, k)
      extra == n - slabs[x[1]][x[2]].num_pages
  IN /\ op[t].pc = "reserve" /\ slab_mutex = Nobody
     /\ CanGrow(t)
     /\ slabs' = [slabs EXCEPT ![x[1]][x[2]].num_pages = n,
                               ![x[1]][x[2] + 1].num_pages = @ - extra,
                               ![x[1]][x[2] + 1].start_page = @ + extra]
     /\ buffers' = [buffers EXCEPT ![k] = Grown(@, n)]
     /\ reserved(t)
     /\ UNCHANGED <<unsized, chunk_index, touched, limits>>

\* findFreeBuffer, the first free segment that is large enough.
findFreeBufferInSlab(t) ==
  LET n == op[t].pages
      x == First(FreeSlots(n))
  IN /\ op[t].pc = "reserve" /\ slab_mutex = Nobody
     /\ ~CanGrow(t)
     /\ n <= MaxSlabPages /\ FreeSlots(n) # {}
     /\ moveTo(t, [slabs EXCEPT ![x[1]] = UseFree(@, x[2], n, New)], touched)
     /\ buffers' = [buffers EXCEPT ![op[t].key] = Grown(@, n)]
     /\ reserved(t)
     /\ UNCHANGED <<chunk_index, limits>>

\* No segment is free: slab_mutex_ is kept for the attempts to add a slab.
noFreeBuffer(t) ==
  /\ op[t].pc = "reserve" /\ slab_mutex = Nobody
  /\ ~CanGrow(t)
  /\ op[t].pages <= MaxSlabPages /\ FreeSlots(op[t].pages) = {}
  /\ slab_mutex' = t
  /\ goto(t, "addSlab")
  /\ UNCHANGED <<pool, limits, chunk_mutex, held>>

-----------------------------------------------------------------------------
(***************************************************************************)
(* findFreeBuffer once no segment is free: add a slab, each attempt that   *)
(* the system refuses being a step, and failing that evict.                *)
(***************************************************************************)
SlabLimit ==
  LET left == MaxPoolPages - num_pages_allocated
  IN IF left < current_max THEN left ELSE current_max

MayAddSlab == ~allocations_capped /\ num_pages_allocated < MaxPoolPages

SlabSize(n) ==
  IF DefaultSlabPages < SlabLimit
  THEN IF DefaultSlabPages < n THEN n ELSE DefaultSlabPages
  ELSE SlabLimit

addSlab(t) ==
  LET n == op[t].pages
      size == SlabSize(n)
  IN /\ op[t].pc = "addSlab"
     /\ MayAddSlab /\ n <= SlabLimit
     /\ current_max' = SlabLimit
     /\ num_pages_allocated' = num_pages_allocated + size
     /\ moveTo(t, Append(slabs, UseFree(<<Seg(0, size, FREE)>>, 1, n, New)), touched)
     /\ buffers' = [buffers EXCEPT ![op[t].key] = Grown(@, n)]
     /\ reserved(t)
     /\ UNCHANGED <<chunk_index, allocations_capped>>

\* After a refusal the size of the request itself is tried once, if half is too little.
TriesRequest(n) == n > SlabLimit \div 2 /\ SlabLimit # n

slabRefused(t) ==
  LET n == op[t].pages
  IN /\ op[t].pc = "addSlab" /\ AllocFails
     /\ MayAddSlab /\ n <= SlabLimit
     /\ current_max' = IF TriesRequest(n) THEN n ELSE SlabLimit \div 2
     /\ allocations_capped' = (~TriesRequest(n) /\ SlabLimit \div 2 < MinSlabPages)
     /\ UNCHANGED <<pool, num_pages_allocated, slab_mutex, chunk_mutex, op, held>>

noSlab(t) ==
  /\ op[t].pc = "addSlab"
  /\ ~(MayAddSlab /\ op[t].pages <= SlabLimit)
  /\ current_max' = IF MayAddSlab THEN SlabLimit ELSE current_max
  /\ goto(t, "evict")
  /\ UNCHANGED <<pool, num_pages_allocated, allocations_capped, slab_mutex, chunk_mutex, held>>

\* Calls that looked up a chunk that is evicted are left with a stale segment.
Stale(K) ==
  [u \in Threads |-> IF op[u].pc \in {"delete", "remove"} /\ op[u].key \in K
                     THEN [op[u] EXCEPT !.live = FALSE] ELSE op[u]]

evict(t) ==
  /\ op[t].pc = "evict"
  /\ \E r \in Runs(op[t].pages) :
       LET n == op[t].pages
           gone == KeysOf(r)
           left == Without(buffers, gone)
       IN /\ IsBestRun(r, n)
          /\ moveTo(t, [slabs EXCEPT ![r[1]] = UseEvicted(@, r[2], r[3], n, New)],
                    Forget(touched, gone))
          /\ chunk_index' = chunk_index \ gone
          /\ buffers' = [left EXCEPT ![op[t].key] = Grown(@, n)]
          /\ op' = [Stale(gone) EXCEPT ![t].pc = AfterReserve(t)]
  /\ slab_mutex' = Nobody
  /\ UNCHANGED <<limits, chunk_mutex, held>>

\* deleteBufferUnlocked, in one step: nobody else can get at the buffer of k.
deleteBufferUnlocked(k) ==
  /\ chunk_index' = chunk_index \ {k}
  /\ unsized' = unsized \ {k}
  /\ slabs' = Released(slabs, k)
  /\ buffers' = Without(buffers, {k})
  /\ touched' = Forget(touched, {k})

\* OutOfMemory: a new buffer is deleted.  A buffer that was found keeps the
\* pin of this call; in fetchBuffer the server stops.
throws(t) ==
  \/ op[t].new /\ deleteBufferUnlocked(op[t].key) /\ return(t) /\ UNCHANGED <<limits, held>>
  \/ ~op[t].new /\ op[t].call = "getBuffer" /\ return(t) /\ UNCHANGED <<pool, limits, held>>
  \/ ~op[t].new /\ op[t].call = "fetchBuffer" /\ fatal

OutOfMemory(t) ==
  /\ \/ op[t].pc = "evict" /\ Runs(op[t].pages) = {}
     \/ /\ op[t].pc = "reserve" /\ slab_mutex = Nobody
        /\ ~CanGrow(t) /\ op[t].pages > MaxSlabPages
  /\ throws(t)

-----------------------------------------------------------------------------
(***************************************************************************)
(* The parent's fetchBuffer, and the end of a call.                        *)
(***************************************************************************)
fetch(t) ==
  /\ op[t].pc = "fetch"
  /\ buffers' = [buffers EXCEPT ![op[t].key].size = op[t].pages]
  /\ goto(t, "done")
  /\ UNCHANGED <<slabs, unsized, chunk_index, touched, limits, slab_mutex, chunk_mutex, held>>

\* ForeignStorageException: a new buffer is deleted, one that was found keeps the pin.
ForeignStorageException(t) ==
  /\ FetchFails
  /\ op[t].pc = "fetch" \/ (op[t].pc = "reserve" /\ ~op[t].new)
  /\ slab_mutex = Nobody
  /\ IF op[t].new THEN deleteBufferUnlocked(op[t].key) ELSE UNCHANGED pool
  /\ return(t)
  /\ UNCHANGED <<limits, held>>

\* getBuffer and alloc return a pinned buffer, fetchBuffer copies it and unpins it.
finish(t) ==
  LET k == op[t].key
  IN /\ op[t].pc = "done"
     /\ IF op[t].call = "fetchBuffer"
        THEN buffers' = [buffers EXCEPT ![k] = unPin(@)] /\ UNCHANGED held
        ELSE held' = [held EXCEPT ![t] = @ \cup {k}] /\ UNCHANGED buffers
     /\ return(t)
     /\ UNCHANGED <<slabs, unsized, chunk_index, touched, limits>>

\* The caller is done with a chunk.
release(t, k) ==
  /\ op[t] = Idle /\ k \in held[t]
  /\ buffers' = [buffers EXCEPT ![k] = unPin(@)]
  /\ held' = [held EXCEPT ![t] = @ \ {k}]
  /\ UNCHANGED <<slabs, unsized, chunk_index, touched, limits, slab_mutex, chunk_mutex, op>>

\* free, of a buffer that alloc made.
free(t, k) ==
  /\ getGlobalLockIfEnabled(t) /\ k \in held[t]
  /\ slab_mutex = Nobody
  /\ deleteBufferUnlocked(k)
  /\ held' = [held EXCEPT ![t] = @ \ {k}]
  /\ UNCHANGED <<limits, slab_mutex, chunk_mutex, op>>

-----------------------------------------------------------------------------
(***************************************************************************)
(* deleteBuffersWithPrefix, with the prefix of the table of all chunks:    *)
(* the keys are collected, then for each, under the mutex of the chunk but *)
(* not slab_mutex_, its pins are read, it is looked up again and erased    *)
(* from the index, and its segment is given up.                            *)
(***************************************************************************)
deleteBuffersWithPrefix(t) ==
  /\ global_lock \/ DeletesUnlocked
  /\ getGlobalLockIfEnabled(t)
  /\ slab_mutex = Nobody
  /\ chunk_index \cap Chunks # {}
  /\ op' = [op EXCEPT ![t] = [pc |-> "next", todo |-> chunk_index \cap Chunks]]
  /\ UNCHANGED <<pool, limits, slab_mutex, chunk_mutex, held>>

nextKey(t, k) == op' = [op EXCEPT ![t] = [pc |-> "next", todo |-> op[t].todo \ {k}]]

lookUp(t, k) ==
  /\ op[t].pc = "next" /\ k \in op[t].todo
  /\ chunk_mutex[k] = Nobody
  /\ IF k \in chunk_index
     THEN /\ op' = [op EXCEPT ![t] = [pc |-> "delete", key |-> k, todo |-> op[t].todo,
                                      live |-> TRUE]]
          /\ chunk_mutex' = [chunk_mutex EXCEPT ![k] = t]
     ELSE nextKey(t, k) /\ UNCHANGED chunk_mutex
  /\ UNCHANGED <<pool, limits, slab_mutex, held>>

\* The pins are read and, when there are none, the chunk is erased from the index.
eraseChunkSegment(t) ==
  LET k == op[t].key
  IN /\ op[t].pc = "delete" /\ op[t].live
     /\ IF buffers[k].pins = 0
        THEN /\ chunk_index' = chunk_index \ {k}
             /\ goto(t, "remove")
             /\ UNCHANGED chunk_mutex
        ELSE /\ nextKey(t, k)
             /\ chunk_mutex' = [chunk_mutex EXCEPT ![k] = Nobody]
             /\ UNCHANGED chunk_index
     /\ UNCHANGED <<slabs, unsized, buffers, touched, limits, slab_mutex, held>>

deleteSegment(t) ==
  LET k == op[t].key
  IN /\ op[t].pc = "remove" /\ op[t].live
     /\ slab_mutex = Nobody
     /\ deleteBufferUnlocked(k)
     /\ nextKey(t, k)
     /\ chunk_mutex' = [chunk_mutex EXCEPT ![k] = Nobody]
     /\ UNCHANGED <<limits, slab_mutex, held>>

endOfDelete(t) ==
  /\ op[t].pc = "next" /\ op[t].todo = {}
  /\ return(t)
  /\ UNCHANGED <<pool, limits, held>>

\* A segment that eviction has destroyed is read, or CHECK(buffer_it.has_value()) fails.
destroyed(t) ==
  /\ op[t].pc \in {"delete", "remove"} /\ ~op[t].live
  /\ fatal

\* clearSlabs waits for every call to end: buffers in slabs that are not pinned go,
\* and, if none is pinned, the slabs go too and every buffer without pages.
clearSlabs ==
  LET used == DOMAIN buffers \ unsized
      unpinned == {k \in used : buffers[k].pins < 1}
      Freed(segs) == [i \in DOMAIN segs |->
                        IF segs[i].key \in unpinned THEN [segs[i] EXCEPT !.key = FREE] ELSE segs[i]]
  IN /\ \A t \in Threads : op[t] = Idle
     /\ IF used = unpinned
        THEN emptyPool
        ELSE /\ slabs' = [s \in DOMAIN slabs |-> Coalesced(Freed(slabs[s]))]
             /\ chunk_index' = chunk_index \ unpinned
             /\ buffers' = Without(buffers, unpinned)
             /\ touched' = Forget(touched, unpinned)
             /\ UNCHANGED <<unsized, limits>>
     /\ UNCHANGED <<slab_mutex, chunk_mutex, op, held>>

-----------------------------------------------------------------------------
\* The steps of the call that thread t is in.
Step(t) ==
  \/ growInPlace(t) \/ findFreeBufferInSlab(t) \/ noFreeBuffer(t)
  \/ addSlab(t) \/ slabRefused(t) \/ noSlab(t) \/ evict(t) \/ OutOfMemory(t)
  \/ fetch(t) \/ ForeignStorageException(t) \/ finish(t)
  \/ \E k \in Keys : lookUp(t, k)
  \/ eraseChunkSegment(t) \/ deleteSegment(t) \/ endOfDelete(t) \/ destroyed(t)

Next ==
  /\ \/ \E t \in Threads :
          \/ Step(t)
          \/ \E k \in Chunks, n \in Requests, call \in {"getBuffer", "fetchBuffer"} :
               getBuffer(t, k, n, call)
          \/ \E k \in Temporaries, n \in Requests : alloc(t, k, n)
          \/ \E k \in Chunks : release(t, k)
          \/ \E k \in Temporaries : free(t, k)
          \/ deleteBuffersWithPrefix(t)
     \/ clearSlabs
  /\ UNCHANGED global_lock

Spec == Init /\ [][Next]_vars /\ \A t \in Threads : SF_vars(Step(t) /\ UNCHANGED global_lock)

-----------------------------------------------------------------------------
(***************************************************************************)
(* Properties.                                                             *)
(***************************************************************************)
\* The variables have the values their declarations describe.
TypeOK ==
  /\ \A s \in DOMAIN slabs : \A i \in DOMAIN slabs[s] :
       slabs[s][i] \in [start_page : 0 .. MaxSlabPages, num_pages : 0 .. MaxSlabPages,
                        key : Keys \cup {FREE}]
  /\ unsized \subseteq Keys /\ chunk_index \subseteq Keys
  /\ DOMAIN buffers \subseteq Keys
  /\ \A k \in DOMAIN buffers : buffers[k] \in [pins : 0 .. MaxPins, pages : Nat, size : Nat]
  /\ num_pages_allocated \in Nat /\ current_max \in 0 .. MaxSlabPages
  /\ allocations_capped \in BOOLEAN
  /\ slab_mutex \in Threads \cup {Nobody}
  /\ chunk_mutex \in [Keys -> Threads \cup {Nobody}]
  /\ held \in [Threads -> SUBSET Keys]

SlabPages(segs) == MapThenSumSet(LAMBDA i : segs[i].num_pages, DOMAIN segs)

\* Whatever is split, merged, evicted and freed, the segments of a slab follow one
\* another without gap or overlap, free ones are merged, and together the slabs have
\* the pages that were allocated, no more than the pool may have.
SegmentsTile ==
  /\ \A s \in DOMAIN slabs :
       LET segs == slabs[s]
       IN /\ segs[1].start_page = 0
          /\ \A i \in 2 .. Len(segs) :
               /\ segs[i].start_page = segs[i - 1].start_page + segs[i - 1].num_pages
               /\ ~(segs[i].key = FREE /\ segs[i - 1].key = FREE)
  /\ num_pages_allocated = MapThenSumSet(LAMBDA s : SlabPages(slabs[s]), DOMAIN slabs)
  /\ num_pages_allocated <= MaxPoolPages

\* Between calls, every buffer can be looked up and has one segment, with the pages
\* the buffer believes it has, enough for its data; nothing else is in the index.
IndexMatchesSegments ==
  (\A t \in Threads : op[t] = Idle) =>
    /\ chunk_index = DOMAIN buffers
    /\ \A k \in DOMAIN buffers :
         /\ buffers[k].size <= buffers[k].pages
         /\ IF k \in unsized THEN buffers[k].pages = 0 /\ ~InSlab(k)
            ELSE /\ Cardinality({x \in Slots : slabs[x[1]][x[2]].key = k}) = 1
                 /\ LET x == SlotOf(slabs, k) IN slabs[x[1]][x[2]].num_pages = buffers[k].pages
    /\ \A x \in Slots : slabs[x[1]][x[2]].key \in chunk_index \cup {FREE}

\* A buffer that a caller reads is there, and it has a pin for each of its callers:
\* neither eviction, nor a failed load, a delete or clearSlabs takes it away.
HeldIsPinned ==
  \A k \in Keys :
    LET users == {t \in Threads : k \in held[t]}
    IN users # {} => /\ k \in DOMAIN buffers /\ k \in chunk_index
                     /\ buffers[k].pins >= Cardinality(users)

\* A delete works on the segment it looked up, which no other call has evicted.
DeletesWhatItFound ==
  \A t \in Threads : op[t].pc \in {"delete", "remove"} => op[t].live

\* The place of the buffer of k: its slab and its first page.
PlaceOf(k) == LET x == SlotOf(slabs, k) IN <<x[1], slabs[x[1]][x[2]].start_page>>

\* Memory that a caller reads is moved only by a call that makes that buffer larger.
HeldMovesOnlyToGrow ==
  [][\A k \in Keys :
       (\E t \in Threads : k \in held[t] /\ k \in held'[t]) /\ InSlab(k) =>
         /\ InSlab(k)'
         /\ PlaceOf(k)' # PlaceOf(k) => buffers'[k].pages > buffers[k].pages]_vars

\* Every call returns or throws: the attempts to get a slab come to an end, and no
\* thread waits for another for ever.
CallsEnd == \A t \in Threads : op[t] # Idle ~> op[t] = Idle
=============================================================================
