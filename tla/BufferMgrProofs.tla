-------------------------- MODULE BufferMgrProofs ---------------------------
(***************************************************************************)
(* Proofs about BufferMgr for every number of threads and chunks, every    *)
(* size of the pool and of requests.                                       *)
(***************************************************************************)
EXTENDS BufferMgrUseProofs

\* The call that a thread begins.
LEMMA BeginShape ==
  ASSUME UseInv, NEW t \in Threads, op[t] = Idle, NEW r \in Calls, op' = [op EXCEPT ![t] = r],
         NEW k \in Keys, r.key = k, chunk_mutex' = [chunk_mutex EXCEPT ![k] = t]
  PROVE  /\ op' \in [Threads -> Ops] /\ op'[t] = r /\ InCall(t)' /\ ~InCall(t)
         /\ \A u \in Threads \ {t} : op'[u] = op[u]
         /\ chunk_mutex' \in [Keys -> Threads \cup {Nobody}] /\ chunk_mutex'[k] = t
         /\ \A c \in Keys \ {k} : chunk_mutex'[c] = chunk_mutex[c]
         /\ \A u \in Threads \ {t} : InCall(u)' = InCall(u)
<1>1. r \in Ops
  BY DEF Ops, Calls
<1>2. op' \in [Threads -> Ops] /\ op'[t] = r /\ \A u \in Threads \ {t} : op'[u] = op[u]
  BY <1>1 DEF UseInv, ShapeInv
<1>3. /\ chunk_mutex' \in [Keys -> Threads \cup {Nobody}] /\ chunk_mutex'[k] = t
      /\ \A c \in Keys \ {k} : chunk_mutex'[c] = chunk_mutex[c]
  BY DEF UseInv, ShapeInv
<1>4. InCall(t)' /\ ~InCall(t) /\ \A u \in Threads \ {t} : InCall(u)' = InCall(u)
  BY <1>2 DEF InCall, Calls, CallPcs, Idle
<1> QED BY <1>2, <1>3, <1>4

\* A buffer that is found is pinned for its new user, under its mutex.
LEMMA FindKeeps ==
  ASSUME UseInv, NEW t \in Threads, NEW k \in Chunks, NEW n \in Requests, 0 \notin Requests,
         NEW call \in {"getBuffer", "fetchBuffer"},
         op[t] = Idle, k \notin held[t], chunk_mutex[k] = Nobody,
         chunk_mutex' = [chunk_mutex EXCEPT ![k] = t], held' = held,
         k \in DOMAIN buffers, findBuffer(t, k, n, call)
  PROVE  UseInv'
<1> DEFINE r == [pc |-> Steps(buffers[k], n), call |-> call, key |-> k, pages |-> n, new |-> FALSE]
<1>1. /\ k \in Keys /\ n \in Nat /\ n > 0
      /\ buffers[k] \in [pins : Nat, pages : Nat, size : Nat]
  BY SlabAssumption DEF Keys, UseInv, ShapeInv
<1>2. /\ k \in chunk_index /\ chunk_index' = chunk_index /\ unsized' = unsized
      /\ buffers' = [buffers EXCEPT ![k] = pin(@)] /\ op' = [op EXCEPT ![t] = r]
  BY DEF findBuffer
<1>3. r \in Calls
  BY <1>1 DEF Calls, CallPcs, Steps
<1>4. r.key = k /\ r.new = FALSE /\ (r.pc \in {"fetch", "done"} => n <= buffers[k].pages)
      /\ r.pc \notin {"delete", "remove"}
  BY <1>1 DEF Steps
<1>5. /\ op' \in [Threads -> Ops] /\ op'[t] = r /\ InCall(t)' /\ ~InCall(t)
      /\ \A u \in Threads \ {t} : op'[u] = op[u]
      /\ chunk_mutex' \in [Keys -> Threads \cup {Nobody}] /\ chunk_mutex'[k] = t
      /\ \A c \in Keys \ {k} : chunk_mutex'[c] = chunk_mutex[c]
      /\ \A u \in Threads \ {t} : InCall(u)' = InCall(u)
  BY <1>1, <1>2, <1>3, <1>4, BeginShape, ZenonT(60)
<1>6. t \notin Users(k) /\ Users(k) \in SUBSET Threads
  BY <1>5 DEF Users
<1>7. Users(k)' = Users(k) \cup {t} /\ \A c \in Keys \ {k} : Users(c)' = Users(c)
  BY <1>4, <1>5 DEF Users
<1>8. Cardinality(Users(k)') = Cardinality(Users(k)) + 1 /\ Cardinality(Users(k)) \in Nat
      /\ (Users(k) = {} => Cardinality(Users(k)) = 0)
  BY <1>6, <1>7, UsersCount, FS_EmptySet
<1>9. /\ DOMAIN buffers' = DOMAIN buffers
      /\ buffers'[k] = [buffers[k] EXCEPT !.pins = @ + 1]
      /\ \A c \in DOMAIN buffers \ {k} : buffers'[c] = buffers[c]
  BY <1>2 DEF pin
<1>10. buffers'[k].pins = buffers[k].pins + 1
  BY <1>1, <1>9
<1>11. \A c \in DOMAIN buffers : /\ buffers'[c] \in [pins : Nat, pages : Nat, size : Nat]
                                 /\ buffers'[c].pages = buffers[c].pages
  BY <1>1, <1>9 DEF UseInv, ShapeInv
<1>12. PinInv'
  <2>1. buffers[k].pins >= Cardinality(Users(k))
    BY <1>1, <1>8 DEF UseInv, PinInv
  <2>2. buffers'[k].pins >= Cardinality(Users(k)')
    BY <2>1, <1>1, <1>8, <1>10
  <2>3. \A c \in Keys \ {k} : Users(c)' # {} =>
          /\ c \in DOMAIN buffers' /\ c \in chunk_index'
          /\ buffers'[c].pins >= Cardinality(Users(c)')
    BY <1>2, <1>7, <1>9, SMTT(60) DEF UseInv, PinInv
  <2> QED BY <2>2, <2>3, <1>1, <1>2, <1>9 DEF PinInv
<1>13. ShapeInv'
  BY <1>5, <1>9, <1>11, SMTT(60) DEF UseInv, ShapeInv
<1>14. r.pc \in {"fetch", "done"} => k \notin unsized
  BY <1>1, <1>4 DEF UseInv, SizedInv
<1>15. SizedInv'
  <2>1. \A u \in Threads : op'[u].pc \in {"fetch", "done"} => op'[u].key \notin unsized'
    BY <1>2, <1>4, <1>5, <1>14 DEF UseInv, SizedInv
  <2> QED BY <2>1, <1>2, <1>9, <1>11 DEF UseInv, SizedInv
<1>16. \A u \in Threads \ {t} : InCall(u) \/ op[u].pc \in {"delete", "remove"} => op[u].key # k
  BY CallerAssumption DEF UseInv, OwnerInv, Nobody
<1>17. k \notin Temporaries
  BY CallerAssumption
<1> QED BY <1>1, <1>4, <1>5, <1>12, <1>13, <1>15, <1>16, <1>17, OwnStep

\* A placeholder is pinned for the thread that makes it, and has no other user.
LEMMA PlaceholderKeeps ==
  ASSUME UseInv, NEW t \in Threads, NEW k \in Keys, NEW n \in Requests, 0 \notin Requests,
         NEW call \in {"getBuffer", "fetchBuffer", "alloc"},
         op[t] = Idle, chunk_mutex' = [chunk_mutex EXCEPT ![k] = t], held' = held,
         \A u \in Threads \ {t} : op[u].pc \in {"delete", "remove"} => op[u].key # k,
         addBufferPlaceholder(t, k, n, call)
  PROVE  UseInv'
<1> DEFINE r == [pc |-> "reserve", call |-> call, key |-> k, pages |-> n, new |-> TRUE]
           b == [pins |-> 1, pages |-> 0, size |-> 0]
<1>1. n \in Nat /\ n > 0 /\ Steps([pages |-> 0, size |-> 0], n) = "reserve"
  BY SlabAssumption DEF Steps
<1>2. /\ k \notin chunk_index /\ chunk_index' = chunk_index \cup {k} /\ unsized' = unsized \cup {k}
      /\ buffers' = [c \in DOMAIN buffers \cup {k} |-> IF c = k THEN b ELSE buffers[c]]
      /\ op' = [op EXCEPT ![t] = r]
  BY <1>1, ZenonT(60) DEF addBufferPlaceholder, With
<1>3. r \in Calls
  BY DEF Calls, CallPcs
<1>4. r.key = k /\ r.pc = "reserve"
  OBVIOUS
<1>5. /\ op' \in [Threads -> Ops] /\ op'[t] = r /\ InCall(t)' /\ ~InCall(t)
      /\ \A u \in Threads \ {t} : op'[u] = op[u]
      /\ chunk_mutex' \in [Keys -> Threads \cup {Nobody}] /\ chunk_mutex'[k] = t
      /\ \A c \in Keys \ {k} : chunk_mutex'[c] = chunk_mutex[c]
      /\ \A u \in Threads \ {t} : InCall(u)' = InCall(u)
  BY <1>2, <1>3, <1>4, BeginShape, ZenonT(60)
<1>6. Users(k) = {}
  BY <1>2 DEF UseInv, PinInv
<1>7. Users(k)' = {t} /\ \A c \in Keys \ {k} : Users(c)' = Users(c)
  BY <1>4, <1>5, <1>6, SMTT(60) DEF Users
<1>8. Cardinality(Users(k)') = 1
  BY <1>7, FS_Singleton, ZenonT(60)
<1>9. /\ DOMAIN buffers' = DOMAIN buffers \cup {k} /\ buffers'[k] = b
      /\ \A c \in DOMAIN buffers \ {k} : buffers'[c] = buffers[c]
  BY <1>2
<1>10. PinInv'
  <2>1. buffers'[k].pins >= Cardinality(Users(k)')
    BY <1>8, <1>9
  <2>2. \A c \in Keys \ {k} : Users(c)' # {} =>
          /\ c \in DOMAIN buffers' /\ c \in chunk_index'
          /\ buffers'[c].pins >= Cardinality(Users(c)')
    BY <1>2, <1>7, <1>9, SMTT(60) DEF UseInv, PinInv
  <2> QED BY <2>1, <2>2, <1>2, <1>9, ZenonT(60) DEF PinInv
<1>11. \A c \in DOMAIN buffers' : buffers'[c] \in [pins : Nat, pages : Nat, size : Nat]
  BY <1>9 DEF UseInv, ShapeInv
<1>12. ShapeInv'
  BY <1>5, <1>11 DEF UseInv, ShapeInv
<1>13. SizedInv'
  <2>1. \A c \in unsized' \cap DOMAIN buffers' : buffers'[c].pages = 0
    BY <1>2, <1>9 DEF UseInv, SizedInv
  <2>2. \A u \in Threads : k \notin held[u]
    BY <1>6 DEF Users
  <2>3. \A u \in Threads : held'[u] \cap unsized' = {}
    BY <2>2, <1>2 DEF UseInv, SizedInv
  <2>4. \A u \in Threads \ {t} : InCall(u) => op[u].key # k
    BY <1>6 DEF Users
  <2>5. \A u \in Threads : op'[u].pc \in {"fetch", "done"} => op'[u].key \notin unsized'
    BY <2>4, <1>2, <1>4, <1>5 DEF UseInv, SizedInv, InCall, CallPcs
  <2> QED BY <2>1, <2>3, <2>5, SMTT(60) DEF SizedInv
<1>14. \A u \in Threads \ {t} : InCall(u) \/ op[u].pc \in {"delete", "remove"} => op[u].key # k
  BY <1>6 DEF Users
<1>15. k \notin held'[t] /\ (k \in Temporaries => \A u, v \in Users(k)' : u = v)
  BY <1>6, <1>7, SMTT(60) DEF Users
<1> QED BY <1>4, <1>5, <1>7, <1>10, <1>12, <1>13, <1>14, <1>15, OwnStep

\* getBuffer and fetchBuffer begin.
LEMMA GetBufferKeeps ==
  ASSUME UseInv, NEW t \in Threads, NEW k \in Chunks, NEW n \in Requests, 0 \notin Requests,
         NEW call \in {"getBuffer", "fetchBuffer"}, getBuffer(t, k, n, call),
         chunk_index \subseteq DOMAIN buffers
  PROVE  UseInv'
<1>1. /\ op[t] = Idle /\ k \notin held[t] /\ chunk_mutex[k] = Nobody /\ held' = held
      /\ chunk_mutex' = [chunk_mutex EXCEPT ![k] = t]
  BY DEF getBuffer, getGlobalLockIfEnabled
<1>2. CASE findBuffer(t, k, n, call)
  BY <1>1, <1>2, FindKeeps, ZenonT(60) DEF findBuffer
<1>3. CASE addBufferPlaceholder(t, k, n, call)
  <2>1. \A u \in Threads \ {t} : op[u].pc \in {"delete", "remove"} => op[u].key # k
    BY <1>1, CallerAssumption DEF UseInv, OwnerInv, Nobody
  <2>2. k \in Keys
    BY DEF Keys
  <2> QED BY <1>1, <1>3, <2>1, <2>2, PlaceholderKeeps, ZenonT(60)
<1> QED BY <1>2, <1>3 DEF getBuffer

\* alloc begins.
LEMMA AllocKeeps ==
  ASSUME UseInv, NEW t \in Threads, NEW k \in Temporaries, NEW n \in Requests, 0 \notin Requests,
         alloc(t, k, n)
  PROVE  UseInv'
<1>1. \A u \in Threads : op[u].pc \in {"delete", "remove"} => op[u].key \in Chunks
  <2> SUFFICES ASSUME NEW u \in Threads, op[u].pc \in {"delete", "remove"}
               PROVE  op[u].key \in Chunks
    OBVIOUS
  <2>1. op[u] \in Ops
    BY DEF UseInv, ShapeInv
  <2> QED BY <2>1 DEF Ops, CallPcs, Idle
<1>2. \A u \in Threads \ {t} : op[u].pc \in {"delete", "remove"} => op[u].key # k
  BY <1>1, CallerAssumption
<1>3. /\ op[t] = Idle /\ held' = held /\ k \in Keys
      /\ chunk_mutex' = [chunk_mutex EXCEPT ![k] = t] /\ addBufferPlaceholder(t, k, n, "alloc")
  BY DEF alloc, getGlobalLockIfEnabled, Keys
<1> QED BY <1>2, <1>3, PlaceholderKeeps, ZenonT(60)

\* A thread that deletes goes to its next key, or begins or ends, with its pins as they are.
LEMMA NextShape ==
  ASSUME UseInv, NEW t \in Threads, ~InCall(t), NEW S \in SUBSET Chunks,
         op' = [op EXCEPT ![t] = [pc |-> "next", todo |-> S]]
  PROVE  /\ op' \in [Threads -> Ops] /\ op'[t].pc = "next" /\ ~InCall(t)'
         /\ \A u \in Threads \ {t} : op'[u] = op[u]
         /\ held' = held => \A c : Users(c)' = Users(c)
<1>1. /\ op' \in [Threads -> Ops] /\ op'[t] = [pc |-> "next", todo |-> S]
      /\ \A u \in Threads \ {t} : op'[u] = op[u]
  BY DEF UseInv, ShapeInv, Ops
<1>2. op'[t].pc = "next" /\ ~InCall(t)' /\ \A u \in Threads \ {t} : InCall(u)' = InCall(u)
  BY <1>1 DEF InCall, CallPcs
<1>3. held' = held => \A c : Users(c)' = Users(c)
  BY <1>1, <1>2 DEF Users
<1> QED BY <1>1, <1>2, <1>3

\* What is known of a thread that deletes.
LEMMA DeleteFacts ==
  ASSUME UseInv, NEW t \in Threads, op[t].pc \in {"next", "delete", "remove"}
  PROVE  /\ ~InCall(t) /\ op[t].todo \in SUBSET Chunks
         /\ op[t].pc \in {"delete", "remove"} =>
              op[t] \in [pc : {"delete", "remove"}, key : Chunks, todo : SUBSET Chunks, live : BOOLEAN]
<1>1. op[t] \in Ops
  BY DEF UseInv, ShapeInv
<1> QED BY <1>1 DEF Ops, InCall, CallPcs, Idle

\* deleteBuffersWithPrefix begins.
LEMMA DeleteBeginKeeps ==
  ASSUME UseInv, NEW t \in Threads, deleteBuffersWithPrefix(t)
  PROVE  UseInv'
<1>1. /\ op[t] = Idle /\ held' = held /\ chunk_mutex' = chunk_mutex /\ buffers' = buffers
      /\ chunk_index' = chunk_index /\ unsized' = unsized
      /\ op' = [op EXCEPT ![t] = [pc |-> "next", todo |-> chunk_index \cap Chunks]]
  BY DEF deleteBuffersWithPrefix, getGlobalLockIfEnabled, pool
<1>2. ~InCall(t) /\ chunk_index \cap Chunks \in SUBSET Chunks
  BY <1>1 DEF InCall, CallPcs, Idle
<1>3. /\ op' \in [Threads -> Ops] /\ op'[t].pc = "next" /\ ~InCall(t)'
      /\ \A u \in Threads \ {t} : op'[u] = op[u]
      /\ \A c : Users(c)' = Users(c)
  BY <1>1, <1>2, NextShape, ZenonT(60)
<1>4. ShapeInv' /\ PinInv' /\ SizedInv'
  BY <1>1, <1>3 DEF UseInv, ShapeInv, PinInv, SizedInv
<1> QED BY <1>1, <1>3, <1>4, Leaves, SMTT(60)

\* deleteBuffersWithPrefix ends.
LEMMA DeleteEndKeeps ==
  ASSUME UseInv, NEW t \in Threads, endOfDelete(t)
  PROVE  UseInv'
<1>1. /\ op[t].pc = "next" /\ held' = held /\ buffers' = buffers
      /\ chunk_index' = chunk_index /\ unsized' = unsized
  BY DEF endOfDelete, pool
<1>2. /\ op' \in [Threads -> Ops] /\ ~InCall(t)' /\ op'[t].pc = "idle"
      /\ \A u \in Threads \ {t} : op'[u] = op[u]
      /\ chunk_mutex' \in [Keys -> Threads \cup {Nobody}]
      /\ \A u \in Threads \ {t} : \A c \in Keys : chunk_mutex[c] = u => chunk_mutex'[c] = u
  BY ReturnShape DEF endOfDelete
<1>3. ~InCall(t)
  BY <1>1 DEF InCall, CallPcs
<1>4. \A u \in Threads : InCall(u)' = InCall(u)
  BY <1>2, <1>3 DEF InCall
<1>5. \A c : Users(c)' = Users(c)
  BY <1>1, <1>2, <1>3, <1>4 DEF Users
<1>6. ShapeInv' /\ PinInv' /\ SizedInv'
  BY <1>1, <1>2, <1>5 DEF UseInv, ShapeInv, PinInv, SizedInv
<1> QED BY <1>1, <1>2, <1>6, Leaves

\* The next key is looked up, under its mutex if it is still there.
LEMMA LookUpKeeps ==
  ASSUME UseInv, NEW t \in Threads, NEW k \in Keys, lookUp(t, k)
  PROVE  UseInv'
<1>1. /\ op[t].pc = "next" /\ k \in op[t].todo /\ chunk_mutex[k] = Nobody
      /\ held' = held /\ buffers' = buffers /\ chunk_index' = chunk_index /\ unsized' = unsized
  BY DEF lookUp, pool
<1>2. ~InCall(t) /\ op[t].todo \in SUBSET Chunks
  BY <1>1, DeleteFacts, SMTT(60)
<1>3. CASE k \in chunk_index
  <2> DEFINE r == [pc |-> "delete", key |-> k, todo |-> op[t].todo, live |-> TRUE]
  <2>1. op' = [op EXCEPT ![t] = r] /\ chunk_mutex' = [chunk_mutex EXCEPT ![k] = t]
    BY <1>3 DEF lookUp
  <2>2. r \in Ops
    BY <1>1, <1>2, SMTT(60) DEF Ops
  <2>3. /\ op' \in [Threads -> Ops] /\ op'[t] = r /\ op'[t].pc = "delete" /\ op'[t].key = k
        /\ \A u \in Threads \ {t} : op'[u] = op[u]
        /\ chunk_mutex' \in [Keys -> Threads \cup {Nobody}] /\ chunk_mutex'[k] = t
        /\ \A c \in Keys \ {k} : chunk_mutex'[c] = chunk_mutex[c]
    BY <2>1, <2>2, SMTT(60) DEF UseInv, ShapeInv
  <2>4. ~InCall(t)' /\ \A u \in Threads \ {t} : InCall(u)' = InCall(u)
    BY <2>3 DEF InCall, CallPcs
  <2>5. \A c : Users(c)' = Users(c)
    BY <2>3, <2>4, <1>1, <1>2 DEF Users
  <2>6. ShapeInv' /\ PinInv' /\ SizedInv'
    BY <2>3, <2>5, <1>1 DEF UseInv, ShapeInv, PinInv, SizedInv
  <2>7. \A u \in Threads \ {t} : InCall(u) \/ op[u].pc \in {"delete", "remove"} => op[u].key # k
    BY <1>1, CallerAssumption, SMTT(60) DEF UseInv, OwnerInv, Nobody
  <2>8. k \notin Temporaries
    BY <1>1, <1>2, CallerAssumption
  <2> QED BY <2>3, <2>4, <2>6, <2>7, <2>8, <1>1, <1>2, OwnStep
<1>4. CASE k \notin chunk_index
  <2>1. op' = [op EXCEPT ![t] = [pc |-> "next", todo |-> op[t].todo \ {k}]]
        /\ chunk_mutex' = chunk_mutex
    BY <1>4 DEF lookUp, nextKey
  <2>2. op[t].todo \ {k} \in SUBSET Chunks
    BY <1>2
  <2>3. /\ op' \in [Threads -> Ops] /\ op'[t].pc = "next" /\ ~InCall(t)'
        /\ \A u \in Threads \ {t} : op'[u] = op[u]
        /\ \A c : Users(c)' = Users(c)
    BY <2>1, <2>2, <1>1, <1>2, NextShape, ZenonT(60)
  <2>4. ShapeInv' /\ PinInv' /\ SizedInv'
    BY <2>1, <2>3, <1>1 DEF UseInv, ShapeInv, PinInv, SizedInv
  <2> QED BY <2>1, <2>3, <2>4, <1>1, Leaves
<1> QED BY <1>3, <1>4

\* The pins are read: a chunk without pins leaves the index, one with pins is passed over.
LEMMA EraseKeeps ==
  ASSUME UseInv, NEW t \in Threads, eraseChunkSegment(t)
  PROVE  UseInv'
<1>1. /\ op[t].pc = "delete"
      /\ held' = held /\ buffers' = buffers /\ unsized' = unsized
  BY DEF eraseChunkSegment
<1>2. /\ ~InCall(t) /\ op[t].todo \in SUBSET Chunks /\ op[t].key \in Chunks
      /\ op[t] \in [pc : {"delete", "remove"}, key : Chunks, todo : SUBSET Chunks, live : BOOLEAN]
  BY <1>1, DeleteFacts, SMTT(60)
<1> SUFFICES ASSUME NEW k \in Chunks, k = op[t].key PROVE UseInv'
  BY <1>2, SMTT(60)
<1>3. k \in Keys /\ k \notin Temporaries /\ chunk_mutex[k] = t
  BY <1>1, CallerAssumption, SMTT(60) DEF Keys, UseInv, OwnerInv
<1>4. \A u \in Threads \ {t} : InCall(u) \/ op[u].pc \in {"delete", "remove"} => op[u].key # k
  BY <1>3 DEF UseInv, OwnerInv
<1>5. CASE buffers[k].pins = 0
  <2>1. chunk_index' = chunk_index \ {k} /\ goto(t, "remove") /\ chunk_mutex' = chunk_mutex
    BY <1>5 DEF eraseChunkSegment
  <2>2. Users(k) = {}
    <3>1. CASE k \in DOMAIN buffers
      BY <3>1, <1>3, <1>5, NoPinNoUser, SMTT(60)
    <3>2. CASE k \notin DOMAIN buffers
      BY <3>2, <1>3 DEF UseInv, PinInv
    <3> QED BY <3>1, <3>2, SMTT(60)
  <2>3. op'[t] = [op[t] EXCEPT !.pc = "remove"] /\ \A u \in Threads \ {t} : op'[u] = op[u]
    BY <2>1 DEF goto, UseInv, ShapeInv
  <2>4. op'[t] \in Ops /\ op'[t].pc = "remove" /\ op'[t].key = k
    BY <2>3, <1>2 DEF Ops
  <2>5. op' \in [Threads -> Ops]
    BY <2>1, <2>3, <2>4 DEF goto, UseInv, ShapeInv
  <2>6. ~InCall(t)' /\ \A u \in Threads \ {t} : InCall(u)' = InCall(u)
    BY <2>3, <2>4 DEF InCall, CallPcs
  <2>7. \A c : Users(c)' = Users(c)
    BY <2>3, <2>6, <1>1, <1>2 DEF Users
  <2>8. PinInv'
    BY <2>1, <2>2, <2>7, <1>1, SMTT(60) DEF UseInv, PinInv
  <2>9. ShapeInv'
    BY <2>1, <2>5, <1>1 DEF UseInv, ShapeInv
  <2>10. SizedInv'
    BY <2>3, <2>4, <1>1, ZenonT(60) DEF UseInv, SizedInv
  <2> QED BY <2>1, <2>2, <2>3, <2>4, <2>6, <2>7, <2>8, <2>9, <2>10, <1>1, <1>2, <1>3, <1>4, OwnStep
<1>6. CASE buffers[k].pins # 0
  <2>1. /\ op' = [op EXCEPT ![t] = [pc |-> "next", todo |-> op[t].todo \ {k}]]
        /\ chunk_mutex' = [chunk_mutex EXCEPT ![k] = Nobody] /\ chunk_index' = chunk_index
    BY <1>6 DEF eraseChunkSegment, nextKey
  <2>2. op[t].todo \ {k} \in SUBSET Chunks
    BY <1>2
  <2>3. /\ op' \in [Threads -> Ops] /\ op'[t].pc = "next" /\ ~InCall(t)'
        /\ \A u \in Threads \ {t} : op'[u] = op[u]
        /\ \A c : Users(c)' = Users(c)
    BY <2>1, <2>2, <1>1, <1>2, NextShape, ZenonT(60)
  <2>4. /\ chunk_mutex' \in [Keys -> Threads \cup {Nobody}]
        /\ \A u \in Threads \ {t} : \A c \in Keys : chunk_mutex[c] = u => chunk_mutex'[c] = u
    BY <2>1, <1>3 DEF UseInv, ShapeInv
  <2>5. PinInv'
    BY <2>1, <2>3, <1>1 DEF UseInv, PinInv
  <2>6. ShapeInv'
    BY <2>3, <2>4, <1>1 DEF UseInv, ShapeInv
  <2>7. SizedInv'
    BY <2>3, <1>1, SMTT(60) DEF UseInv, SizedInv
  <2> QED BY <2>3, <2>4, <2>5, <2>6, <2>7, <1>1, Leaves
<1> QED BY <1>5, <1>6, SMTT(60)

\* The segment of a chunk that is out of the index and has no user is given up.
LEMMA RemoveKeeps ==
  ASSUME UseInv, NEW t \in Threads, deleteSegment(t)
  PROVE  UseInv'
<1>1. op[t].pc = "remove" /\ held' = held
  BY DEF deleteSegment
<1>2. ~InCall(t) /\ op[t].todo \in SUBSET Chunks /\ op[t].key \in Chunks
  BY <1>1, DeleteFacts, SMTT(60)
<1> SUFFICES ASSUME NEW k \in Chunks, k = op[t].key PROVE UseInv'
  BY <1>2, SMTT(60)
<1>3. k \in Keys /\ chunk_mutex[k] = t /\ Users(k) = {}
  BY <1>1, SMTT(60) DEF Keys, UseInv, OwnerInv
<1>4. /\ chunk_index' = chunk_index \ {k} /\ unsized' = unsized \ {k}
      /\ buffers' = [c \in DOMAIN buffers \ {k} |-> buffers[c]]
      /\ op' = [op EXCEPT ![t] = [pc |-> "next", todo |-> op[t].todo \ {k}]]
      /\ chunk_mutex' = [chunk_mutex EXCEPT ![k] = Nobody]
  BY DEF deleteSegment, deleteBufferUnlocked, Without, nextKey
<1>5. op[t].todo \ {k} \in SUBSET Chunks
  BY <1>2, SMTT(60)
<1>6. /\ op' \in [Threads -> Ops] /\ op'[t].pc = "next" /\ ~InCall(t)'
      /\ \A u \in Threads \ {t} : op'[u] = op[u]
      /\ \A c : Users(c)' = Users(c)
  BY <1>1, <1>2, <1>4, <1>5, NextShape, ZenonT(60)
<1>7. /\ chunk_mutex' \in [Keys -> Threads \cup {Nobody}]
      /\ \A u \in Threads \ {t} : \A c \in Keys : chunk_mutex[c] = u => chunk_mutex'[c] = u
  BY <1>3, <1>4, SMTT(60) DEF UseInv, ShapeInv
<1>8. \A c \in DOMAIN buffers' : c \in DOMAIN buffers \ {k} /\ buffers'[c] = buffers[c]
  BY <1>4, SMTT(60)
<1>9. PinInv'
  BY <1>3, <1>4, <1>6 DEF UseInv, PinInv
<1>10. ShapeInv'
  BY <1>1, <1>6, <1>7, <1>8 DEF UseInv, ShapeInv
<1>11. SizedInv'
  BY <1>1, <1>4, <1>6, <1>8, ZenonT(60) DEF UseInv, SizedInv
<1> QED BY <1>1, <1>6, <1>7, <1>9, <1>10, <1>11, Leaves

\* What can be looked up has a buffer.
IndexInv == chunk_index \subseteq DOMAIN buffers

\* No step leaves an entry of the index without its buffer.
LEMMA IndexInvNext == IndexInv /\ [Next]_vars => IndexInv'
<1> SUFFICES ASSUME IndexInv, [Next]_vars PROVE IndexInv'
  OBVIOUS
<1>1. CASE UNCHANGED vars
  BY <1>1 DEF IndexInv, vars
<1>2. ASSUME NEW t \in Threads, evict(t) PROVE IndexInv'
  BY <1>2, SMTT(60) DEF IndexInv, evict, Without
<1>3. ASSUME NEW t \in Threads,
             growInPlace(t) \/ findFreeBufferInSlab(t) \/ addSlab(t) \/ fetch(t) \/ finish(t)
      PROVE  IndexInv'
  BY <1>3, ZenonT(60) DEF IndexInv, growInPlace, findFreeBufferInSlab, addSlab, fetch, finish
<1>4. ASSUME NEW t \in Threads, noFreeBuffer(t) \/ slabRefused(t) \/ noSlab(t) PROVE IndexInv'
  BY <1>4 DEF IndexInv, noFreeBuffer, slabRefused, noSlab, pool
<1>5. ASSUME NEW k, deleteBufferUnlocked(k) PROVE IndexInv'
  BY <1>5 DEF IndexInv, deleteBufferUnlocked, Without
<1>6. ASSUME emptyPool PROVE IndexInv'
  BY <1>6 DEF IndexInv, emptyPool
<1>7. ASSUME NEW t \in Threads, OutOfMemory(t) \/ ForeignStorageException(t) \/ destroyed(t)
      PROVE  IndexInv'
  BY <1>5, <1>6, <1>7 DEF IndexInv, OutOfMemory, throws, ForeignStorageException, destroyed, fatal, pool
<1>8. ASSUME NEW t \in Threads, NEW k \in Keys, lookUp(t, k) \/ release(t, k) \/ free(t, k)
      PROVE  IndexInv'
  BY <1>5, <1>8 DEF IndexInv, lookUp, release, free, pool
<1>9. ASSUME NEW t \in Threads,
             eraseChunkSegment(t) \/ deleteSegment(t) \/ endOfDelete(t) \/ deleteBuffersWithPrefix(t)
      PROVE  IndexInv'
  BY <1>5, <1>9 DEF IndexInv, eraseChunkSegment, deleteSegment, endOfDelete, deleteBuffersWithPrefix, pool
<1>10. ASSUME NEW t \in Threads, NEW k \in Keys, NEW n, NEW call,
              getBuffer(t, k, n, call) \/ alloc(t, k, n)
       PROVE  IndexInv'
  BY <1>10 DEF IndexInv, getBuffer, alloc, findBuffer, addBufferPlaceholder, With
<1>11. CASE clearSlabs
  BY <1>6, <1>11 DEF IndexInv, clearSlabs, Without
<1> QED
  BY <1>1, <1>2, <1>3, <1>4, <1>7, <1>8, <1>9, <1>10, <1>11 DEF Next, Step, Keys

\* Every step keeps every user pinned, if every request is for some data.
LEMMA UseInvNext ==
  ASSUME 0 \notin Requests, UseInv, IndexInv, [Next]_vars
  PROVE  UseInv'
<1>1. CASE UNCHANGED vars
  <2>1. /\ op' = op /\ held' = held /\ chunk_mutex' = chunk_mutex /\ buffers' = buffers
        /\ chunk_index' = chunk_index /\ unsized' = unsized
    BY <1>1 DEF vars
  <2>2. \A c : Users(c)' = Users(c)
    BY <2>1 DEF Users, InCall
  <2>3. ShapeInv' /\ PinInv' /\ SizedInv'
    BY <2>1, <2>2 DEF UseInv, ShapeInv, PinInv, SizedInv
  <2> QED BY <2>1, <2>3, Leaves
<1>2. ASSUME NEW t \in Threads, Step(t) PROVE UseInv'
  <2>1. ASSUME NEW k \in Keys, lookUp(t, k) PROVE UseInv'
    BY <2>1, LookUpKeeps
  <2>2. CASE destroyed(t)
    BY <2>2, FatalKeeps DEF destroyed
  <2> QED
    BY <1>2, <2>1, <2>2, ReserveKeeps, StepKeeps, EvictKeeps, FailKeeps, FinishKeeps, EraseKeeps,
       RemoveKeeps, DeleteEndKeeps DEF Step
<1>3. ASSUME NEW t \in Threads, NEW k \in Chunks, NEW n \in Requests,
             NEW call \in {"getBuffer", "fetchBuffer"}, getBuffer(t, k, n, call)
      PROVE  UseInv'
  BY <1>3, GetBufferKeeps DEF IndexInv
<1>4. ASSUME NEW t \in Threads, NEW k \in Temporaries, NEW n \in Requests, alloc(t, k, n)
      PROVE  UseInv'
  BY <1>4, AllocKeeps
<1>5. ASSUME NEW t \in Threads, NEW k \in Chunks, release(t, k) PROVE UseInv'
  BY <1>5, ReleaseKeeps
<1>6. ASSUME NEW t \in Threads, NEW k \in Temporaries, free(t, k) PROVE UseInv'
  BY <1>6, FreeKeeps
<1>7. ASSUME NEW t \in Threads, deleteBuffersWithPrefix(t) PROVE UseInv'
  BY <1>7, DeleteBeginKeeps
<1>8. CASE clearSlabs
  BY <1>8, ClearKeeps
<1> QED BY <1>1, <1>2, <1>3, <1>4, <1>5, <1>6, <1>7, <1>8 DEF Next

\* Who reads a buffer is among its users.
LEMMA UseInvHeld == UseInv => HeldIsPinned
<1> SUFFICES ASSUME UseInv, NEW k \in Keys, {t \in Threads : k \in held[t]} # {}
             PROVE  /\ k \in DOMAIN buffers /\ k \in chunk_index
                    /\ buffers[k].pins >= Cardinality({t \in Threads : k \in held[t]})
  BY DEF HeldIsPinned
<1> DEFINE users == {t \in Threads : k \in held[t]}
<1>1. users \in SUBSET Users(k) /\ users \in SUBSET Threads /\ Users(k) \in SUBSET Threads
  BY DEF Users
<1>2. /\ Cardinality(users) \in Nat /\ Cardinality(Users(k)) \in Nat
      /\ Cardinality(users) <= Cardinality(Users(k))
  BY <1>1, UsersCount, ZenonT(60)
<1>3. /\ k \in DOMAIN buffers /\ k \in chunk_index /\ buffers[k].pins \in Nat
      /\ buffers[k].pins >= Cardinality(Users(k))
  BY <1>1 DEF UseInv, PinInv, ShapeInv
<1> QED BY <1>2, <1>3

\* A buffer that a caller reads is never evicted, deleted or cleared: getBuffer pins what
\* it finds before it releases slab_mutex_, and every path that removes a buffer respects
\* pins or removes a buffer of its own.  Requests are for at least a page: for requests of
\* no pages clearSlabs does remove pinned buffers.
THEOREM HeldAlwaysPinned ==
  ASSUME 0 \notin Requests
  PROVE  Spec => []HeldIsPinned
<1>1. Init => UseInv /\ IndexInv
  BY UseInvInit DEF Init, IndexInv
<1>2. UseInv /\ IndexInv /\ [Next]_vars => UseInv' /\ IndexInv'
  BY UseInvNext, IndexInvNext
<1>3. UseInv => HeldIsPinned
  BY UseInvHeld
<1> QED BY <1>1, <1>2, <1>3, PTL DEF Spec

-----------------------------------------------------------------------------
Deletes == {"next", "delete", "remove"}

\* With the global lock one call runs at a time, and without it no delete does.
LockInv ==
  /\ op \in [Threads -> Ops]
  /\ global_lock => \A t, u \in Threads : op[t] # Idle /\ op[u] # Idle => t = u
  /\ ~global_lock => \A t \in Threads : op[t].pc \notin Deletes
  /\ DeletesWhatItFound

\* Thread t goes on with its call, or begins or ends one.
LEMMA LockStep ==
  ASSUME LockInv, NEW t \in Threads, NEW r \in Ops, op' = [op EXCEPT ![t] = r],
         global_lock' = global_lock,
         op[t] # Idle \/ r = Idle \/ getGlobalLockIfEnabled(t),
         r.pc \in Deletes => global_lock,
         r.pc \in {"delete", "remove"} => r.live
  PROVE  LockInv'
<1>1. op' \in [Threads -> Ops] /\ op'[t] = r /\ \A u \in Threads \ {t} : op'[u] = op[u]
  BY DEF LockInv
<1>2. global_lock' => \A v, u \in Threads : op'[v] # Idle /\ op'[u] # Idle => v = u
  BY <1>1 DEF LockInv, getGlobalLockIfEnabled
<1>3. ~global_lock' => \A u \in Threads : op'[u].pc \notin Deletes
  BY <1>1 DEF LockInv
<1>4. DeletesWhatItFound'
  BY <1>1 DEF LockInv, DeletesWhatItFound
<1> QED BY <1>1, <1>2, <1>3, <1>4 DEF LockInv

\* The pc of a call changes, or the call returns.
LEMMA LockGoto ==
  ASSUME LockInv, NEW t \in Threads, op[t].pc \in CallPcs, global_lock' = global_lock,
         (\E p \in CallPcs : goto(t, p)) \/ return(t)
  PROVE  LockInv'
<1>1. op[t] \in Calls /\ op[t] # Idle
  BY DEF LockInv, Ops, Calls, CallPcs, Idle
<1>2. ASSUME NEW p \in CallPcs, goto(t, p) PROVE LockInv'
  <2> DEFINE r == [op[t] EXCEPT !.pc = p]
  <2>1. r \in Calls
    BY <1>1 DEF Calls
  <2>2. r \in Ops /\ r.pc \notin Deletes
    BY <2>1 DEF Calls, Ops, CallPcs, Deletes
  <2>3. op' = [op EXCEPT ![t] = r]
    BY <1>2 DEF goto
  <2> QED BY <2>2, <2>3, <1>1, LockStep, ZenonT(60) DEF Deletes
<1>3. CASE return(t)
  <2>1. op' = [op EXCEPT ![t] = Idle] /\ Idle \in Ops /\ Idle.pc = "idle"
    BY <1>3 DEF return, Ops, Idle
  <2> QED BY <2>1, LockStep, ZenonT(60) DEF Deletes
<1> QED BY <1>2, <1>3

\* After a fatal error nothing runs.
LEMMA LockFatal == fatal => LockInv'
<1> SUFFICES ASSUME fatal PROVE LockInv'
  OBVIOUS
<1>1. op' = [t \in Threads |-> Idle]
  BY DEF fatal
<1> QED BY <1>1 DEF LockInv, DeletesWhatItFound, Ops, Idle, Deletes

\* Eviction finds no delete under way whose segment it could destroy.
LEMMA LockEvict ==
  ASSUME LockInv, NEW t \in Threads, evict(t), global_lock' = global_lock
  PROVE  LockInv'
<1>1. op[t].pc = "evict" /\ op[t] # Idle
  BY DEF evict, Idle
<1>2. \A u \in Threads : op[u].pc \notin Deletes
  BY <1>1 DEF LockInv, Idle, Deletes
<1>3. \A K : Stale(K) = op
  BY <1>2 DEF Stale, LockInv, Deletes
<1>4. goto(t, AfterReserve(t)) /\ AfterReserve(t) \in CallPcs
  BY <1>3, ZenonT(60) DEF evict, goto, AfterReserve, CallPcs
<1> QED BY <1>1, <1>4, LockGoto DEF CallPcs

\* The steps of deleteBuffersWithPrefix.
LEMMA LockDelete ==
  ASSUME LockInv, ~DeletesUnlocked, NEW t \in Threads, NEW k, global_lock' = global_lock,
         \/ deleteBuffersWithPrefix(t) \/ lookUp(t, k) \/ eraseChunkSegment(t)
         \/ deleteSegment(t) \/ endOfDelete(t)
  PROVE  LockInv'
<1>1. CASE deleteBuffersWithPrefix(t)
  <2> DEFINE r == [pc |-> "next", todo |-> chunk_index \cap Chunks]
  <2>1. global_lock /\ getGlobalLockIfEnabled(t) /\ op' = [op EXCEPT ![t] = r]
    BY <1>1 DEF deleteBuffersWithPrefix
  <2>2. r \in Ops /\ r.pc = "next"
    BY DEF Ops
  <2> QED BY <2>1, <2>2, LockStep, ZenonT(60)
<1>2. CASE endOfDelete(t)
  <2>1. op' = [op EXCEPT ![t] = Idle] /\ Idle \in Ops /\ Idle.pc = "idle"
    BY <1>2 DEF endOfDelete, return, Ops, Idle
  <2> QED BY <2>1, LockStep, ZenonT(60) DEF Deletes
<1>3. CASE lookUp(t, k) \/ eraseChunkSegment(t) \/ deleteSegment(t)
  <2>1. op[t].pc \in Deletes /\ op[t] # Idle /\ global_lock
    BY <1>3 DEF lookUp, eraseChunkSegment, deleteSegment, Deletes, Idle, LockInv
  <2>2. op[t] \in Ops
    BY DEF LockInv
  <2>3. op[t].todo \in SUBSET Chunks
    BY <2>1, <2>2, SMTT(60) DEF Ops, CallPcs, Idle, Deletes
  <2>4. ASSUME NEW c, op' = [op EXCEPT ![t] = [pc |-> "next", todo |-> op[t].todo \ {c}]] PROVE LockInv'
    <3>1. [pc |-> "next", todo |-> op[t].todo \ {c}] \in Ops
      BY <2>3 DEF Ops
    <3> QED BY <2>1, <2>4, <3>1, LockStep, ZenonT(60)
  <2>5. ASSUME op' = [op EXCEPT ![t] = [pc |-> "delete", key |-> k, todo |-> op[t].todo, live |-> TRUE]],
               k \in op[t].todo
        PROVE  LockInv'
    <3>1. [pc |-> "delete", key |-> k, todo |-> op[t].todo, live |-> TRUE] \in Ops
      BY <2>3, <2>5 DEF Ops
    <3> QED BY <2>1, <2>5, <3>1, LockStep, ZenonT(60)
  <2>6. ASSUME op[t].pc = "delete", op[t].live, goto(t, "remove") PROVE LockInv'
    <3> DEFINE r == [op[t] EXCEPT !.pc = "remove"]
    <3>1. op[t] \in [pc : {"delete", "remove"}, key : Chunks, todo : SUBSET Chunks, live : BOOLEAN]
      BY <2>2, <2>6 DEF Ops, CallPcs, Idle
    <3>2. r \in [pc : {"delete", "remove"}, key : Chunks, todo : SUBSET Chunks, live : BOOLEAN]
          /\ r.live
      BY <2>6, <3>1, SMTT(60)
    <3>3. r \in Ops /\ op' = [op EXCEPT ![t] = r]
      BY <2>6, <3>2, SMTT(60) DEF Ops, goto
    <3> QED BY <2>1, <3>2, <3>3, LockStep, ZenonT(60)
  <2> QED BY <1>3, <2>4, <2>5, <2>6 DEF lookUp, eraseChunkSegment, deleteSegment, nextKey
<1> QED BY <1>1, <1>2, <1>3

\* A call begins.
LEMMA LockBegin ==
  ASSUME LockInv, NEW t \in Threads, NEW k \in Keys, NEW n \in Requests,
         NEW call \in {"getBuffer", "fetchBuffer"}, global_lock' = global_lock,
         getBuffer(t, k, n, call) \/ alloc(t, k, n)
  PROVE  LockInv'
<1>1. getGlobalLockIfEnabled(t)
  BY DEF getBuffer, alloc
<1>2. ASSUME NEW b, NEW c \in {"getBuffer", "fetchBuffer", "alloc"}, NEW new \in BOOLEAN,
             op' = [op EXCEPT ![t] = [pc |-> Steps(b, n), call |-> c, key |-> k, pages |-> n, new |-> new]]
      PROVE  LockInv'
  <2> DEFINE r == [pc |-> Steps(b, n), call |-> c, key |-> k, pages |-> n, new |-> new]
  <2>1. Steps(b, n) \in CallPcs
    BY DEF Steps, CallPcs
  <2>2. r \in Ops /\ r.pc \notin Deletes
    BY <2>1 DEF Ops, CallPcs, Deletes
  <2> QED BY <1>1, <1>2, <2>2, LockStep, ZenonT(60) DEF Deletes
<1> QED BY <1>2, ZenonT(60) DEF getBuffer, alloc, findBuffer, addBufferPlaceholder

\* Every step keeps deletes alone, when tables are dropped under the global lock only.
LEMMA LockInvNext ==
  ASSUME ~DeletesUnlocked, LockInv, [Next]_vars
  PROVE  LockInv'
<1>1. CASE UNCHANGED vars
  BY <1>1 DEF vars, LockInv, DeletesWhatItFound
<1>2. global_lock' = global_lock
  BY DEF Next, vars
<1>3. ASSUME NEW t \in Threads,
             \/ growInPlace(t) \/ findFreeBufferInSlab(t) \/ noFreeBuffer(t) \/ addSlab(t)
             \/ noSlab(t) \/ fetch(t) \/ finish(t) \/ ForeignStorageException(t)
      PROVE  LockInv'
  <2>1. op[t].pc \in CallPcs
    BY <1>3, ZenonT(60) DEF growInPlace, findFreeBufferInSlab, noFreeBuffer, addSlab, noSlab, fetch, finish,
                ForeignStorageException, CallPcs
  <2>2. AfterReserve(t) \in CallPcs /\ {"addSlab", "evict", "done"} \subseteq CallPcs
    BY SMTT(60) DEF AfterReserve, CallPcs
  <2>3. (\E p \in CallPcs : goto(t, p)) \/ return(t)
    BY <1>3, <2>2, ZenonT(60) DEF growInPlace, findFreeBufferInSlab, noFreeBuffer, addSlab, noSlab, fetch,
                      finish, ForeignStorageException, reserved
  <2> QED BY <1>2, <2>1, <2>3, LockGoto
<1>4. ASSUME NEW t \in Threads, slabRefused(t) PROVE LockInv'
  BY <1>2, <1>4 DEF slabRefused, LockInv, DeletesWhatItFound
<1>5. ASSUME NEW t \in Threads, OutOfMemory(t) PROVE LockInv'
  <2>1. op[t].pc \in CallPcs /\ (return(t) \/ fatal)
    BY <1>5 DEF OutOfMemory, throws, CallPcs
  <2> QED BY <1>2, <2>1, LockGoto, LockFatal
<1>6. ASSUME NEW t \in Threads, destroyed(t) PROVE LockInv'
  BY <1>6, LockFatal DEF destroyed
<1>7. ASSUME NEW t \in Threads, evict(t) PROVE LockInv'
  BY <1>2, <1>7, LockEvict
<1>8. ASSUME NEW t \in Threads, NEW k \in Keys, lookUp(t, k) PROVE LockInv'
  BY <1>2, <1>8, LockDelete
<1>9. ASSUME NEW t \in Threads, \/ deleteBuffersWithPrefix(t) \/ eraseChunkSegment(t)
                                \/ deleteSegment(t) \/ endOfDelete(t)
      PROVE  LockInv'
  BY <1>2, <1>9, LockDelete
<1>10. ASSUME NEW t \in Threads, NEW k \in Keys, NEW n \in Requests,
              NEW call \in {"getBuffer", "fetchBuffer"}, getBuffer(t, k, n, call) \/ alloc(t, k, n)
       PROVE  LockInv'
  BY <1>2, <1>10, LockBegin
<1>11. ASSUME NEW t \in Threads, NEW k \in Keys, release(t, k) \/ free(t, k) PROVE LockInv'
  BY <1>2, <1>11, SMTT(60) DEF release, free, LockInv, DeletesWhatItFound
<1>12. CASE clearSlabs
  BY <1>2, <1>12 DEF clearSlabs, LockInv, DeletesWhatItFound
<1> QED
  BY <1>1, <1>3, <1>4, <1>5, <1>6, <1>7, <1>8, <1>9, <1>10, <1>11, <1>12 DEF Next, Step, Keys

\* When tables are dropped under the global lock only, a delete never works on a segment
\* that eviction has destroyed: deleteBuffersWithPrefix reads the pins and the segment
\* without slab_mutex_, and it is that lock that keeps every eviction away.
THEOREM DeletesFindTheirSegment ==
  ASSUME ~DeletesUnlocked
  PROVE  Spec => []DeletesWhatItFound
<1>1. Init => LockInv
  BY DEF Init, LockInv, DeletesWhatItFound, Ops, Idle, Deletes
<1>2. LockInv /\ [Next]_vars => LockInv'
  BY LockInvNext
<1>3. LockInv => DeletesWhatItFound
  BY DEF LockInv
<1> QED BY <1>1, <1>2, <1>3, PTL DEF Spec
=============================================================================
