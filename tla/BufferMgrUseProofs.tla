------------------------- MODULE BufferMgrUseProofs -------------------------
(***************************************************************************)
(* The inductive invariant behind HeldAlwaysPinned (BufferMgrProofs),        *)
(* and that the steps that go on with a call of BufferMgr, or end one, keep *)
(* it.                                                                     *)
(***************************************************************************)
EXTENDS BufferMgr, FiniteSetTheorems, TLAPS

(***************************************************************************)
(* A buffer in use is pinned.  What has to be counted besides the callers  *)
(* that read a buffer is the calls that are about to return it.            *)
(***************************************************************************)
CallPcs == {"reserve", "addSlab", "evict", "fetch", "done"}
InCall(t) == op[t].pc \in CallPcs
Users(k) == {t \in Threads : k \in held[t] \/ (InCall(t) /\ op[t].key = k)}

Ops ==
  {Idle}
  \cup [pc : CallPcs, call : {"getBuffer", "fetchBuffer", "alloc"}, key : Keys,
        pages : Requests, new : BOOLEAN]
  \cup [pc : {"next"}, todo : SUBSET Chunks]
  \cup [pc : {"delete", "remove"}, key : Chunks, todo : SUBSET Chunks, live : BOOLEAN]

\* What the threads share has the shape that the actions rely on.
ShapeInv ==
  /\ op \in [Threads -> Ops]
  /\ held \in [Threads -> SUBSET Keys]
  /\ chunk_mutex \in [Keys -> Threads \cup {Nobody}]
  /\ \A k \in DOMAIN buffers : buffers[k] \in [pins : Nat, pages : Nat, size : Nat]

\* Every user of a buffer has a pin, and the buffer can be looked up.
PinInv ==
  \A k \in Keys : Users(k) # {} =>
    /\ k \in DOMAIN buffers /\ k \in chunk_index
    /\ buffers[k].pins >= Cardinality(Users(k))

\* The mutex of a chunk is held by the call that works on it, which does not read the
\* buffer already; a buffer that is new, or that alloc made, has no other user, and
\* one that is being removed has none.
OwnerInv ==
  /\ \A t \in Threads : InCall(t) => /\ chunk_mutex[op[t].key] = t
                                     /\ op[t].key \notin held[t]
                                     /\ op[t].new => Users(op[t].key) \subseteq {t}
  /\ \A t \in Threads : op[t].pc \in {"delete", "remove"} => chunk_mutex[op[t].key] = t
  /\ \A t \in Threads : op[t].pc = "remove" => Users(op[t].key) = {}
  /\ \A k \in Temporaries : \A t, u \in Users(k) : t = u

\* A buffer that is read, or about to be returned, has pages of its own.
SizedInv ==
  /\ \A k \in unsized \cap DOMAIN buffers : buffers[k].pages = 0
  /\ \A t \in Threads : held[t] \cap unsized = {}
  /\ \A t \in Threads : op[t].pc \in {"fetch", "done"} => op[t].key \notin unsized

UseInv == ShapeInv /\ PinInv /\ OwnerInv /\ SizedInv

\* The users of a buffer are finitely many, and one more or one less is counted so.
LEMMA UsersCount ==
  ASSUME NEW S \in SUBSET Threads, NEW t
  PROVE  /\ Cardinality(S) \in Nat
         /\ S # {} => Cardinality(S) > 0
         /\ t \notin S => Cardinality(S \cup {t}) = Cardinality(S) + 1
         /\ t \in S => Cardinality(S \ {t}) = Cardinality(S) - 1
         /\ \A T \in SUBSET S : Cardinality(T) <= Cardinality(S)
<1>1. IsFiniteSet(S)
  BY CallerAssumption, FS_Subset
<1>2. Cardinality(S) \in Nat
  BY <1>1, FS_CardinalityType
<1>3. S # {} => Cardinality(S) > 0
  BY <1>1, <1>2, FS_EmptySet
<1>4. t \notin S => Cardinality(S \cup {t}) = Cardinality(S) + 1
  BY <1>1, FS_AddElement
<1>5. t \in S => Cardinality(S \ {t}) = Cardinality(S) - 1
  BY <1>1, FS_RemoveElement
<1>6. \A T \in SUBSET S : Cardinality(T) <= Cardinality(S)
  BY <1>1, FS_Subset
<1> QED BY <1>2, <1>3, <1>4, <1>5, <1>6

\* The pool starts empty (BufferMgr::BufferMgr).
LEMMA UseInvInit == Init => UseInv
<1> SUFFICES ASSUME Init PROVE UseInv
  OBVIOUS
<1>1. \A t \in Threads : op[t] = Idle /\ held[t] = {}
  BY DEF Init
<1>2. \A k : Users(k) = {}
  BY <1>1 DEF Users, InCall, CallPcs, Idle
<1>3. ShapeInv
  BY DEF Init, ShapeInv, Ops
<1>4. PinInv
  BY <1>2 DEF PinInv
<1>5. OwnerInv
  BY <1>1, <1>2 DEF OwnerInv, InCall, CallPcs, Idle
<1>6. SizedInv
  BY <1>1 DEF SizedInv, Idle, Init
<1> QED BY <1>3, <1>4, <1>5, <1>6 DEF UseInv

\* A buffer without users can be forgotten: evicted, deleted or cleared.
LEMMA NoPinNoUser ==
  ASSUME UseInv, NEW k \in Keys, k \in DOMAIN buffers, buffers[k].pins < 1
  PROVE  Users(k) = {}
<1>1. Users(k) \in SUBSET Threads
  BY DEF Users
<1>2. Users(k) # {} => Cardinality(Users(k)) > 0 /\ Cardinality(Users(k)) \in Nat
  BY <1>1, UsersCount, ZenonT(60)
<1> QED BY <1>2 DEF UseInv, PinInv, ShapeInv

\* A step inside a call of t that keeps what is in use: the pins of buffers with users
\* are as they were.  Deletes may learn that their segment is stale.
LEMMA InCallStep ==
  ASSUME UseInv, NEW t \in Threads, InCall(t), InCall(t)', ShapeInv', SizedInv',
         op'[t].key = op[t].key, op'[t].new = op[t].new,
         \A u \in Threads \ {t} : /\ op'[u].pc = op[u].pc
                                  /\ InCall(u) => op'[u] = op[u]
                                  /\ op[u].pc \in {"delete", "remove"} => op'[u].key = op[u].key,
         held' = held, chunk_mutex' = chunk_mutex,
         \A k \in Keys : Users(k) # {} =>
           k \in DOMAIN buffers' /\ k \in chunk_index' /\ buffers'[k].pins = buffers[k].pins
  PROVE  UseInv'
<1>1. \A u \in Threads : InCall(u)' = InCall(u) /\ (InCall(u) => op'[u].key = op[u].key /\ op'[u].new = op[u].new)
  BY DEF InCall
<1>2. \A k : Users(k)' = Users(k)
  BY <1>1 DEF Users
<1>3. PinInv'
  BY <1>2 DEF UseInv, PinInv
<1>4. \A u \in Threads : op'[u].pc \in {"delete", "remove"} =>
        op[u].pc = op'[u].pc /\ op'[u].key = op[u].key
  BY DEF InCall, CallPcs
<1>5. OwnerInv'
  BY <1>1, <1>2, <1>4 DEF UseInv, OwnerInv
<1> QED BY <1>3, <1>5 DEF UseInv

\* Threads stop using buffers, or leave their calls, and take up nothing new.
LEMMA Leaves ==
  ASSUME UseInv, ShapeInv', PinInv', SizedInv',
         \A u \in Threads : held'[u] \subseteq held[u],
         \A u \in Threads : InCall(u)' \/ op'[u].pc \in {"delete", "remove"} =>
           op'[u] = op[u] /\ \A c \in Keys : chunk_mutex[c] = u => chunk_mutex'[c] = u
  PROVE  UseInv'
<1>1. \A u \in Threads : InCall(u)' => InCall(u) /\ op'[u] = op[u]
  BY DEF InCall
<1>2. \A c : Users(c)' \subseteq Users(c)
  BY <1>1 DEF Users
<1>3. \A u \in Threads : InCall(u) \/ op[u].pc \in {"delete", "remove"} => op[u].key \in Keys
  <2> SUFFICES ASSUME NEW u \in Threads, InCall(u) \/ op[u].pc \in {"delete", "remove"}
               PROVE  op[u].key \in Keys
    OBVIOUS
  <2>1. op[u] \in Ops
    BY DEF UseInv, ShapeInv
  <2> QED BY <2>1 DEF Ops, InCall, CallPcs, Idle, Keys
<1>4. ASSUME NEW u \in Threads, InCall(u)'
      PROVE  /\ chunk_mutex'[op'[u].key] = u
             /\ op'[u].key \notin held'[u]
             /\ op'[u].new => Users(op[u].key)' \subseteq {u}
  <2>1. InCall(u) /\ op'[u] = op[u]
    BY <1>1, <1>4
  <2>2. Users(op[u].key)' \subseteq Users(op[u].key)
    BY <2>1, <1>2
  <2> QED BY <2>1, <2>2, <1>3, <1>4 DEF UseInv, OwnerInv
<1>5. ASSUME NEW u \in Threads, op'[u].pc \in {"delete", "remove"}
      PROVE  chunk_mutex'[op'[u].key] = u /\ (op'[u].pc = "remove" => Users(op[u].key)' = {})
  <2>1. op'[u] = op[u]
    BY <1>5
  <2>2. Users(op[u].key)' \subseteq Users(op[u].key)
    BY <2>1, <1>2, SMTT(60)
  <2> QED BY <2>1, <2>2, <1>3, <1>5 DEF UseInv, OwnerInv
<1>6. \A c \in Temporaries : \A u, v \in Users(c)' : u = v
  BY <1>2 DEF UseInv, OwnerInv
<1>7. OwnerInv'
  BY <1>4, <1>5, <1>6, SMTT(60) DEF OwnerInv
<1> QED BY <1>7 DEF UseInv

\* Thread t begins, goes on with or ends a call on buffer k that no other call works on.
LEMMA OwnStep ==
  ASSUME UseInv, NEW t \in Threads, NEW k \in Keys, ShapeInv', PinInv', SizedInv',
         \A u \in Threads \ {t} : op'[u] = op[u] /\ held'[u] = held[u],
         \A c \in Keys \ {k} : (c \in held'[t]) = (c \in held[t]),
         \A u \in Threads \ {t} : \A c \in Keys \ {k} : chunk_mutex[c] = u => chunk_mutex'[c] = u,
         InCall(t) => op[t].key = k, InCall(t)' => op'[t].key = k,
         \A u \in Threads \ {t} : InCall(u) \/ op[u].pc \in {"delete", "remove"} => op[u].key # k,
         InCall(t)' => chunk_mutex'[k] = t /\ k \notin held'[t] /\ (op'[t].new => Users(k)' \subseteq {t}),
         op'[t].pc \in {"delete", "remove"} =>
           op'[t].key = k /\ chunk_mutex'[k] = t /\ (op'[t].pc = "remove" => Users(k)' = {}),
         k \in Temporaries => \A u, v \in Users(k)' : u = v
  PROVE  UseInv'
<1>1. \A u \in Threads \ {t} : InCall(u)' = InCall(u)
  BY DEF InCall
<1>2. \A c \in Keys \ {k} : Users(c)' = Users(c)
  BY <1>1 DEF Users
<1>3. \A u \in Threads \ {t} : InCall(u) \/ op[u].pc \in {"delete", "remove"} =>
        op[u].key \in Keys \ {k} /\ chunk_mutex[op[u].key] = u
  <2> SUFFICES ASSUME NEW u \in Threads \ {t}, InCall(u) \/ op[u].pc \in {"delete", "remove"}
               PROVE  op[u].key \in Keys /\ chunk_mutex[op[u].key] = u
    OBVIOUS
  <2>1. op[u] \in Ops
    BY DEF UseInv, ShapeInv
  <2>2. op[u].key \in Keys
    BY <2>1 DEF Ops, InCall, CallPcs, Idle, Keys
  <2> QED BY <2>2 DEF UseInv, OwnerInv
<1>4. \A u \in Threads : InCall(u)' => /\ chunk_mutex'[op'[u].key] = u
                                       /\ op'[u].key \notin held'[u]
                                       /\ op'[u].new => Users(op[u].key)' \subseteq {u}
  <2> SUFFICES ASSUME NEW u \in Threads \ {t}, InCall(u)
               PROVE  /\ chunk_mutex'[op[u].key] = u
                      /\ op[u].key \notin held[u]
                      /\ op[u].new => Users(op[u].key)' \subseteq {u}
    BY <1>1
  <2>1. op'[u] = op[u] /\ op[u].key \in Keys \ {k}
    BY <1>3
  <2>2. Users(op[u].key)' = Users(op[u].key)
    BY <2>1, <1>2, SMTT(60)
  <2> QED BY <2>1, <2>2 DEF UseInv, OwnerInv
<1>5. \A u \in Threads : op'[u].pc \in {"delete", "remove"} =>
        chunk_mutex'[op'[u].key] = u /\ (op'[u].pc = "remove" => Users(op[u].key)' = {})
  <2> SUFFICES ASSUME NEW u \in Threads \ {t}, op[u].pc \in {"delete", "remove"}
               PROVE  chunk_mutex'[op[u].key] = u /\ (op[u].pc = "remove" => Users(op[u].key)' = {})
    OBVIOUS
  <2>1. op'[u] = op[u] /\ op[u].key \in Keys \ {k}
    BY <1>3
  <2>2. Users(op[u].key)' = Users(op[u].key)
    BY <2>1, <1>2, SMTT(60)
  <2> QED BY <2>1, <2>2, SMTT(60) DEF UseInv, OwnerInv
<1>6. \A c \in Temporaries : \A u, v \in Users(c)' : u = v
  BY <1>2 DEF UseInv, OwnerInv, Keys
<1>7. OwnerInv'
  BY <1>4, <1>5, <1>6, SMTT(60) DEF OwnerInv
<1> QED BY <1>7 DEF UseInv

-----------------------------------------------------------------------------
(***************************************************************************)
(* The actions, one by one or in groups that are alike.                    *)
(***************************************************************************)
Calls == [pc : CallPcs, call : {"getBuffer", "fetchBuffer", "alloc"}, key : Keys,
          pages : Requests, new : BOOLEAN]

\* A thread in a call is a user of the buffer it asked for.
LEMMA InCallFacts ==
  ASSUME UseInv, NEW t \in Threads, InCall(t)
  PROVE  /\ op[t] \in Calls /\ op[t].key \in Keys /\ op[t].pages \in Nat
         /\ t \in Users(op[t].key)
         /\ op[t].key \in DOMAIN buffers /\ op[t].key \in chunk_index
<1>1. op[t] \in Calls
  BY DEF UseInv, ShapeInv, Ops, InCall, CallPcs, Calls, Idle
<1>2. op[t].key \in Keys /\ op[t].pages \in Nat
  BY <1>1, SlabAssumption DEF Calls
<1>3. t \in Users(op[t].key)
  BY DEF Users
<1> QED BY <1>1, <1>2, <1>3, SMTT(60) DEF UseInv, PinInv

\* Only the pc of a call changes.
LEMMA PcShape ==
  ASSUME UseInv, NEW t \in Threads, InCall(t), NEW p \in CallPcs, goto(t, p)
  PROVE  /\ op' \in [Threads -> Ops]
         /\ InCall(t)' /\ op'[t].pc = p /\ op'[t].key = op[t].key /\ op'[t].new = op[t].new
         /\ \A u \in Threads \ {t} : op'[u] = op[u]
<1>1. op[t] \in Calls
  BY InCallFacts
<1>2. op'[t] = [op[t] EXCEPT !.pc = p] /\ \A u \in Threads \ {t} : op'[u] = op[u]
  BY DEF goto, UseInv, ShapeInv
<1>3. op'[t] \in Calls /\ op'[t].pc = p /\ op'[t].key = op[t].key /\ op'[t].new = op[t].new
  BY <1>1, <1>2 DEF Calls
<1>4. op' \in [Threads -> Ops]
  BY <1>2, <1>3, SMTT(60) DEF goto, UseInv, ShapeInv, Ops, Calls
<1> QED BY <1>2, <1>3, <1>4, SMTT(60) DEF InCall

\* A step of a call that gives its buffer pages: in place, in a free segment or in a
\* new slab (reserveBuffer, findFreeBuffer).
LEMMA ReserveKeeps ==
  ASSUME 0 \notin Requests, UseInv, NEW t \in Threads,
         growInPlace(t) \/ findFreeBufferInSlab(t) \/ addSlab(t)
  PROVE  UseInv'
<1> DEFINE k == op[t].key
           n == op[t].pages
<1>1. InCall(t)
  BY ZenonT(60) DEF growInPlace, findFreeBufferInSlab, addSlab, InCall, CallPcs
<1>2. op[t] \in Calls /\ k \in Keys /\ n \in Nat /\ n # 0 /\ k \in DOMAIN buffers /\ k \in chunk_index
  BY <1>1, InCallFacts, SMTT(60) DEF Calls
<1>3. /\ reserved(t)
      /\ buffers' = [buffers EXCEPT ![k] = Grown(@, n)]
      /\ chunk_index' = chunk_index
      /\ unsized' \subseteq unsized \ {k}
  BY ZenonT(60) DEF growInPlace, findFreeBufferInSlab, addSlab, moveTo, CanGrow
<1>4. AfterReserve(t) \in CallPcs /\ goto(t, AfterReserve(t)) /\ held' = held /\ chunk_mutex' = chunk_mutex
  BY <1>3 DEF reserved, AfterReserve, CallPcs
<1>5. /\ op' \in [Threads -> Ops]
      /\ InCall(t)' /\ op'[t].key = k /\ op'[t].new = op[t].new
      /\ \A u \in Threads \ {t} : op'[u] = op[u]
  BY <1>1, <1>4, PcShape, SMTT(60)
<1>6. /\ DOMAIN buffers' = DOMAIN buffers
      /\ buffers'[k] = [buffers[k] EXCEPT !.pages = n]
      /\ \A c \in DOMAIN buffers \ {k} : buffers'[c] = buffers[c]
  BY <1>2, <1>3 DEF Grown
<1>7. \A c \in DOMAIN buffers : /\ buffers'[c] \in [pins : Nat, pages : Nat, size : Nat]
                                /\ buffers'[c].pins = buffers[c].pins
  BY <1>2, <1>6 DEF UseInv, ShapeInv
<1>8. ShapeInv'
  BY <1>4, <1>5, <1>6, <1>7 DEF UseInv, ShapeInv
<1>9. SizedInv'
  BY <1>3, <1>4, <1>5, <1>6 DEF UseInv, SizedInv
<1> QED BY <1>1, <1>3, <1>4, <1>5, <1>6, <1>7, <1>8, <1>9, InCallStep, SMTT(60) DEF UseInv, PinInv

\* A step of a call that leaves its buffer where it is.
LEMMA StepKeeps ==
  ASSUME UseInv, NEW t \in Threads,
         noFreeBuffer(t) \/ slabRefused(t) \/ noSlab(t) \/ fetch(t)
  PROVE  UseInv'
<1>1. InCall(t)
  BY DEF noFreeBuffer, slabRefused, noSlab, fetch, InCall, CallPcs
<1>2. op[t] \in Calls /\ op[t].key \in Keys /\ op[t].pages \in Nat
  BY <1>1, InCallFacts
<1>3. held' = held /\ chunk_mutex' = chunk_mutex /\ chunk_index' = chunk_index /\ unsized' = unsized
  BY DEF noFreeBuffer, slabRefused, noSlab, fetch, pool, limits
<1>4. /\ op' \in [Threads -> Ops]
      /\ InCall(t)' /\ op'[t].key = op[t].key /\ op'[t].new = op[t].new
      /\ \A u \in Threads \ {t} : op'[u] = op[u]
      /\ op'[t].pc \in {"fetch", "done"} => op[t].pc \in {"fetch", "done"}
  <2>1. CASE noFreeBuffer(t)
    <3>1. "addSlab" \in CallPcs /\ goto(t, "addSlab")
      BY <2>1 DEF noFreeBuffer, CallPcs
    <3> QED BY <3>1, <1>1, PcShape
  <2>2. CASE slabRefused(t)
    BY <2>2, <1>1, SMTT(60) DEF slabRefused, InCall, UseInv, ShapeInv
  <2>3. CASE noSlab(t)
    <3>1. "evict" \in CallPcs /\ goto(t, "evict")
      BY <2>3 DEF noSlab, CallPcs
    <3> QED BY <3>1, <1>1, PcShape
  <2>4. CASE fetch(t)
    <3>1. "done" \in CallPcs /\ goto(t, "done") /\ op[t].pc = "fetch"
      BY <2>4 DEF fetch, CallPcs
    <3> QED BY <3>1, <1>1, PcShape
  <2> QED BY <2>1, <2>2, <2>3, <2>4
<1>5. /\ DOMAIN buffers' = DOMAIN buffers
      /\ \A c \in DOMAIN buffers : /\ buffers'[c] \in [pins : Nat, pages : Nat, size : Nat]
                                   /\ buffers'[c].pins = buffers[c].pins
                                   /\ buffers'[c].pages = buffers[c].pages
  <2>1. CASE buffers' = buffers
    BY <2>1 DEF UseInv, ShapeInv
  <2>2. CASE fetch(t)
    <3>1. /\ DOMAIN buffers' = DOMAIN buffers
          /\ \A c \in DOMAIN buffers :
               buffers'[c] = IF c = op[t].key THEN [buffers[c] EXCEPT !.size = op[t].pages]
                             ELSE buffers[c]
      BY <2>2, SMTT(60) DEF fetch
    <3> QED BY <3>1, <1>2 DEF UseInv, ShapeInv
  <2> QED BY <2>1, <2>2, SMTT(60) DEF noFreeBuffer, slabRefused, noSlab, pool
<1>6. ShapeInv'
  BY <1>3, <1>4, <1>5, SMTT(60) DEF UseInv, ShapeInv
<1>7. SizedInv'
  BY <1>3, <1>4, <1>5, SMTT(60) DEF UseInv, SizedInv
<1> QED BY <1>1, <1>3, <1>4, <1>5, <1>6, <1>7, InCallStep DEF UseInv, PinInv

\* Eviction takes buffers that nobody uses (evict).
LEMMA EvictKeeps ==
  ASSUME 0 \notin Requests, UseInv, NEW t \in Threads, evict(t)
  PROVE  UseInv'
<1> DEFINE k == op[t].key
           n == op[t].pages
<1>1. PICK r \in Runs(n) :
        /\ chunk_index' = chunk_index \ KeysOf(r)
        /\ buffers' = [Without(buffers, KeysOf(r)) EXCEPT ![k] = Grown(@, n)]
        /\ op' = [Stale(KeysOf(r)) EXCEPT ![t].pc = AfterReserve(t)]
        /\ unsized' = unsized \ {k}
  BY ZenonT(60) DEF evict, moveTo
<1>2. InCall(t) /\ held' = held /\ chunk_mutex' = chunk_mutex /\ op[t].pc = "evict"
  BY DEF evict, InCall, CallPcs
<1>3. op[t] \in Calls /\ k \in Keys /\ n \in Nat /\ n # 0 /\ t \in Users(k)
  BY <1>2, InCallFacts, SMTT(60) DEF Calls
<1>4. \A c \in KeysOf(r) : buffers[c].pins = 0
  BY DEF KeysOf, Runs, Evictable
<1>5. \A c \in Keys : Users(c) # {} => c \in DOMAIN buffers /\ c \in chunk_index /\ c \notin KeysOf(r)
  <2> SUFFICES ASSUME NEW c \in Keys, Users(c) # {}, c \in KeysOf(r) PROVE FALSE
    BY DEF UseInv, PinInv
  <2>1. c \in DOMAIN buffers /\ buffers[c].pins < 1
    BY <1>4, SMTT(60) DEF UseInv, PinInv
  <2> QED BY <2>1, NoPinNoUser
<1>6. /\ DOMAIN buffers' = DOMAIN buffers \ KeysOf(r)
      /\ \A c \in DOMAIN buffers' : buffers'[c] = IF c = k THEN [buffers[c] EXCEPT !.pages = n]
                                                  ELSE buffers[c]
  BY <1>1 DEF Without, Grown
<1>7. \A c \in DOMAIN buffers' : /\ buffers'[c] \in [pins : Nat, pages : Nat, size : Nat]
                                 /\ buffers'[c].pins = buffers[c].pins
  BY <1>3, <1>6, SMTT(60) DEF UseInv, ShapeInv
<1>8. /\ op' \in [Threads -> Ops]
      /\ InCall(t)' /\ op'[t].key = k /\ op'[t].new = op[t].new
      /\ \A u \in Threads \ {t} :
           /\ op'[u].pc = op[u].pc
           /\ InCall(u) => op'[u] = op[u]
           /\ op[u].pc \in {"delete", "remove"} => op'[u].key = op[u].key
           /\ op[u].pc \notin {"delete", "remove"} => op'[u] = op[u]
  <2>1. op'[t] = [op[t] EXCEPT !.pc = AfterReserve(t)]
    BY <1>1, <1>2 DEF Stale
  <2>2. op'[t] \in Calls /\ op'[t].key = k /\ op'[t].new = op[t].new
    BY <2>1, <1>3, SMTT(60) DEF Calls, AfterReserve, CallPcs
  <2>3. \A u \in Threads \ {t} :
          op'[u] = IF op[u].pc \in {"delete", "remove"} /\ op[u].key \in KeysOf(r)
                   THEN [op[u] EXCEPT !.live = FALSE] ELSE op[u]
    BY <1>1, ZenonT(60) DEF Stale
  <2>4. ASSUME NEW u \in Threads \ {t}
        PROVE  /\ op'[u] \in Ops
               /\ op'[u].pc = op[u].pc
               /\ InCall(u) => op'[u] = op[u]
               /\ op[u].pc \in {"delete", "remove"} => op'[u].key = op[u].key
               /\ op[u].pc \notin {"delete", "remove"} => op'[u] = op[u]
    <3>1. op[u] \in Ops
      BY DEF UseInv, ShapeInv
    <3>2. CASE op[u].pc \in {"delete", "remove"}
      <4>1. op[u] \in [pc : {"delete", "remove"}, key : Chunks, todo : SUBSET Chunks, live : BOOLEAN]
        BY <3>1, <3>2 DEF Ops, Idle, CallPcs
      <4> QED BY <4>1, <2>3, ZenonT(60) DEF Ops, InCall, CallPcs
    <3>3. CASE op[u].pc \notin {"delete", "remove"}
      BY <3>1, <3>3, <2>3, ZenonT(60)
    <3> QED BY <3>2, <3>3
  <2>5. op' \in [Threads -> Ops]
    BY <1>1, <2>2, <2>4 DEF Stale, Ops, Calls
  <2> QED BY <2>2, <2>4, <2>5 DEF InCall, Calls
<1>9. ShapeInv'
  BY <1>2, <1>7, <1>8 DEF UseInv, ShapeInv
<1>10. SizedInv'
  <2>1. \A c \in unsized' \cap DOMAIN buffers' : buffers'[c].pages = 0
    BY <1>1, <1>6, ZenonT(60) DEF UseInv, SizedInv
  <2>2. \A u \in Threads : held'[u] \cap unsized' = {}
    BY <1>1, <1>2 DEF UseInv, SizedInv
  <2>3. \A u \in Threads : op'[u].pc \in {"fetch", "done"} => op'[u].key \notin unsized'
    BY <1>1, <1>8, SMTT(60) DEF UseInv, SizedInv
  <2> QED BY <2>1, <2>2, <2>3 DEF SizedInv
<1> QED BY <1>1, <1>2, <1>5, <1>6, <1>7, <1>8, <1>9, <1>10, InCallStep

\* Fewer users and the same pins.
LEMMA PinShrinks ==
  ASSUME UseInv,
         \A c \in Keys : /\ Users(c)' \subseteq Users(c)
                         /\ Users(c)' # {} => /\ c \in DOMAIN buffers' /\ c \in chunk_index'
                                              /\ buffers'[c].pins = buffers[c].pins
  PROVE  PinInv'
<1> SUFFICES ASSUME NEW c \in Keys, Users(c)' # {}
             PROVE  buffers'[c].pins >= Cardinality(Users(c)')
  BY DEF PinInv
<1>1. Users(c) \in SUBSET Threads /\ Users(c)' \in SUBSET Users(c) /\ Users(c)' \in SUBSET Threads
  BY DEF Users
<1>2. /\ Cardinality(Users(c)) \in Nat /\ Cardinality(Users(c)') \in Nat
      /\ Cardinality(Users(c)') <= Cardinality(Users(c))
  BY <1>1, UsersCount, ZenonT(60)
<1>3. c \in DOMAIN buffers /\ buffers[c].pins >= Cardinality(Users(c)) /\ buffers[c].pins \in Int
  BY <1>1 DEF UseInv, PinInv, ShapeInv
<1> QED BY <1>2, <1>3

\* A call returns, and only its own locks are released.
LEMMA ReturnShape ==
  ASSUME UseInv, NEW t \in Threads, return(t)
  PROVE  /\ op' \in [Threads -> Ops] /\ op'[t] = Idle /\ ~InCall(t)' /\ op'[t].pc = "idle"
         /\ \A u \in Threads \ {t} : op'[u] = op[u]
         /\ chunk_mutex' \in [Keys -> Threads \cup {Nobody}]
         /\ \A u \in Threads \ {t} : \A c \in Keys : chunk_mutex[c] = u => chunk_mutex'[c] = u
<1>1. op' = [op EXCEPT ![t] = Idle] /\ op \in [Threads -> Ops] /\ Idle \in Ops
  BY DEF return, UseInv, ShapeInv, Ops
<1>2. /\ chunk_mutex' \in [Keys -> Threads \cup {Nobody}]
      /\ \A u \in Threads \ {t} : \A c \in Keys : chunk_mutex[c] = u => chunk_mutex'[c] = u
  BY DEF return, UseInv, ShapeInv
<1> QED BY <1>1, <1>2 DEF InCall, Idle, CallPcs

\* After LOG(FATAL) the pool is as it was at the start.
LEMMA FatalKeeps == fatal => UseInv'
<1> SUFFICES ASSUME fatal PROVE UseInv'
  OBVIOUS
<1>1. \A t \in Threads : op'[t] = Idle /\ held'[t] = {}
  BY DEF fatal
<1>2. \A k : Users(k)' = {}
  BY <1>1 DEF Users, InCall, CallPcs, Idle
<1>3. ShapeInv'
  BY DEF fatal, emptyPool, ShapeInv, Ops
<1>4. PinInv'
  BY <1>2 DEF PinInv
<1>5. OwnerInv'
  BY <1>1, <1>2 DEF OwnerInv, InCall, CallPcs, Idle
<1>6. SizedInv'
  BY <1>1 DEF SizedInv, Idle, fatal, emptyPool
<1> QED BY <1>3, <1>4, <1>5, <1>6 DEF UseInv

\* A call that fails takes only a buffer that it made itself with it (OutOfMemory,
\* ForeignStorageException).
LEMMA FailKeeps ==
  ASSUME UseInv, NEW t \in Threads, OutOfMemory(t) \/ ForeignStorageException(t)
  PROVE  UseInv'
<1> DEFINE k == op[t].key
<1>1. InCall(t)
  BY DEF OutOfMemory, ForeignStorageException, InCall, CallPcs
<1>2. k \in Keys /\ k \notin held[t]
  BY <1>1, InCallFacts DEF UseInv, OwnerInv
<1>3. CASE fatal
  BY <1>3, FatalKeeps, SMTT(60)
<1>4. CASE /\ return(t) /\ held' = held
           /\ \/ op[t].new /\ deleteBufferUnlocked(k)
              \/ UNCHANGED pool
  <2>1. /\ op' \in [Threads -> Ops] /\ ~InCall(t)' /\ op'[t].pc = "idle"
        /\ \A u \in Threads \ {t} : op'[u] = op[u]
        /\ chunk_mutex' \in [Keys -> Threads \cup {Nobody}]
        /\ \A u \in Threads \ {t} : \A c \in Keys : chunk_mutex[c] = u => chunk_mutex'[c] = u
    BY <1>4, ReturnShape
  <2>2. \A u \in Threads \ {t} : InCall(u)' = InCall(u)
    BY <2>1 DEF InCall
  <2>3. \A c \in Keys : Users(c)' \subseteq Users(c) \ (IF c = k THEN {t} ELSE {})
    BY <2>1, <2>2, <1>2, <1>4 DEF Users
  <2>4. \/ /\ Users(k) \subseteq {t} /\ DOMAIN buffers' = DOMAIN buffers \ {k}
           /\ chunk_index' = chunk_index \ {k}
        \/ DOMAIN buffers' = DOMAIN buffers /\ chunk_index' = chunk_index
    BY <1>1, <1>4 DEF UseInv, OwnerInv, deleteBufferUnlocked, Without, pool
  <2>5. /\ \A c \in DOMAIN buffers' : c \in DOMAIN buffers /\ buffers'[c] = buffers[c]
        /\ unsized' \subseteq unsized
    BY <1>4 DEF deleteBufferUnlocked, Without, pool
  <2>6. PinInv'
    <3>1. \A c \in Keys : Users(c)' # {} =>
            c \in DOMAIN buffers' /\ c \in chunk_index' /\ buffers'[c].pins = buffers[c].pins
      BY <2>3, <2>4, <2>5 DEF UseInv, PinInv
    <3> QED BY <3>1, <2>3, PinShrinks, SMTT(60)
  <2>7. ShapeInv'
    BY <2>1, <2>5, <1>4, SMTT(60) DEF UseInv, ShapeInv
  <2>8. SizedInv'
    BY <2>1, <2>5, <1>4 DEF UseInv, SizedInv
  <2> QED BY <2>1, <2>6, <2>7, <2>8, <1>4, Leaves, SMTT(60)
<1> QED BY <1>3, <1>4, SMTT(60) DEF OutOfMemory, ForeignStorageException, throws

\* t gives its pin of k back: the other users still have theirs (unPin).
LEMMA Unpins ==
  ASSUME UseInv, NEW t \in Threads, NEW k \in Keys, t \in Users(k),
         \A c \in Keys : Users(c)' = IF c = k THEN Users(c) \ {t} ELSE Users(c),
         buffers' = [buffers EXCEPT ![k] = unPin(@)], chunk_index' = chunk_index
  PROVE  /\ PinInv'
         /\ DOMAIN buffers' = DOMAIN buffers
         /\ \A c \in DOMAIN buffers : /\ buffers'[c] \in [pins : Nat, pages : Nat, size : Nat]
                                      /\ buffers'[c].pages = buffers[c].pages
<1>1. k \in DOMAIN buffers /\ buffers[k] \in [pins : Nat, pages : Nat, size : Nat]
      /\ buffers[k].pins >= Cardinality(Users(k))
  BY DEF UseInv, PinInv, ShapeInv
<1>2. /\ DOMAIN buffers' = DOMAIN buffers
      /\ buffers'[k] = [buffers[k] EXCEPT !.pins = @ - 1]
      /\ \A c \in DOMAIN buffers \ {k} : buffers'[c] = buffers[c]
  BY <1>1 DEF unPin
<1>3. Users(k) \in SUBSET Threads
  BY DEF Users
<1>4. /\ Cardinality(Users(k) \ {t}) = Cardinality(Users(k)) - 1
      /\ Cardinality(Users(k)) \in Nat /\ Cardinality(Users(k)) > 0
  BY <1>3, UsersCount, SMTT(60)
<1>5. buffers'[k].pins = buffers[k].pins - 1 /\ buffers[k].pins - 1 \in Nat
  BY <1>1, <1>2, <1>4
<1>6. \A c \in DOMAIN buffers : /\ buffers'[c] \in [pins : Nat, pages : Nat, size : Nat]
                                /\ buffers'[c].pages = buffers[c].pages
  BY <1>1, <1>2, <1>5, SMTT(60) DEF UseInv, ShapeInv
<1>7. buffers'[k].pins >= Cardinality(Users(k)')
  BY <1>1, <1>4, <1>5, SMTT(60)
<1>8. PinInv'
  BY <1>2, <1>7, SMTT(60) DEF UseInv, PinInv
<1> QED BY <1>2, <1>6, <1>8, SMTT(60)

\* A caller gives a buffer back.
LEMMA ReleaseKeeps ==
  ASSUME UseInv, NEW t \in Threads, NEW k \in Chunks, release(t, k)
  PROVE  UseInv'
<1>1. /\ k \in Keys /\ k \in held[t] /\ op[t] = Idle
      /\ op' = op /\ chunk_mutex' = chunk_mutex /\ unsized' = unsized /\ chunk_index' = chunk_index
      /\ held' = [held EXCEPT ![t] = @ \ {k}]
      /\ buffers' = [buffers EXCEPT ![k] = unPin(@)]
  BY DEF release, Keys
<1>2. ~InCall(t) /\ \A u \in Threads : InCall(u)' = InCall(u)
  BY <1>1 DEF InCall, CallPcs, Idle
<1>3. /\ held' \in [Threads -> SUBSET Keys]
      /\ \A u \in Threads : held'[u] = IF u = t THEN held[u] \ {k} ELSE held[u]
  BY <1>1, ZenonT(60) DEF UseInv, ShapeInv
<1>4. \A c \in Keys : Users(c)' = IF c = k THEN Users(c) \ {t} ELSE Users(c)
  BY <1>1, <1>2, <1>3 DEF Users
<1>5. t \in Users(k)
  BY <1>1 DEF Users
<1>6. /\ PinInv'
      /\ DOMAIN buffers' = DOMAIN buffers
      /\ \A c \in DOMAIN buffers : /\ buffers'[c] \in [pins : Nat, pages : Nat, size : Nat]
                                   /\ buffers'[c].pages = buffers[c].pages
  BY <1>1, <1>4, <1>5, Unpins, ZenonT(60)
<1>7. ShapeInv'
  BY <1>1, <1>3, <1>6 DEF UseInv, ShapeInv
<1>8. SizedInv'
  BY <1>1, <1>3, <1>6, SMTT(60) DEF UseInv, SizedInv
<1> QED BY <1>1, <1>3, <1>6, <1>7, <1>8, Leaves

\* A call returns its buffer to the caller, or copies it and unpins it (getBuffer, alloc
\* and fetchBuffer).
LEMMA FinishKeeps ==
  ASSUME UseInv, NEW t \in Threads, finish(t)
  PROVE  UseInv'
<1>1. InCall(t) /\ op[t].pc = "done"
  BY DEF finish, InCall, CallPcs
<1> SUFFICES ASSUME NEW k \in Keys, k = op[t].key PROVE UseInv'
  BY <1>1, InCallFacts, SMTT(60)
<1>2. k \in Keys /\ t \in Users(k) /\ k \notin held[t] /\ k \notin unsized /\ chunk_mutex[k] = t
  BY <1>1, InCallFacts, SMTT(60) DEF UseInv, OwnerInv, SizedInv
<1>3. /\ op' \in [Threads -> Ops] /\ ~InCall(t)' /\ op'[t].pc = "idle"
      /\ \A u \in Threads \ {t} : op'[u] = op[u]
      /\ chunk_mutex' \in [Keys -> Threads \cup {Nobody}]
      /\ \A u \in Threads \ {t} : \A c \in Keys : chunk_mutex[c] = u => chunk_mutex'[c] = u
  BY ReturnShape, SMTT(60) DEF finish
<1>4. unsized' = unsized /\ chunk_index' = chunk_index
  BY DEF finish
<1>5. \A u \in Threads \ {t} : InCall(u)' = InCall(u)
  BY <1>3, SMTT(60) DEF InCall
<1>6. CASE op[t].call = "fetchBuffer"
  <2>1. buffers' = [buffers EXCEPT ![k] = unPin(@)] /\ held' = held
    BY <1>6, SMTT(60) DEF finish
  <2>2. \A c \in Keys : Users(c)' = IF c = k THEN Users(c) \ {t} ELSE Users(c)
    BY <2>1, <1>1, <1>2, <1>3, <1>5 DEF Users
  <2>3. /\ PinInv'
        /\ DOMAIN buffers' = DOMAIN buffers
        /\ \A c \in DOMAIN buffers : /\ buffers'[c] \in [pins : Nat, pages : Nat, size : Nat]
                                     /\ buffers'[c].pages = buffers[c].pages
    BY <2>1, <2>2, <1>2, <1>4, Unpins, ZenonT(60)
  <2>4. ShapeInv'
    BY <2>1, <2>3, <1>3 DEF UseInv, ShapeInv
  <2>5. SizedInv'
    BY <2>1, <2>3, <1>3, <1>4 DEF UseInv, SizedInv
  <2> QED BY <2>1, <2>3, <2>4, <2>5, <1>3, Leaves
<1>7. CASE op[t].call # "fetchBuffer"
  <2>1. held' = [held EXCEPT ![t] = @ \cup {k}] /\ buffers' = buffers
    BY <1>7 DEF finish
  <2>2. /\ held' \in [Threads -> SUBSET Keys]
        /\ \A u \in Threads : held'[u] = IF u = t THEN held[u] \cup {k} ELSE held[u]
    BY <2>1, <1>2, ZenonT(60) DEF UseInv, ShapeInv
  <2>3. \A c \in Keys : Users(c)' = Users(c)
    BY <2>2, <1>1, <1>2, <1>3, <1>5 DEF Users
  <2>4. PinInv'
    BY <2>1, <2>3, <1>4 DEF UseInv, PinInv
  <2>5. ShapeInv'
    BY <2>1, <2>2, <1>3 DEF UseInv, ShapeInv
  <2>6. SizedInv'
    BY <2>1, <2>2, <1>2, <1>3, <1>4 DEF UseInv, SizedInv
  <2>7. \A u \in Threads \ {t} : InCall(u) \/ op[u].pc \in {"delete", "remove"} => op[u].key # k
    BY <1>2, SMTT(60) DEF UseInv, OwnerInv
  <2>8. k \in Temporaries => \A u, v \in Users(k)' : u = v
    BY <2>3, <1>2, SMTT(60) DEF UseInv, OwnerInv
  <2> QED BY <2>2, <2>4, <2>5, <2>6, <2>7, <2>8, <1>1, <1>2, <1>3, OwnStep
<1> QED BY <1>6, <1>7, SMTT(60)

\* free deletes a buffer of alloc, whose only user is the caller.
LEMMA FreeKeeps ==
  ASSUME UseInv, NEW t \in Threads, NEW k \in Temporaries, free(t, k)
  PROVE  UseInv'
<1>1. /\ k \in Keys /\ k \in held[t]
      /\ op' = op /\ chunk_mutex' = chunk_mutex
      /\ unsized' = unsized \ {k} /\ chunk_index' = chunk_index \ {k}
      /\ held' = [held EXCEPT ![t] = @ \ {k}]
      /\ buffers' = [c \in DOMAIN buffers \ {k} |-> buffers[c]]
  BY DEF free, deleteBufferUnlocked, Without, Keys
<1>2. \A u \in Threads : InCall(u)' = InCall(u)
  BY <1>1 DEF InCall
<1>3. /\ held' \in [Threads -> SUBSET Keys]
      /\ \A u \in Threads : held'[u] = IF u = t THEN held[u] \ {k} ELSE held[u]
  BY <1>1, ZenonT(60) DEF UseInv, ShapeInv
<1>4. Users(k) \subseteq {t} /\ ~(InCall(t) /\ op[t].key = k)
  BY <1>1 DEF UseInv, OwnerInv, Users
<1>5. Users(k)' = {}
  BY <1>1, <1>2, <1>3, <1>4 DEF Users
<1>6. \A c \in Keys \ {k} : Users(c)' = Users(c)
  BY <1>1, <1>2, <1>3, SMTT(60) DEF Users
<1>7. \A c \in DOMAIN buffers \ {k} : c \in DOMAIN buffers' /\ buffers'[c] = buffers[c]
  BY <1>1, SMTT(60)
<1>8. PinInv'
  BY <1>1, <1>5, <1>6, <1>7 DEF UseInv, PinInv
<1>9. ShapeInv'
  BY <1>1, <1>3, SMTT(60) DEF UseInv, ShapeInv
<1>10. SizedInv'
  BY <1>1, <1>3 DEF UseInv, SizedInv
<1> QED BY <1>1, <1>3, <1>8, <1>9, <1>10, Leaves, SMTT(60)

\* clearSlabs frees buffers that nobody has pinned.
LEMMA ClearKeeps ==
  ASSUME UseInv, clearSlabs
  PROVE  UseInv'
<1> DEFINE used == DOMAIN buffers \ unsized
           unpinned == {k \in used : buffers[k].pins < 1}
<1>1. /\ \A t \in Threads : op[t] = Idle
      /\ op' = op /\ chunk_mutex' = chunk_mutex /\ held' = held
  BY DEF clearSlabs
<1>2. \A t \in Threads : ~InCall(t) /\ ~InCall(t)' /\ op'[t].pc = "idle"
  BY <1>1 DEF InCall, CallPcs, Idle
<1>3. \A c \in Keys : Users(c)' = Users(c)
  BY <1>1, <1>2 DEF Users
<1>4. \A c \in Keys \cap unpinned : Users(c) = {}
  BY NoPinNoUser
<1>5. \A c \in Keys : Users(c) # {} => c \in used
  BY <1>2, ZenonT(60) DEF UseInv, PinInv, SizedInv, Users
<1>6. CASE used = unpinned
  <2>1. buffers' = <<>> /\ unsized' = {}
    BY <1>6 DEF clearSlabs, emptyPool
  <2>2. \A c \in Keys : Users(c)' = {}
    BY <1>3, <1>4, <1>5, <1>6, SMTT(60)
  <2>3. DOMAIN buffers' = {}
    BY <2>1
  <2>4. PinInv'
    BY <2>2 DEF PinInv
  <2>5. ShapeInv'
    BY <2>3, <1>1, SMTT(60) DEF UseInv, ShapeInv
  <2>6. SizedInv'
    BY <2>1, <1>2 DEF SizedInv
  <2> QED BY <2>4, <2>5, <2>6, <1>1, <1>2, Leaves
<1>7. CASE used # unpinned
  <2>1. /\ buffers' = [c \in DOMAIN buffers \ unpinned |-> buffers[c]]
        /\ chunk_index' = chunk_index \ unpinned /\ unsized' = unsized
    BY <1>7 DEF clearSlabs, Without
  <2>2. \A c \in DOMAIN buffers' : c \in DOMAIN buffers /\ buffers'[c] = buffers[c]
    BY <2>1
  <2>3. \A c \in Keys : Users(c) # {} => c \in DOMAIN buffers' /\ c \in chunk_index'
    BY <2>1, <1>4, SMTT(60) DEF UseInv, PinInv
  <2>4. PinInv'
    BY <2>2, <2>3, <1>3 DEF UseInv, PinInv
  <2>5. ShapeInv'
    BY <2>2, <1>1, SMTT(60) DEF UseInv, ShapeInv
  <2>6. SizedInv'
    BY <2>1, <2>2, <1>1 DEF UseInv, SizedInv
  <2> QED BY <2>4, <2>5, <2>6, <1>1, <1>2, Leaves
<1> QED BY <1>6, <1>7
=============================================================================
