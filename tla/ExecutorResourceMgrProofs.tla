---------------------- MODULE ExecutorResourceMgrProofs ----------------------
(***************************************************************************)
(* Proofs about ExecutorResourceMgr for every configuration, workload and  *)
(* number of query and administrative threads: the counters agree with the *)
(* stages, what is allocated belongs to an executing request, and a paused *)
(* queue means an idle pool.                                               *)
(*                                                                         *)
(* None of the three is inductive by itself.  That a request is taken off  *)
(* a stage once, and returned to the pool once, rests on who owns its id:  *)
(* the queue thread from the moment it dequeues the request until it wakes *)
(* it, the ready semaphore from then on, and the query thread once it has  *)
(* acquired that.                                                          *)
(***************************************************************************)
EXTENDS ExecutorResourceMgr, FiniteSetTheorems, TLAPS

USE SMTT(60)

Entries(s) == {s[i] : i \in DOMAIN s}
StatFields == {"info", "min", "max", "actual", "finished_queueing", "timed_out", "error"}
ThreadFields == {"pc", "id", "info", "min", "max"}

CountersShape ==
  /\ DOMAIN executor_stats_ = {"queue_length", "requests_executing", "requests_executed",
                               "requests_timed_out", "device_executing"}
  /\ \A c \in {"queue_length", "requests_executing", "requests_executed", "requests_timed_out"} :
       executor_stats_[c] \in Int

\* The shape of what the threads share.
ShapeInv ==
  /\ requests_stats_ \in Seq(Entries(requests_stats_))
  /\ \A id \in Ids : DOMAIN requests_stats_[id] = StatFields
  /\ CountersShape
  /\ DOMAIN query = Clients
  /\ \A q \in Clients : DOMAIN query[q] = ThreadFields
  /\ DOMAIN queue = {"pc", "id"}
  /\ "outstanding" \in DOMAIN pool

StagesInv ==
  /\ queued_requests_ \subseteq Ids /\ IsFiniteSet(queued_requests_)
  /\ executing_requests_ \subseteq Ids /\ IsFiniteSet(executing_requests_)
  /\ StagesMatchCounters

Ready(id) == id \in DOMAIN outstanding_requests_map_ /\ outstanding_requests_map_[id]
Running(q) == query[q].pc \in {"woken", "errored", "executing", "deallocated"}
Granting == queue.pc \in {"allocate", "wake"}

\* Every request has one owner at a time.
OwnerInv ==
  /\ \A q \in Clients : Current(q) => query[q].id \in Ids
  /\ \A q, r \in Clients : q # r /\ Current(q) /\ Current(r) => query[q].id # query[r].id
  /\ \A q \in Clients : query[q].pc \in {"waiting", "expired"} =>
       query[q].id \in DOMAIN outstanding_requests_map_
  /\ \A id \in DOMAIN outstanding_requests_map_ : Ready(id) => id \in executing_requests_
  /\ \A q \in Clients : Running(q) => query[q].id \in executing_requests_ /\ ~Ready(query[q].id)
  /\ Granting => /\ queue.id \in executing_requests_
                 /\ ~Ready(queue.id)
                 /\ \A q \in Clients : Running(q) => query[q].id # queue.id

PausedInv ==
  process_queue_is_paused_ =>
    pause_process_queue_ /\ queue.pc \in {"wait", "stopped"} /\ executing_requests_ = {}

Refused(id) == requests_stats_[id].error # "none"

\* What a request that is executing has of the pool, by the state of its owner.
HeldInv ==
  /\ pool.outstanding = Cardinality(DOMAIN held)
  /\ DOMAIN held \subseteq executing_requests_
  /\ \A id \in DOMAIN held : ~Refused(id)
  /\ \A id \in DOMAIN outstanding_requests_map_ : Ready(id) => Refused(id) \/ id \in DOMAIN held
  /\ queue.pc = "allocate" => queue.id \notin DOMAIN held
  /\ queue.pc = "wake" => Refused(queue.id) \/ queue.id \in DOMAIN held
  /\ \A q \in Clients :
       /\ query[q].pc = "woken" => Refused(query[q].id) \/ query[q].id \in DOMAIN held
       /\ query[q].pc = "errored" => Refused(query[q].id)
       /\ query[q].pc = "executing" => query[q].id \in DOMAIN held
       /\ query[q].pc = "deallocated" => query[q].id \notin DOMAIN held

IInv == ShapeInv /\ StagesInv /\ OwnerInv /\ PausedInv /\ HeldInv

-----------------------------------------------------------------------------
(***************************************************************************)
(* Sequences whose elements are of any kind, and the pool.                 *)
(***************************************************************************)
\* A sequence is a sequence over its own entries.
LEMMA OwnEntries ==
  ASSUME NEW S, NEW t \in Seq(S)
  PROVE  t \in Seq(Entries(t))
BY DEF Entries

\* Appending to the statistics keeps the entries there are (enqueue_request).
LEMMA AppendEntry ==
  ASSUME NEW s, s \in Seq(Entries(s)), NEW e
  PROVE  LET t == Append(s, e)
         IN /\ t \in Seq(Entries(t))
            /\ Len(t) = Len(s) + 1 /\ Len(s) \in Nat
            /\ \A i \in 1 .. Len(s) : t[i] = s[i]
            /\ t[Len(s) + 1] = e
<1> DEFINE S == Entries(s) \cup {e}
           t == Append(s, e)
<1>1. s \in Seq(S)
  OBVIOUS
<1>2. /\ t \in Seq(S) /\ Len(t) = Len(s) + 1 /\ Len(s) \in Nat
      /\ \A i \in 1 .. Len(s) : t[i] = s[i]
      /\ t[Len(s) + 1] = e
  BY <1>1
<1>3. t \in Seq(Entries(t))
  <2> HIDE DEF t
  <2> QED BY <1>2 DEF Entries
<1> QED BY <1>2, <1>3

\* Updating an entry keeps the others (mark_request_dequed, mark_request_error).
LEMMA UpdateEntry ==
  ASSUME requests_stats_ \in Seq(Entries(requests_stats_)), NEW k \in Ids, NEW e,
         requests_stats_' = [requests_stats_ EXCEPT ![k] = e]
  PROVE  /\ requests_stats_' \in Seq(Entries(requests_stats_'))
         /\ Len(requests_stats_') = Len(requests_stats_) /\ Len(requests_stats_) \in Nat
         /\ \A i \in Ids : i # k => requests_stats_'[i] = requests_stats_[i]
         /\ requests_stats_'[k] = e
<1> DEFINE S == Entries(requests_stats_) \cup {e}
<1>1. requests_stats_ \in Seq(S)
  OBVIOUS
<1>2. /\ requests_stats_' \in Seq(S) /\ Len(requests_stats_') = Len(requests_stats_)
      /\ Len(requests_stats_) \in Nat
      /\ \A i \in Ids : i # k => requests_stats_'[i] = requests_stats_[i]
      /\ requests_stats_'[k] = e
  BY <1>1 DEF Ids
<1>3. requests_stats_' \in Seq(Entries(requests_stats_'))
  BY <1>2, OwnEntries, Zenon
<1> QED BY <1>2, <1>3

\* Allocating and returning a grant count it (allocate_resources, deallocate_resources).
LEMMA OutstandingCounts ==
  ASSUME NEW p, "outstanding" \in DOMAIN p, NEW g, NEW r
  PROVE  /\ "outstanding" \in DOMAIN allocate_resources(p, g, r)
         /\ allocate_resources(p, g, r).outstanding = p.outstanding + 1
         /\ "outstanding" \in DOMAIN deallocate_resources(p, g, r)
         /\ deallocate_resources(p, g, r).outstanding = p.outstanding - 1
<1>1. ASSUME NEW chunks, NEW n
      PROVE /\ "outstanding" \in DOMAIN account(p, g, r, chunks, n)
            /\ account(p, g, r, chunks, n).outstanding = p.outstanding + n
  BY DEF account
<1> QED BY <1>1, Zenon DEF allocate_resources, deallocate_resources

\* The invariant holds of a new resource manager (its constructor).
LEMMA IInvInit == Init => IInv
<1> SUFFICES ASSUME Init PROVE IInv
  OBVIOUS
<1>1. "outstanding" \in DOMAIN pool /\ pool.outstanding = 0
  <2>1. PICK c \in Configs : pool = generate_executor_resource_mgr(c)
    BY DEF Init, PoolInit
  <2>2. /\ "outstanding" \in DOMAIN generate_executor_resource_mgr(c)
        /\ generate_executor_resource_mgr(c).outstanding = 0
    BY DEF generate_executor_resource_mgr
  <2> QED BY <2>1, <2>2
<1>2. held = <<>> /\ requests_stats_ = <<>>
  BY DEF Init, PoolInit
<1> USE DEF Ids
<1>3. ShapeInv
  <2>1. <<>> \in Seq(Entries(<<>>)) /\ Len(<<>>) = 0
    OBVIOUS
  <2>2. /\ DOMAIN query = Clients
        /\ \A q \in Clients : DOMAIN query[q] = ThreadFields
        /\ DOMAIN queue = {"pc", "id"}
    BY DEF Init, ThreadFields
  <2>3. CountersShape
    BY DEF Init, CountersShape
  <2> QED BY <1>1, <1>2, <2>1, <2>2, <2>3 DEF ShapeInv
<1>4. StagesInv
  BY FS_EmptySet DEF Init, StagesInv, StagesMatchCounters
<1>5. OwnerInv
  BY DEF Init, OwnerInv, Current, Ready, Running, Granting
<1>6. PausedInv
  BY DEF Init, PausedInv
<1>7. HeldInv
  <2>1. DOMAIN held = {} /\ DOMAIN outstanding_requests_map_ = {}
    BY <1>2 DEF Init
  <2>2. queue.pc = "wait" /\ \A q \in Clients : query[q].pc = "idle"
    BY DEF Init
  <2> QED BY <1>1, <2>1, <2>2, FS_EmptySet, ZenonT(60) DEF HeldInv
<1> QED BY <1>3, <1>4, <1>5, <1>6, <1>7 DEF IInv

-----------------------------------------------------------------------------
(***************************************************************************)
(* A query thread that moves on and touches nothing of what is shared.     *)
(***************************************************************************)
CurrentPCs == {"enqueued", "notified", "waiting", "woken", "errored", "executing",
               "deallocated", "expired", "marking"}

\* A thread that gives up its request, or goes on with it without touching the stages,
\* the semaphores or the pool, keeps the invariant.
LEMMA ThreadMoves ==
  ASSUME IInv, NEW q \in Clients, NEW t, DOMAIN t = ThreadFields,
         query' = [query EXCEPT ![q] = t],
         UNCHANGED <<stages, outstanding_requests_map_, queue, poolState,
                     pause_process_queue_, process_queue_is_paused_>>,
         \/ t.pc \notin CurrentPCs
         \/ /\ Current(q) /\ t.id = query[q].id
            /\ \/ t.pc = "notified"
               \/ query[q].pc = "waiting" /\ t.pc = "expired"
               \/ query[q].pc = "woken" /\ Refused(t.id) /\ t.pc = "errored"
               \/ query[q].pc = "woken" /\ ~Refused(t.id) /\ t.pc = "executing"
  PROVE  IInv'
<1> USE DEF IInv, stages, poolState
<1>1. /\ query'[q] = t
      /\ \A r \in Clients \ {q} : query'[r] = query[r]
      /\ DOMAIN query' = Clients
  BY DEF ShapeInv
<1>2. Ids' = Ids
  BY DEF Ids
<1>3. ShapeInv'
  BY <1>1, <1>2 DEF ShapeInv, CountersShape
<1>4. StagesInv'
  BY <1>2, Zenon DEF StagesInv, StagesMatchCounters
<1>5. OwnerInv'
  <2>1. \A r \in Clients : Current(r)' => Current(r) /\ query'[r].id = query[r].id
    BY <1>1 DEF Current, CurrentPCs
  <2>2. \A r \in Clients : Running(r)' => Running(r) /\ query'[r].id = query[r].id
    BY <1>1 DEF Running, CurrentPCs
  <2>3. \A r \in Clients : query'[r].pc \in {"waiting", "expired"} =>
          query[r].pc \in {"waiting", "expired"} /\ query'[r].id = query[r].id
    BY <1>1 DEF CurrentPCs
  <2>4. /\ \A id : Ready(id)' <=> Ready(id)
        /\ Granting' <=> Granting
    BY DEF Ready, Granting
  <2> QED BY <1>2, <2>1, <2>2, <2>3, <2>4 DEF OwnerInv
<1>6. PausedInv'
  BY Zenon DEF PausedInv
<1>7. HeldInv'
  <2>1. \A id : (Ready(id)' <=> Ready(id)) /\ (Refused(id)' <=> Refused(id))
    BY DEF Ready, Refused
  <2>2. \A r \in Clients :
          /\ query'[r].pc = "woken" => query[r] = query'[r]
          /\ query'[r].pc = "errored" => query[r] = query'[r] \/ Refused(query'[r].id)
          /\ query'[r].pc = "executing" => 
               \/ query[r] = query'[r]
               \/ query'[r].id \in DOMAIN held
          /\ query'[r].pc = "deallocated" => query[r] = query'[r]
    BY <1>1, ZenonT(60) DEF CurrentPCs, HeldInv
  <2> QED BY <2>1, <2>2, ZenonT(60) DEF HeldInv
<1> QED BY <1>3, <1>4, <1>5, <1>6, <1>7, ZenonT(60)

\* A step that touches nothing the invariant is about.
LEMMA NothingShared ==
  ASSUME IInv, UNCHANGED <<stages, outstanding_requests_map_, queue, query, poolState,
                           pause_process_queue_, process_queue_is_paused_>>
  PROVE  IInv'
BY DEF IInv, ShapeInv, StagesInv, OwnerInv, PausedInv, HeldInv, StagesMatchCounters, Ids,
       Current, Ready, Running, Granting, Refused, CountersShape, stages, poolState

\* What raise leaves of a thread is not a current request.
LEMMA RaiseLeaves ==
  ASSUME NEW q \in Clients, NEW info, NEW error, raise(q, info, error)
  PROVE  \E t : /\ query' = [query EXCEPT ![q] = t]
                /\ DOMAIN t = ThreadFields /\ t.pc \notin CurrentPCs
<1> DEFINE failed == [pc |-> "failed", id |-> 0, min |-> NoGrant, max |-> NoGrant,
                      info |-> NoInfo]
           t == IF q \in TimedClients THEN failed ELSE after_error(info, error)
<1>1. query' = [query EXCEPT ![q] = t]
  BY Zenon DEF raise
<1>2. DOMAIN failed = ThreadFields /\ failed.pc = "failed"
  BY DEF ThreadFields
<1>3. /\ DOMAIN after_error(info, error) = ThreadFields
      /\ after_error(info, error).pc \in {"retry", "failed"}
  <2>1. \E i : after_error(info, error) \in
          {[pc |-> "retry", id |-> 0, min |-> NoGrant, max |-> NoGrant, info |-> i], failed}
    BY Zenon DEF after_error
  <2> QED BY <2>1 DEF ThreadFields
<1> HIDE DEF failed
<1>4. DOMAIN t = ThreadFields /\ t.pc \notin CurrentPCs
  BY <1>2, <1>3 DEF CurrentPCs
<1> QED BY <1>1, <1>4, Zenon

\* Working out the bounds of a grant, or failing to, concerns the calling thread only
\* (request_resources, before the request is queued).
LEMMA CalculateStep ==
  ASSUME IInv, NEW q \in Clients, NEW info, Calculate(q, info)
  PROVE  IInv'
<1>1. UNCHANGED <<stages, outstanding_requests_map_, queue, poolState,
                  pause_process_queue_, process_queue_is_paused_>>
  BY DEF Calculate, flags
<1>2. CASE \E min, max : query' = [query EXCEPT ![q] = [pc |-> "calculated", id |-> 0,
                                                info |-> info, min |-> min, max |-> max]]
  <2>1. PICK min, max : query' = [query EXCEPT ![q] = [pc |-> "calculated", id |-> 0,
                                                info |-> info, min |-> min, max |-> max]]
    BY <1>2, Zenon
  <2> DEFINE t == [pc |-> "calculated", id |-> 0, info |-> info, min |-> min, max |-> max]
  <2>2. DOMAIN t = ThreadFields /\ t.pc \notin CurrentPCs
    BY DEF ThreadFields, CurrentPCs
  <2>3. query' = [query EXCEPT ![q] = t]
    BY <2>1
  <2> HIDE DEF t
  <2> QED BY <1>1, <2>2, <2>3, ThreadMoves, Zenon
<1>3. ASSUME NEW error, raise(q, info, error) PROVE IInv'
  <2>1. PICK t : /\ query' = [query EXCEPT ![q] = t]
                 /\ DOMAIN t = ThreadFields /\ t.pc \notin CurrentPCs
    BY <1>3, RaiseLeaves
  <2> QED BY <1>1, <2>1, ThreadMoves, Zenon
<1> QED BY <1>2, <1>3 DEF Calculate

\* Telling the queue thread that there is something to do, and the passing of a timeout
\* (set_process_queue_flag, try_acquire_for).
LEMMA FlagStep ==
  ASSUME IInv, NEW q \in Clients,
         \/ set_process_queue_flag(q, "enqueued", "notified")
         \/ set_process_queue_flag(q, "finished", "done")
         \/ expire(q)
  PROVE  IInv'
<1> DEFINE t(pc) == [query[q] EXCEPT !.pc = pc]
<1>1. UNCHANGED <<stages, outstanding_requests_map_, queue, poolState,
                  pause_process_queue_, process_queue_is_paused_>>
  BY DEF set_process_queue_flag, expire, flags
<1>2. ASSUME NEW pc, Goto(q, pc) PROVE query' = [query EXCEPT ![q] = t(pc)]
  BY <1>2 DEF Goto
<1>3. ASSUME NEW pc
      PROVE DOMAIN t(pc) = ThreadFields /\ t(pc).pc = pc /\ t(pc).id = query[q].id
  BY DEF IInv, ShapeInv, ThreadFields
<1> HIDE DEF t
<1>4. CASE set_process_queue_flag(q, "enqueued", "notified")
  <2>1. query' = [query EXCEPT ![q] = t("notified")] /\ Current(q)
    BY <1>2, <1>4 DEF set_process_queue_flag, Current
  <2> QED BY <1>1, <1>3, <2>1, ThreadMoves, Zenon
<1>5. CASE set_process_queue_flag(q, "finished", "done")
  <2>1. query' = [query EXCEPT ![q] = t("done")]
    BY <1>2, <1>5 DEF set_process_queue_flag
  <2>2. "done" \notin CurrentPCs
    BY DEF CurrentPCs
  <2> QED BY <1>1, <1>3, <2>1, <2>2, ThreadMoves, Zenon
<1>6. CASE expire(q)
  <2>1. query' = [query EXCEPT ![q] = t("expired")] /\ Current(q) /\ query[q].pc = "waiting"
    BY <1>2, <1>6, Zenon DEF expire, Current
  <2> QED BY <1>1, <1>3, <2>1, ThreadMoves, ZenonT(60)
<1> QED BY <1>4, <1>5, <1>6, ZenonT(60)

\* A thread that has been woken finds a grant or an error (request_resources_with_timeout).
LEMMA ReadGrantStep ==
  ASSUME IInv, NEW q \in Clients, read_grant(q)
  PROVE  IInv'
<1> DEFINE t(pc) == [query[q] EXCEPT !.pc = pc]
           id == query[q].id
           s == requests_stats_[id]
<1>1. UNCHANGED <<stages, outstanding_requests_map_, queue, poolState,
                  pause_process_queue_, process_queue_is_paused_>>
  BY Zenon DEF read_grant, flags
<1>2. ASSUME NEW pc, Goto(q, pc) PROVE query' = [query EXCEPT ![q] = t(pc)]
  BY <1>2 DEF Goto
<1>3. ASSUME NEW pc
      PROVE DOMAIN t(pc) = ThreadFields /\ t(pc).pc = pc /\ t(pc).id = id
  BY Zenon DEF IInv, ShapeInv, ThreadFields
<1>4. query[q].pc = "woken" /\ Current(q)
  BY Zenon DEF read_grant, Current
<1>5. \/ raise(q, s.info, s.error)
      \/ Refused(id) /\ Goto(q, "errored")
      \/ ~Refused(id) /\ Goto(q, "executing")
      \/ UNCHANGED query
  BY Zenon DEF read_grant, Refused
<1> HIDE DEF t, id, s
<1>6. CASE raise(q, s.info, s.error)
  <2>1. PICK u : /\ query' = [query EXCEPT ![q] = u]
                 /\ DOMAIN u = ThreadFields /\ u.pc \notin CurrentPCs
    BY <1>6, RaiseLeaves
  <2> QED BY <1>1, <2>1, ThreadMoves, ZenonT(60)
<1>7. CASE Refused(id) /\ Goto(q, "errored")
  BY <1>1, <1>2, <1>3, <1>4, <1>7, ThreadMoves DEF id
<1>8. CASE ~Refused(id) /\ Goto(q, "executing")
  BY <1>1, <1>2, <1>3, <1>4, <1>8, ThreadMoves DEF id
<1>9. CASE UNCHANGED query
  BY <1>1, <1>9, NothingShared
<1> QED BY <1>5, <1>6, <1>7, <1>8, <1>9

-----------------------------------------------------------------------------
(***************************************************************************)
(* The other steps of a query thread.                                      *)
(***************************************************************************)
\* A request enters stage QUEUED under an id of its own (enqueue_request).
LEMMA EnqueueStep ==
  ASSUME IInv, NEW q \in Clients, enqueue_request(q)
  PROVE  IInv'
<1> USE DEF IInv
<1> DEFINE id == Len(requests_stats_) + 1
           e == [info |-> query[q].info, min |-> query[q].min, max |-> query[q].max,
                 actual |-> NoGrant, finished_queueing |-> FALSE, timed_out |-> FALSE,
                 error |-> "none"]
           t == [[query[q] EXCEPT !.pc = "enqueued"] EXCEPT !.id = id]
<1>1. /\ query[q].pc = "calculated"
      /\ requests_stats_' = Append(requests_stats_, e)
      /\ queued_requests_' = queued_requests_ \cup {id}
      /\ executor_stats_' = [executor_stats_ EXCEPT !.queue_length = @ + 1]
      /\ UNCHANGED <<executing_requests_, outstanding_requests_map_, pause_process_queue_,
                     process_queue_is_paused_, queue, pool, held>>
  BY DEF enqueue_request, flags, poolState
<1>2. /\ query'[q] = t /\ DOMAIN t = ThreadFields /\ t.pc = "enqueued" /\ t.id = id
      /\ \A r \in Clients \ {q} : query'[r] = query[r]
      /\ DOMAIN query' = Clients
  BY DEF enqueue_request, ShapeInv, ThreadFields
<1>3. /\ requests_stats_' \in Seq(Entries(requests_stats_'))
      /\ Len(requests_stats_') = Len(requests_stats_) + 1 /\ Len(requests_stats_) \in Nat
      /\ \A i \in Ids : requests_stats_'[i] = requests_stats_[i]
      /\ requests_stats_'[id] = e
  BY <1>1, AppendEntry DEF ShapeInv, Ids
<1>4. DOMAIN e = StatFields
  BY DEF StatFields
<1> HIDE DEF e, t
<1>5. Ids' = Ids \cup {id} /\ id \notin Ids
  BY <1>3 DEF Ids
<1> HIDE DEF id
<1>6. ShapeInv'
  <2>1. CountersShape'
    BY <1>1 DEF ShapeInv, CountersShape
  <2> QED BY <1>1, <1>2, <1>3, <1>4, <1>5, <2>1, Zenon DEF ShapeInv
<1>7. StagesInv'
  <2>1. id \notin queued_requests_ /\ id \notin executing_requests_
    BY <1>5 DEF StagesInv
  <2>2. /\ IsFiniteSet(queued_requests_')
        /\ Cardinality(queued_requests_') = Cardinality(queued_requests_) + 1
    BY <1>1, <2>1, FS_AddElement DEF StagesInv
  <2>3. /\ executor_stats_'.queue_length = executor_stats_.queue_length + 1
        /\ executor_stats_'.requests_executing = executor_stats_.requests_executing
        /\ executor_stats_'.requests_executed = executor_stats_.requests_executed
        /\ executor_stats_'.requests_timed_out = executor_stats_.requests_timed_out
    BY <1>1 DEF ShapeInv, CountersShape
  <2>4. StagesMatchCounters /\ CountersShape
    BY Zenon DEF StagesInv, ShapeInv
  <2>5. StagesMatchCounters'
    BY <1>1, <1>3, <2>1, <2>2, <2>3, <2>4 DEF StagesMatchCounters, CountersShape
  <2> QED BY <1>1, <1>5, <2>2, <2>5, ZenonT(60) DEF StagesInv
<1>8. OwnerInv'
  <2>1. /\ \A r \in Clients \ {q} : (Current(r)' <=> Current(r)) /\ (Running(r)' <=> Running(r))
        /\ ~Running(q)'
        /\ \A i : Ready(i)' <=> Ready(i)
        /\ Granting' <=> Granting
    BY <1>1, <1>2 DEF Current, Running, Ready, Granting
  <2> QED BY <1>1, <1>2, <1>5, <2>1 DEF OwnerInv
<1>9. PausedInv'
  BY <1>1 DEF PausedInv
<1>10. HeldInv'
  <2>1. \A i \in Ids : Refused(i)' <=> Refused(i)
    BY <1>3, Zenon DEF Refused
  <2>2. \A i \in DOMAIN outstanding_requests_map_ : Ready(i) => i \in Ids
    BY DEF OwnerInv, StagesInv
  <2>3. \A r \in Clients : Running(r) => query[r].id \in Ids
    BY DEF OwnerInv, StagesInv
  <2>4. Granting => queue.id \in Ids
    BY DEF OwnerInv, StagesInv
  <2>5. DOMAIN held \subseteq Ids
    BY DEF HeldInv, StagesInv
  <2>6. \A i : Ready(i)' <=> Ready(i)
    BY <1>1 DEF Ready
  <2> QED BY <1>1, <1>2, <2>1, <2>2, <2>3, <2>4, <2>5, <2>6, Zenon DEF HeldInv, Running, Granting
<1> QED BY <1>6, <1>7, <1>8, <1>9, <1>10, ZenonT(60)

\* The semaphore of a request is created unless the queue thread has created it, and
\* deleted by the thread that waited on it.
LEMMA SemaphoreStep ==
  ASSUME IInv, NEW q \in Clients,
         get_semaphore_for_request(q) \/ acquire(q) \/ delete_semaphore_for_request(q)
  PROVE  IInv'
<1> USE DEF IInv
<1> DEFINE id == query[q].id
           t(pc) == [query[q] EXCEPT !.pc = pc]
<1>1. /\ UNCHANGED <<stages, queue, poolState>>
      /\ UNCHANGED <<requests_stats_, queued_requests_, executing_requests_, executor_stats_,
                     pool, held, pause_process_queue_, process_queue_is_paused_>>
  BY Zenon DEF get_semaphore_for_request, acquire, delete_semaphore_for_request, flags, stages,
         poolState
<1>2. ASSUME NEW pc, Goto(q, pc)
      PROVE /\ query'[q].pc = pc /\ query'[q].id = id /\ DOMAIN query'[q] = ThreadFields
            /\ \A r \in Clients \ {q} : query'[r] = query[r]
            /\ DOMAIN query' = Clients
  BY <1>2 DEF Goto, ShapeInv, ThreadFields
<1>3. Ids' = Ids /\ \A i : Refused(i)' <=> Refused(i)
  BY <1>1 DEF Ids, Refused
<1>4. ShapeInv'
  BY <1>1, <1>2, <1>3, ZenonT(60) DEF ShapeInv, CountersShape, get_semaphore_for_request, acquire,
     delete_semaphore_for_request
<1>5. StagesInv'
  BY <1>1, <1>3 DEF StagesInv, StagesMatchCounters
<1>6. PausedInv'
  BY <1>1 DEF PausedInv
<1>7. CASE get_semaphore_for_request(q)
  <2>1. /\ query'[q].pc = "waiting" /\ query'[q].id = id /\ query[q].pc = "notified"
        /\ \A r \in Clients \ {q} : query'[r] = query[r]
    BY <1>2, <1>7 DEF get_semaphore_for_request
  <2>2. /\ DOMAIN outstanding_requests_map_' = DOMAIN outstanding_requests_map_ \cup {id}
        /\ \A i : Ready(i)' <=> Ready(i)
    BY <1>7, ZenonT(60) DEF get_semaphore_for_request, With, Ready
  <2>3. \A r \in Clients : /\ Current(r)' <=> Current(r)
                           /\ Running(r)' <=> Running(r)
                           /\ query'[r].id = query[r].id
    BY <2>1 DEF Current, Running
  <2>4. \A i : Ready(i) => i \in DOMAIN outstanding_requests_map_
    BY Zenon DEF Ready
  <2>5. OwnerInv'
    <3>1. \A r \in Clients : query'[r].pc \in {"waiting", "expired"} =>
            r = q \/ query[r].pc \in {"waiting", "expired"}
      BY <2>1
    <3>2. Granting' <=> Granting
      BY <1>1 DEF Granting
    <3> QED BY <1>1, <1>3, <2>1, <2>2, <2>3, <2>4, <3>1, <3>2, ZenonT(60) DEF OwnerInv
  <2>6. HeldInv'
    BY <1>1, <1>3, <2>1, <2>2, <2>4, ZenonT(60) DEF HeldInv
  <2> QED BY <1>4, <1>5, <1>6, <2>5, <2>6, ZenonT(60)
<1>8. CASE acquire(q)
  <2>1. /\ query'[q].pc = "woken" /\ query'[q].id = id /\ query[q].pc = "waiting"
        /\ \A r \in Clients \ {q} : query'[r] = query[r]
    BY <1>2, <1>8 DEF acquire
  <2>2. /\ DOMAIN outstanding_requests_map_' = DOMAIN outstanding_requests_map_ \ {id}
        /\ \A i : Ready(i)' <=> Ready(i) /\ i # id
    BY <1>8, ZenonT(60) DEF acquire, WithoutSemaphore, Ready
  <2>3. Ready(id) /\ id \in DOMAIN outstanding_requests_map_
    BY <1>8, <2>1, Zenon DEF acquire, Ready, OwnerInv
  <2>4. \A r \in Clients : /\ Current(r)' <=> Current(r)
                           /\ Running(r)' <=> Running(r) \/ r = q
                           /\ query'[r].id = query[r].id
    BY <2>1, ZenonT(60) DEF Current, Running
  <2>5. OwnerInv'
    <3>1. Current(q)
      BY <2>1, Zenon DEF Current
    <3>2. \A r \in Clients : query'[r].pc \in {"waiting", "expired"} =>
            query[r].pc \in {"waiting", "expired"} /\ r # q /\ Current(r)
      BY <2>1 DEF Current
    <3>3. Granting' <=> Granting
      BY <1>1 DEF Granting
    <3> QED BY <1>1, <1>3, <2>1, <2>2, <2>3, <2>4, <3>1, <3>2, <3>3, ZenonT(60) DEF OwnerInv
  <2>6. HeldInv'
    <3>1. Refused(id) \/ id \in DOMAIN held
      BY <2>3, Zenon DEF HeldInv
    <3> QED BY <1>1, <1>3, <2>1, <2>2, <3>1, ZenonT(60) DEF HeldInv, Ready
  <2> QED BY <1>4, <1>5, <1>6, <2>5, <2>6, Zenon
<1>9. CASE delete_semaphore_for_request(q)
  <2>1. /\ query'[q].pc = "marking" /\ query'[q].id = id /\ query[q].pc = "expired"
        /\ \A r \in Clients \ {q} : query'[r] = query[r]
    BY <1>2, <1>9 DEF delete_semaphore_for_request
  <2>2. /\ DOMAIN outstanding_requests_map_' = DOMAIN outstanding_requests_map_ \ {id}
        /\ \A i : Ready(i)' <=> Ready(i) /\ i # id
    BY <1>9, Zenon DEF delete_semaphore_for_request, WithoutSemaphore, Ready
  <2>3. \A r \in Clients : /\ Current(r)' <=> Current(r)
                           /\ Running(r)' <=> Running(r)
                           /\ query'[r].id = query[r].id
    BY <2>1, Zenon DEF Current, Running
  <2>4. OwnerInv'
    <3>1. Current(q)
      BY <2>1, Zenon DEF Current
    <3>2. \A r \in Clients : query'[r].pc \in {"waiting", "expired"} =>
            query[r].pc \in {"waiting", "expired"} /\ r # q /\ Current(r)
      BY <2>1 DEF Current
    <3>3. Granting' <=> Granting
      BY <1>1 DEF Granting
    <3> QED BY <1>1, <1>3, <2>1, <2>2, <2>3, <3>1, <3>2, <3>3, ZenonT(60) DEF OwnerInv
  <2>5. HeldInv'
    BY <1>1, <1>3, <2>1, <2>2, ZenonT(60) DEF HeldInv, Ready
  <2> QED BY <1>4, <1>5, <1>6, <2>4, <2>5, Zenon
<1> QED BY <1>7, <1>8, <1>9

\* A request whose timeout has passed leaves stage QUEUED (mark_request_timed_out).
LEMMA TimedOutStep ==
  ASSUME IInv, NEW q \in Clients, mark_request_timed_out(q)
  PROVE  IInv'
<1> USE DEF IInv
<1> DEFINE id == query[q].id
           e == [requests_stats_[id] EXCEPT !.timed_out = TRUE]
<1>1. CASE UNCHANGED <<stages, query>>
  BY <1>1, NothingShared, Zenon DEF mark_request_timed_out, flags
<1>2. CASE ~UNCHANGED <<stages, query>>
  <2>1. /\ id \in queued_requests_
        /\ requests_stats_' = [requests_stats_ EXCEPT ![id] = e]
        /\ queued_requests_' = queued_requests_ \ {id}
        /\ executor_stats_' = [executor_stats_ EXCEPT !.queue_length = @ - 1,
                                                      !.requests_timed_out = @ + 1]
        /\ Goto(q, "timed_out")
        /\ UNCHANGED <<executing_requests_, outstanding_requests_map_, pause_process_queue_,
                       process_queue_is_paused_, queue, pool, held>>
    BY <1>2 DEF mark_request_timed_out, flags, poolState
  <2>2. /\ query'[q].pc = "timed_out" /\ DOMAIN query'[q] = ThreadFields
        /\ \A r \in Clients \ {q} : query'[r] = query[r]
        /\ DOMAIN query' = Clients
    BY <2>1 DEF Goto, ShapeInv, ThreadFields
  <2>3. id \in Ids /\ DOMAIN e = StatFields /\ e.error = requests_stats_[id].error
    BY <2>1 DEF StagesInv, ShapeInv, StatFields
  <2>4. /\ requests_stats_' \in Seq(Entries(requests_stats_'))
        /\ Len(requests_stats_') = Len(requests_stats_) /\ Len(requests_stats_) \in Nat
        /\ \A i \in Ids : i # id => requests_stats_'[i] = requests_stats_[i]
        /\ requests_stats_'[id] = e
    <3> HIDE DEF e, id
    <3> QED BY <2>1, <2>3, UpdateEntry, Zenon DEF ShapeInv
  <2> HIDE DEF e, id
  <2>5. Ids' = Ids /\ \A i \in Ids : Refused(i)' <=> Refused(i)
    BY <2>3, <2>4 DEF Ids, Refused
  <2>6. ShapeInv'
    <3>1. CountersShape'
      BY <2>1 DEF ShapeInv, CountersShape
    <3> QED BY <2>1, <2>2, <2>3, <2>4, <2>5, <3>1, ZenonT(60) DEF ShapeInv
  <2>7. StagesInv'
    <3>1. /\ IsFiniteSet(queued_requests_')
          /\ Cardinality(queued_requests_') = Cardinality(queued_requests_) - 1
      BY <2>1, FS_RemoveElement DEF StagesInv
    <3>2. /\ executor_stats_'.queue_length = executor_stats_.queue_length - 1
          /\ executor_stats_'.requests_executing = executor_stats_.requests_executing
          /\ executor_stats_'.requests_executed = executor_stats_.requests_executed
          /\ executor_stats_'.requests_timed_out = executor_stats_.requests_timed_out + 1
      BY <2>1 DEF ShapeInv, CountersShape
    <3>3. StagesMatchCounters /\ CountersShape
      BY Zenon DEF StagesInv, ShapeInv
    <3>4. StagesMatchCounters'
      BY <2>1, <2>4, <3>1, <3>2, <3>3 DEF StagesMatchCounters, CountersShape
    <3> QED BY <2>1, <2>5, <3>1, <3>4, ZenonT(60) DEF StagesInv
  <2>8. OwnerInv'
    <3>1. /\ ~Current(q)' /\ ~Running(q)' /\ query'[q].pc \notin {"waiting", "expired"}
          /\ \A r \in Clients \ {q} : (Current(r)' <=> Current(r)) /\ (Running(r)' <=> Running(r))
          /\ \A i : Ready(i)' <=> Ready(i)
          /\ Granting' <=> Granting
      BY <2>1, <2>2 DEF Current, Running, Ready, Granting
    <3> QED BY <2>1, <2>2, <2>5, <3>1 DEF OwnerInv
  <2>9. PausedInv'
    BY <2>1 DEF PausedInv
  <2>10. HeldInv'
    <3>1. \A i \in executing_requests_ : Refused(i)' <=> Refused(i)
      BY <2>5, Zenon DEF StagesInv
    <3>2. \A r \in Clients : Running(r) => query[r].id \in executing_requests_
      BY Zenon DEF OwnerInv
    <3>3. Granting => queue.id \in executing_requests_
      BY DEF OwnerInv
    <3>4. \A i \in DOMAIN outstanding_requests_map_ :
            (Ready(i)' <=> Ready(i)) /\ (Ready(i) => i \in executing_requests_)
      BY <2>1 DEF OwnerInv, Ready
    <3> QED BY <2>1, <2>2, <3>1, <3>2, <3>3, <3>4, ZenonT(60) DEF HeldInv, Running, Granting
  <2> QED BY <2>6, <2>7, <2>8, <2>9, <2>10, Zenon
<1> QED BY <1>1, <1>2

\* A request that is over leaves stage EXECUTING: it was refused, or has returned what it
\* had of the pool.
LEMMA LeavesExecuting ==
  ASSUME IInv, NEW q \in Clients, query[q].pc \in {"errored", "deallocated"},
         NEW t, query' = [query EXCEPT ![q] = t], DOMAIN t = ThreadFields,
         t.pc \notin CurrentPCs,
         executing_requests_' = executing_requests_ \ {query[q].id},
         CountersShape',
         executor_stats_'.queue_length = executor_stats_.queue_length,
         executor_stats_'.requests_executing = executor_stats_.requests_executing - 1,
         executor_stats_'.requests_executed = executor_stats_.requests_executed + 1,
         executor_stats_'.requests_timed_out = executor_stats_.requests_timed_out,
         UNCHANGED <<requests_stats_, queued_requests_, outstanding_requests_map_,
                     pause_process_queue_, process_queue_is_paused_, queue, pool, held>>
  PROVE  IInv'
<1> USE DEF IInv
<1> DEFINE id == query[q].id
<1>1. /\ query'[q] = t
      /\ \A r \in Clients \ {q} : query'[r] = query[r]
      /\ DOMAIN query' = Clients
  BY Zenon DEF ShapeInv
<1>2. Ids' = Ids /\ \A i : Refused(i)' <=> Refused(i)
  BY DEF Ids, Refused
<1>3. /\ Current(q) /\ Running(q) /\ id \in executing_requests_ /\ ~Ready(id)
      /\ Granting => queue.id # id
      /\ id \notin DOMAIN held
  BY ZenonT(60) DEF Current, Running, OwnerInv, HeldInv
<1> HIDE DEF id
<1>4. ShapeInv'
  BY <1>1, <1>2, Zenon DEF ShapeInv
<1>5. StagesInv'
  <2>1. /\ IsFiniteSet(executing_requests_')
        /\ Cardinality(executing_requests_') = Cardinality(executing_requests_) - 1
    BY <1>3, FS_RemoveElement, Zenon DEF StagesInv, id
  <2>2. StagesMatchCounters /\ CountersShape
    BY Zenon DEF StagesInv, ShapeInv
  <2>3. StagesMatchCounters'
    BY <2>1, <2>2 DEF StagesMatchCounters, CountersShape
  <2> QED BY <1>2, <2>1, <2>3, ZenonT(60) DEF StagesInv
<1>6. OwnerInv'
  <2>1. /\ ~Current(q)' /\ ~Running(q)' /\ query'[q].pc \notin {"waiting", "expired"}
        /\ \A r \in Clients \ {q} : (Current(r)' <=> Current(r)) /\ (Running(r)' <=> Running(r))
        /\ \A i : Ready(i)' <=> Ready(i)
        /\ Granting' <=> Granting
    BY <1>1, ZenonT(60) DEF Current, Running, Ready, Granting, CurrentPCs
  <2>2. \A r \in Clients \ {q} : Running(r) => query[r].id # id
    BY <1>3 DEF OwnerInv, Running, Current, id
  <2>3. UNCHANGED <<outstanding_requests_map_, queue>> /\ executing_requests_' = executing_requests_ \ {id}
    BY Zenon DEF id
  <2>4. /\ \A r \in Clients : Current(r)' => query'[r].id \in Ids'
        /\ \A r, p \in Clients : r # p /\ Current(r)' /\ Current(p)' => query'[r].id # query'[p].id
        /\ \A r \in Clients : query'[r].pc \in {"waiting", "expired"} =>
             query'[r].id \in DOMAIN outstanding_requests_map_'
    <3>1. \A r \in Clients : Current(r)' => r \in Clients \ {q} /\ Current(r) /\ query'[r] = query[r]
      BY <1>1, <2>1, Zenon
    <3>2. \A r \in Clients : query'[r].pc \in {"waiting", "expired"} =>
            query[r].pc \in {"waiting", "expired"} /\ query'[r] = query[r]
      BY <1>1, <2>1, ZenonT(60)
    <3>3. \A r \in Clients : Current(r)' => query'[r].id \in Ids'
      <4>1. \A r \in Clients : Current(r) => query[r].id \in Ids
        BY Zenon DEF OwnerInv
      <4> QED BY <1>2, <3>1, <4>1
    <3>4. \A r, p \in Clients : r # p /\ Current(r)' /\ Current(p)' => query'[r].id # query'[p].id
      BY <3>1, ZenonT(60) DEF OwnerInv
    <3>5. \A r \in Clients : query'[r].pc \in {"waiting", "expired"} =>
            query'[r].id \in DOMAIN outstanding_requests_map_'
      BY <2>3, <3>2, Zenon DEF OwnerInv
    <3> QED BY <3>3, <3>4, <3>5, Zenon
  <2>5. \A i \in DOMAIN outstanding_requests_map_' : Ready(i)' => i \in executing_requests_'
    BY <1>3, <2>1, <2>3, Zenon DEF OwnerInv
  <2>6. \A r \in Clients : Running(r)' =>
          query'[r].id \in executing_requests_' /\ ~Ready(query[r].id)'
    BY <1>1, <2>1, <2>2, <2>3, Zenon DEF OwnerInv
  <2>7. Granting' => /\ queue'.id \in executing_requests_'
                     /\ ~Ready(queue.id)'
                     /\ \A r \in Clients : Running(r)' => query'[r].id # queue'.id
    BY <1>1, <1>3, <2>1, <2>3, ZenonT(60) DEF OwnerInv
  <2> QED BY <2>4, <2>5, <2>6, <2>7, ZenonT(60) DEF OwnerInv
<1>7. PausedInv'
  BY Zenon DEF PausedInv
<1>8. HeldInv'
  <2>1. \A i : Ready(i)' <=> Ready(i)
    BY Zenon DEF Ready
  <2>2. query'[q].pc \notin {"woken", "errored", "executing", "deallocated"}
    BY <1>1 DEF CurrentPCs
  <2> QED BY <1>1, <1>2, <1>3, <2>1, <2>2, ZenonT(60) DEF HeldInv, id
<1> QED BY <1>4, <1>5, <1>6, <1>7, <1>8, ZenonT(60)

\* The two ways out of stage EXECUTING (handle_resource_stat_error,
\* mark_request_finished).
LEMMA OverStep ==
  ASSUME IInv, NEW q \in Clients, handle_resource_stat_error(q) \/ mark_request_finished(q)
  PROVE  IInv'
<1> USE DEF IInv
<1>1. UNCHANGED <<requests_stats_, queued_requests_, outstanding_requests_map_,
                  pause_process_queue_, process_queue_is_paused_, queue, pool, held>>
  BY DEF handle_resource_stat_error, mark_request_finished, flags, poolState
<1>2. CASE handle_resource_stat_error(q)
  <2>1. /\ CountersShape'
        /\ executor_stats_'.queue_length = executor_stats_.queue_length
        /\ executor_stats_'.requests_executing = executor_stats_.requests_executing - 1
        /\ executor_stats_'.requests_executed = executor_stats_.requests_executed + 1
        /\ executor_stats_'.requests_timed_out = executor_stats_.requests_timed_out
    BY <1>2 DEF handle_resource_stat_error, ShapeInv, CountersShape
  <2>2. PICK t : /\ query' = [query EXCEPT ![q] = t]
                 /\ DOMAIN t = ThreadFields /\ t.pc \notin CurrentPCs
    BY <1>2, RaiseLeaves DEF handle_resource_stat_error
  <2>3. /\ query[q].pc = "errored"
        /\ executing_requests_' = executing_requests_ \ {query[q].id}
    BY <1>2 DEF handle_resource_stat_error
  <2> QED BY <1>1, <2>1, <2>2, <2>3, LeavesExecuting, ZenonT(60)
<1>3. CASE mark_request_finished(q)
  <2> DEFINE t == [query[q] EXCEPT !.pc = "finished"]
  <2>1. /\ CountersShape'
        /\ executor_stats_'.queue_length = executor_stats_.queue_length
        /\ executor_stats_'.requests_executing = executor_stats_.requests_executing - 1
        /\ executor_stats_'.requests_executed = executor_stats_.requests_executed + 1
        /\ executor_stats_'.requests_timed_out = executor_stats_.requests_timed_out
    BY <1>3 DEF mark_request_finished, ShapeInv, CountersShape
  <2>2. query' = [query EXCEPT ![q] = t] /\ DOMAIN t = ThreadFields /\ t.pc \notin CurrentPCs
    BY <1>3 DEF mark_request_finished, Goto, ShapeInv, ThreadFields, CurrentPCs
  <2>3. /\ query[q].pc = "deallocated"
        /\ executing_requests_' = executing_requests_ \ {query[q].id}
    BY <1>3, Zenon DEF mark_request_finished
  <2> HIDE DEF t
  <2> QED BY <1>1, <2>1, <2>2, <2>3, LeavesExecuting, Zenon
<1> QED BY <1>2, <1>3, ZenonT(60)

\* A query that is over returns what it had of the pool (release_resources).
LEMMA ReleaseStep ==
  ASSUME IInv, NEW q \in Clients, release_resources(q)
  PROVE  IInv'
<1> USE DEF IInv
<1> DEFINE id == query[q].id
<1>0. /\ UNCHANGED <<stages, outstanding_requests_map_, queue, pause_process_queue_,
                     process_queue_is_paused_>>
      /\ UNCHANGED <<requests_stats_, queued_requests_, executing_requests_, executor_stats_>>
  BY DEF release_resources, flags, stages
<1>1. CASE UNCHANGED <<poolState, query>>
  BY <1>0, <1>1, NothingShared, ZenonT(60)
<1>2. CASE ~UNCHANGED <<poolState, query>>
  <2>1. /\ query[q].pc = "executing"
        /\ pool' = deallocate_resources(pool, requests_stats_[id].actual,
                                        requests_stats_[id].info)
        /\ held' = [i \in DOMAIN held \ {id} |-> held[i]]
        /\ Goto(q, "deallocated")
    BY <1>2, Zenon DEF release_resources
  <2>2. /\ query'[q].pc = "deallocated" /\ query'[q].id = id /\ DOMAIN query'[q] = ThreadFields
        /\ \A r \in Clients \ {q} : query'[r] = query[r]
        /\ DOMAIN query' = Clients
    BY <2>1, Zenon DEF Goto, ShapeInv, ThreadFields
  <2>3. "outstanding" \in DOMAIN pool' /\ pool'.outstanding = pool.outstanding - 1
    BY <2>1, OutstandingCounts, ZenonT(60) DEF ShapeInv
  <2>4. /\ Current(q) /\ Running(q) /\ id \in DOMAIN held /\ ~Ready(id)
        /\ Granting => queue.id # id
    BY <2>1, ZenonT(60) DEF Current, Running, OwnerInv, HeldInv
  <2>5. DOMAIN held' = DOMAIN held \ {id}
    BY <2>1
  <2> HIDE DEF id
  <2>6. Ids' = Ids /\ \A i : (Refused(i)' <=> Refused(i)) /\ (Ready(i)' <=> Ready(i))
    BY <1>0, Zenon DEF Ids, Refused, Ready
  <2>7. ShapeInv'
    BY <1>0, <2>2, <2>3, <2>6, Zenon DEF ShapeInv, CountersShape
  <2>8. StagesInv'
    BY <1>0, <2>6, Zenon DEF StagesInv, StagesMatchCounters
  <2>9. OwnerInv'
    <3>1. \A r \in Clients : /\ Current(r)' <=> Current(r)
                             /\ Running(r)' <=> Running(r)
                             /\ query'[r].id = query[r].id
                             /\ query'[r].pc \in {"waiting", "expired"} => query'[r] = query[r]
      BY <2>1, <2>2, Zenon DEF Current, Running, id
    <3>2. Granting' <=> Granting
      BY <1>0 DEF Granting
    <3> QED BY <1>0, <2>6, <3>1, <3>2, ZenonT(60) DEF OwnerInv
  <2>10. PausedInv'
    BY <1>0, ZenonT(60) DEF PausedInv
  <2>11. HeldInv'
    <3>1. IsFiniteSet(DOMAIN held)
      BY FS_Subset, ZenonT(60) DEF HeldInv, StagesInv
    <3>2. Cardinality(DOMAIN held') = Cardinality(DOMAIN held) - 1
      BY <2>4, <2>5, <3>1, FS_RemoveElement, ZenonT(60)
    <3>3. \A r \in Clients \ {q} : Running(r) => query[r].id # id
      BY <2>4 DEF OwnerInv, Running, Current, id
    <3> QED BY <1>0, <2>2, <2>3, <2>4, <2>5, <2>6, <3>2, <3>3, ZenonT(60) DEF HeldInv, Running, Granting
  <2> QED BY <2>7, <2>8, <2>9, <2>10, <2>11
<1> QED BY <1>1, <1>2

-----------------------------------------------------------------------------
(***************************************************************************)
(* The queue thread.                                                       *)
(***************************************************************************)
\* The entry of a request that is not executing may change in any way.
LEMMA EntryStep ==
  ASSUME IInv, NEW k \in queued_requests_, NEW e, DOMAIN e = StatFields,
         requests_stats_' = [requests_stats_ EXCEPT ![k] = e]
  PROVE  /\ requests_stats_' \in Seq(Entries(requests_stats_'))
         /\ Ids' = Ids /\ Len(requests_stats_') = Len(requests_stats_)
         /\ \A i \in Ids : DOMAIN requests_stats_'[i] = StatFields
         /\ requests_stats_'[k] = e
         /\ \A i \in executing_requests_ : Refused(i)' <=> Refused(i)
<1> USE DEF IInv
<1>1. k \in Ids /\ k \notin executing_requests_ /\ executing_requests_ \subseteq Ids
  BY DEF StagesInv, StagesMatchCounters
<1>2. /\ requests_stats_' \in Seq(Entries(requests_stats_'))
      /\ Len(requests_stats_') = Len(requests_stats_) /\ Len(requests_stats_) \in Nat
      /\ \A i \in Ids : i # k => requests_stats_'[i] = requests_stats_[i]
      /\ requests_stats_'[k] = e
  BY <1>1, UpdateEntry, ZenonT(60) DEF ShapeInv
<1>3. Ids' = Ids
  BY <1>2 DEF Ids
<1> QED BY <1>1, <1>2, <1>3, Zenon DEF ShapeInv, Refused

\* The loop goes to sleep, paused or not, or ends.
LEMMA SleepStep ==
  ASSUME IInv, loop_pauses \/ loop_stops
  PROVE  IInv'
<1> USE DEF IInv
<1>1. /\ UNCHANGED <<requests_stats_, queued_requests_, executing_requests_, executor_stats_,
                     outstanding_requests_map_, query, pool, held, pause_process_queue_>>
      /\ queue.pc = "wait" /\ queue'.pc \in {"wait", "stopped"} /\ DOMAIN queue' = {"pc", "id"}
  BY Zenon DEF loop_pauses, loop_stops, stages, poolState, ShapeInv
<1>2. Ids' = Ids /\ \A i : (Refused(i)' <=> Refused(i)) /\ (Ready(i)' <=> Ready(i))
  BY <1>1 DEF Ids, Refused, Ready
<1>3. ~Granting /\ ~Granting'
  BY <1>1, Zenon DEF Granting
<1>4. ShapeInv' /\ StagesInv'
  BY <1>1, <1>2, Zenon DEF ShapeInv, CountersShape, StagesInv, StagesMatchCounters
<1>5. OwnerInv'
  <2>1. \A r \in Clients : (Current(r)' <=> Current(r)) /\ (Running(r)' <=> Running(r))
    BY <1>1 DEF Current, Running
  <2> QED BY <1>1, <1>2, <1>3, <2>1, ZenonT(60) DEF OwnerInv
<1>6. PausedInv'
  <2>1. executor_stats_.requests_executing = 0 => executing_requests_ = {}
    BY FS_EmptySet, Zenon DEF StagesInv, StagesMatchCounters
  <2> QED BY <1>1, <2>1, Zenon DEF PausedInv, loop_pauses, loop_stops
<1>7. HeldInv'
  BY <1>1, <1>2, ZenonT(60) DEF HeldInv
<1> QED BY <1>4, <1>5, <1>6, <1>7, Zenon

\* What the loop writes for the request it picks: its grant or its error.
LEMMA ChoosesEntry ==
  ASSUME IInv, NEW id \in queued_requests_, is_next(id), loop_chooses(id)
  PROVE  \/ UNCHANGED <<requests_stats_, queue>>
         \/ \E e : /\ DOMAIN e = StatFields
                   /\ requests_stats_' = [requests_stats_ EXCEPT ![id] = e]
                   /\ queue' = [pc |-> "dequeue", id |-> id]
<1>1. DOMAIN requests_stats_[id] = StatFields
  BY DEF IInv, StagesInv, ShapeInv
<1>2. CASE outcome(id) = "granted"
  <2>1. PICK g : requests_stats_' = [requests_stats_ EXCEPT ![id].actual = g]
    BY <1>2 DEF loop_chooses
  <2> DEFINE e == [requests_stats_[id] EXCEPT !.actual = g]
  <2>2. DOMAIN e = StatFields /\ requests_stats_' = [requests_stats_ EXCEPT ![id] = e]
    BY <1>1, <2>1
  <2>3. queue' = [pc |-> "dequeue", id |-> id]
    BY <1>2, ZenonT(60) DEF loop_chooses
  <2> HIDE DEF e
  <2> QED BY <2>2, <2>3, Zenon
<1>3. CASE outcome(id) = "throws"
  <2>1. PICK g : requests_stats_' = [requests_stats_ EXCEPT ![id].error = g]
    BY <1>3 DEF loop_chooses
  <2> DEFINE e == [requests_stats_[id] EXCEPT !.error = g]
  <2>2. DOMAIN e = StatFields /\ requests_stats_' = [requests_stats_ EXCEPT ![id] = e]
    BY <1>1, <2>1
  <2>3. queue' = [pc |-> "dequeue", id |-> id]
    BY <1>3 DEF loop_chooses
  <2> HIDE DEF e
  <2> QED BY <2>2, <2>3, Zenon
<1>4. CASE outcome(id) = "aborts"
  BY <1>4, ZenonT(60) DEF loop_chooses
<1>5. outcome(id) \in {"granted", "throws", "aborts"}
  BY DEF outcome, is_next
<1> QED BY <1>2, <1>3, <1>4, <1>5, ZenonT(60)

\* The loop picks a queued request and writes its grant or its error.
LEMMA ChooseStep ==
  ASSUME IInv, choose_next_request
  PROVE  IInv'
<1> USE DEF IInv
<1>1. /\ UNCHANGED <<queued_requests_, executing_requests_, executor_stats_,
                     outstanding_requests_map_, pause_process_queue_,
                     process_queue_is_paused_, query, pool, held>>
      /\ queue.pc = "wait" /\ ~pause_process_queue_
  BY DEF choose_next_request, poolState
<1>2. CASE UNCHANGED <<requests_stats_, queue>>
  BY <1>1, <1>2, NothingShared DEF stages, poolState
<1>3. ASSUME NEW id \in queued_requests_, NEW e, DOMAIN e = StatFields,
             requests_stats_' = [requests_stats_ EXCEPT ![id] = e],
             queue' = [pc |-> "dequeue", id |-> id]
      PROVE  IInv'
  <2>1. /\ requests_stats_' \in Seq(Entries(requests_stats_'))
        /\ Ids' = Ids /\ Len(requests_stats_') = Len(requests_stats_)
        /\ \A i \in Ids : DOMAIN requests_stats_'[i] = StatFields
        /\ \A i \in executing_requests_ : Refused(i)' <=> Refused(i)
    BY <1>3, EntryStep, ZenonT(60)
  <2>2. DOMAIN queue' = {"pc", "id"} /\ queue'.pc = "dequeue" /\ ~Granting /\ ~Granting'
    BY <1>1, <1>3 DEF Granting
  <2>3. ShapeInv' /\ StagesInv'
    BY <1>1, <2>1, <2>2, ZenonT(60) DEF ShapeInv, CountersShape, StagesInv, StagesMatchCounters
  <2>4. \A i : Ready(i)' <=> Ready(i)
    BY <1>1 DEF Ready
  <2>5. OwnerInv'
    <3>1. \A r \in Clients : (Current(r)' <=> Current(r)) /\ (Running(r)' <=> Running(r))
      BY <1>1 DEF Current, Running
    <3> QED BY <1>1, <2>1, <2>2, <2>4, <3>1, ZenonT(60) DEF OwnerInv
  <2>6. PausedInv'
    BY <1>1 DEF PausedInv
  <2>7. HeldInv'
    <3>1. \A r \in Clients : Running(r) => query[r].id \in executing_requests_
      BY ZenonT(60) DEF OwnerInv
    <3>2. \A i \in DOMAIN outstanding_requests_map_ : Ready(i) => i \in executing_requests_
      BY DEF OwnerInv
    <3> QED BY <1>1, <2>1, <2>2, <2>4, <3>1, <3>2, ZenonT(60) DEF HeldInv, Running
  <2> QED BY <2>3, <2>5, <2>6, <2>7
<1>4. ASSUME NEW id \in queued_requests_, is_next(id), loop_chooses(id) PROVE IInv'
  BY <1>2, <1>3, <1>4, ChoosesEntry, ZenonT(60)
<1> QED BY <1>2, <1>4, ZenonT(60) DEF choose_next_request

\* The chosen request goes from stage QUEUED to stage EXECUTING.
LEMMA DequeueStep ==
  ASSUME IInv, mark_request_dequed
  PROVE  IInv'
<1> USE DEF IInv
<1> DEFINE id == queue.id
           e == [requests_stats_[id] EXCEPT !.finished_queueing = TRUE]
<1>1. /\ UNCHANGED <<outstanding_requests_map_, pause_process_queue_,
                     process_queue_is_paused_, query, pool, held>>
      /\ queue.pc = "dequeue"
  BY DEF mark_request_dequed, flags, poolState
<1>2. CASE id \notin queued_requests_
  BY <1>1, <1>2, NothingShared, Zenon DEF mark_request_dequed, poolState
<1>3. CASE id \in queued_requests_
  <2>1. DOMAIN requests_stats_[id] = StatFields
    BY <1>3 DEF StagesInv, ShapeInv
  <2>2. /\ DOMAIN e = StatFields
        /\ requests_stats_' = [requests_stats_ EXCEPT ![id] = e]
    BY <1>3, <2>1 DEF mark_request_dequed
  <2>3. /\ queued_requests_' = queued_requests_ \ {id}
        /\ executing_requests_' = executing_requests_ \cup {id}
        /\ queue' = [queue EXCEPT !.pc = "allocate"]
    BY <1>3 DEF mark_request_dequed
  <2>4. /\ CountersShape'
        /\ executor_stats_'.queue_length = executor_stats_.queue_length - 1
        /\ executor_stats_'.requests_executing = executor_stats_.requests_executing + 1
        /\ executor_stats_'.requests_executed = executor_stats_.requests_executed
        /\ executor_stats_'.requests_timed_out = executor_stats_.requests_timed_out
    <3>1. PICK d : executor_stats_' = [executor_stats_ EXCEPT !.queue_length = @ - 1,
                                         !.requests_executing = @ + 1, !.device_executing = d]
      BY <1>3, Zenon DEF mark_request_dequed, ShapeInv, CountersShape
    <3> QED BY <3>1 DEF ShapeInv, CountersShape
  <2>5. DOMAIN queue' = {"pc", "id"} /\ queue'.pc = "allocate" /\ queue'.id = id
    BY <2>3 DEF ShapeInv
  <2> HIDE DEF e, id
  <2>6. /\ requests_stats_' \in Seq(Entries(requests_stats_'))
        /\ Ids' = Ids /\ Len(requests_stats_') = Len(requests_stats_)
        /\ \A i \in Ids : DOMAIN requests_stats_'[i] = StatFields
        /\ \A i \in executing_requests_ : Refused(i)' <=> Refused(i)
    BY <1>3, <2>2, EntryStep, ZenonT(60)
  <2>7. id \in Ids /\ id \notin executing_requests_
    BY <1>3, Zenon DEF StagesInv, StagesMatchCounters
  <2>8. ShapeInv'
    BY <1>1, <2>4, <2>5, <2>6, ZenonT(60) DEF ShapeInv
  <2>9. StagesInv'
    <3>1. /\ IsFiniteSet(queued_requests_')
          /\ Cardinality(queued_requests_') = Cardinality(queued_requests_) - 1
      BY <1>3, <2>3, FS_RemoveElement DEF StagesInv
    <3>2. /\ IsFiniteSet(executing_requests_')
          /\ Cardinality(executing_requests_') = Cardinality(executing_requests_) + 1
      BY <2>3, <2>7, FS_AddElement, Zenon DEF StagesInv
    <3>3. /\ queued_requests_' \subseteq Ids' /\ executing_requests_' \subseteq Ids'
          /\ queued_requests_' \cap executing_requests_' = {}
      <4>1. /\ queued_requests_ \subseteq Ids /\ executing_requests_ \subseteq Ids
            /\ queued_requests_ \cap executing_requests_ = {}
        BY Zenon DEF StagesInv, StagesMatchCounters
      <4> QED BY <2>3, <2>6, <2>7, <4>1, ZenonT(60)
    <3>4. /\ executor_stats_.queue_length \in Int /\ executor_stats_.requests_executing \in Int
          /\ executor_stats_.requests_executed \in Int /\ executor_stats_.requests_timed_out \in Int
      BY Zenon DEF ShapeInv, CountersShape
    <3>5. /\ executor_stats_.queue_length = Cardinality(queued_requests_)
          /\ executor_stats_.requests_executing = Cardinality(executing_requests_)
          /\ Len(requests_stats_) = executor_stats_.queue_length + executor_stats_.requests_executing
                                      + executor_stats_.requests_executed
                                      + executor_stats_.requests_timed_out
      BY Zenon DEF StagesInv, StagesMatchCounters
    <3>6. /\ executor_stats_'.queue_length = Cardinality(queued_requests_')
          /\ executor_stats_'.requests_executing = Cardinality(executing_requests_')
          /\ Len(requests_stats_') = executor_stats_'.queue_length + executor_stats_'.requests_executing
                                       + executor_stats_'.requests_executed
                                       + executor_stats_'.requests_timed_out
      BY <2>4, <2>6, <3>1, <3>2, <3>4, <3>5
    <3> QED BY <3>1, <3>2, <3>3, <3>6, Zenon DEF StagesInv, StagesMatchCounters
  <2>10. \A i : (Ready(i)' <=> Ready(i)) /\ (Ready(i) => i \in executing_requests_)
    BY <1>1, Zenon DEF Ready, OwnerInv
  <2>11. OwnerInv'
    <3>1. \A r \in Clients : (Current(r)' <=> Current(r)) /\ (Running(r)' <=> Running(r))
      BY <1>1, Zenon DEF Current, Running
    <3>2. \A r \in Clients : Running(r) => query[r].id \in executing_requests_
      BY DEF OwnerInv
    <3> QED BY <1>1, <2>3, <2>5, <2>6, <2>7, <2>10, <3>1, <3>2, Zenon DEF OwnerInv
  <2>12. PausedInv'
    BY <1>1 DEF PausedInv
  <2>13. HeldInv'
    <3>1. \A r \in Clients : Running(r) => query[r].id \in executing_requests_
      BY DEF OwnerInv
    <3> QED BY <1>1, <2>3, <2>5, <2>6, <2>7, <2>10, <3>1, Zenon DEF HeldInv, Running
  <2> QED BY <2>8, <2>9, <2>11, <2>12, <2>13, ZenonT(60)
<1> QED BY <1>2, <1>3

\* The dequeued request is allocated its grant, unless it was refused.
LEMMA AllocateStep ==
  ASSUME IInv, loop_allocates
  PROVE  IInv'
<1> USE DEF IInv
<1> DEFINE id == queue.id
<1>1. /\ UNCHANGED <<requests_stats_, queued_requests_, executing_requests_, executor_stats_,
                     outstanding_requests_map_, pause_process_queue_,
                     process_queue_is_paused_, query>>
      /\ queue.pc = "allocate"
  BY DEF loop_allocates, stages, flags
<1>2. CASE UNCHANGED <<poolState, queue>>
  BY <1>1, <1>2, NothingShared, Zenon DEF stages
<1>3. CASE /\ queue' = [queue EXCEPT !.pc = "wake"]
           /\ \/ Refused(id) /\ UNCHANGED <<pool, held>>
              \/ ~Refused(id) /\ \E g, r, h : /\ pool' = allocate_resources(pool, g, r)
                                              /\ held' = With(held, id, h)
  <2>1. DOMAIN queue' = {"pc", "id"} /\ queue'.pc = "wake" /\ queue'.id = id
    BY <1>3, Zenon DEF ShapeInv
  <2>2. id \in executing_requests_ /\ id \notin DOMAIN held
    BY <1>1, Zenon DEF OwnerInv, HeldInv, Granting
  <2>3. /\ "outstanding" \in DOMAIN pool'
        /\ \/ /\ Refused(id) /\ pool'.outstanding = pool.outstanding
              /\ DOMAIN held' = DOMAIN held
           \/ /\ ~Refused(id) /\ pool'.outstanding = pool.outstanding + 1
              /\ DOMAIN held' = DOMAIN held \cup {id}
    <3>1. CASE Refused(id) /\ UNCHANGED <<pool, held>>
      BY <3>1, ZenonT(60) DEF ShapeInv
    <3>2. CASE ~Refused(id) /\ \E g, r, h : /\ pool' = allocate_resources(pool, g, r)
                                            /\ held' = With(held, id, h)
      BY <3>2, OutstandingCounts DEF ShapeInv, With
    <3> QED BY <1>3, <3>1, <3>2, Zenon
  <2> HIDE DEF id
  <2>4. Ids' = Ids /\ \A i : (Refused(i)' <=> Refused(i)) /\ (Ready(i)' <=> Ready(i))
    BY <1>1 DEF Ids, Refused, Ready
  <2>5. ShapeInv' /\ StagesInv'
    BY <1>1, <2>1, <2>3, <2>4, ZenonT(60) DEF ShapeInv, CountersShape, StagesInv, StagesMatchCounters
  <2>6. OwnerInv'
    <3>1. \A r \in Clients : (Current(r)' <=> Current(r)) /\ (Running(r)' <=> Running(r))
      BY <1>1, Zenon DEF Current, Running
    <3>2. Granting /\ Granting' /\ queue'.id = queue.id
      BY <1>1, <2>1, Zenon DEF Granting, id
    <3> QED BY <1>1, <2>4, <3>1, <3>2, ZenonT(60) DEF OwnerInv
  <2>7. PausedInv'
    BY <1>1, Zenon DEF PausedInv
  <2>8. HeldInv'
    <3>1. IsFiniteSet(DOMAIN held)
      BY FS_Subset, ZenonT(60) DEF HeldInv, StagesInv
    <3>2. Cardinality(DOMAIN held \cup {id}) = Cardinality(DOMAIN held) + 1
      BY <2>2, <3>1, FS_AddElement, ZenonT(60)
    <3>3. \A r \in Clients : Running(r) => query[r].id # id
      BY <1>1, ZenonT(60) DEF OwnerInv, Granting, id
    <3> QED BY <1>1, <2>1, <2>2, <2>3, <2>4, <3>2, <3>3, ZenonT(60) DEF HeldInv, Running
  <2> QED BY <2>5, <2>6, <2>7, <2>8, Zenon
<1> QED BY <1>1, <1>2, <1>3 DEF loop_allocates, Refused, poolState

\* The semaphore of the request is raised, and the loop is back at its start.
LEMMA WakeStep ==
  ASSUME IInv, wake_request_by_id
  PROVE  IInv'
<1> USE DEF IInv
<1> DEFINE id == queue.id
<1>1. /\ UNCHANGED <<requests_stats_, queued_requests_, executing_requests_, executor_stats_,
                     pause_process_queue_, process_queue_is_paused_, query, pool, held>>
      /\ queue.pc = "wake"
      /\ DOMAIN queue' = {"pc", "id"} /\ queue'.pc = "wait"
  BY Zenon DEF wake_request_by_id, stages, flags, poolState
<1>2. /\ DOMAIN outstanding_requests_map_' = DOMAIN outstanding_requests_map_ \cup {id}
      /\ \A i : Ready(i)' <=> Ready(i) \/ i = id
  BY ZenonT(60) DEF wake_request_by_id, With, Ready
<1>3. Ids' = Ids /\ \A i : Refused(i)' <=> Refused(i)
  BY <1>1 DEF Ids, Refused
<1>4. /\ id \in executing_requests_
      /\ \A r \in Clients : Running(r) => query[r].id # id
      /\ Refused(id) \/ id \in DOMAIN held
  BY <1>1, Zenon DEF OwnerInv, HeldInv, Granting
<1> HIDE DEF id
<1>5. ShapeInv' /\ StagesInv'
  BY <1>1, <1>3 DEF ShapeInv, CountersShape, StagesInv, StagesMatchCounters
<1>6. OwnerInv'
  <2>1. \A r \in Clients : (Current(r)' <=> Current(r)) /\ (Running(r)' <=> Running(r))
    BY <1>1 DEF Current, Running
  <2>2. ~Granting'
    BY <1>1 DEF Granting
  <2>3. \A i : Ready(i) => i \in DOMAIN outstanding_requests_map_
    BY DEF Ready
  <2> QED BY <1>1, <1>2, <1>3, <1>4, <2>1, <2>2, <2>3, ZenonT(60) DEF OwnerInv
<1>7. PausedInv'
  BY <1>1 DEF PausedInv
<1>8. HeldInv'
  <2>1. \A i : Ready(i) => i \in DOMAIN outstanding_requests_map_
    BY DEF Ready
  <2> QED BY <1>1, <1>2, <1>3, <1>4, <2>1, ZenonT(60) DEF HeldInv
<1> QED BY <1>5, <1>6, <1>7, <1>8, Zenon

-----------------------------------------------------------------------------
(***************************************************************************)
(* The administrative threads.                                             *)
(***************************************************************************)
\* A step of an administrative thread moves the flags of the pause or changes what the
\* pool has, and neither what is outstanding nor a request.
LEMMA AdminMoves ==
  ASSUME IInv,
         UNCHANGED <<stages, outstanding_requests_map_, queue, query, held>>,
         "outstanding" \in DOMAIN pool', pool'.outstanding = pool.outstanding,
         process_queue_is_paused_' => process_queue_is_paused_ /\ pause_process_queue_'
  PROVE  IInv'
<1> USE DEF IInv, stages
<1>1. Ids' = Ids /\ \A i : (Refused(i)' <=> Refused(i)) /\ (Ready(i)' <=> Ready(i))
  BY DEF Ids, Refused, Ready
<1>2. ShapeInv' /\ StagesInv'
  BY <1>1, ZenonT(60) DEF ShapeInv, CountersShape, StagesInv, StagesMatchCounters
<1>3. OwnerInv'
  <2>1. /\ \A r \in Clients : (Current(r)' <=> Current(r)) /\ (Running(r)' <=> Running(r))
        /\ Granting' <=> Granting
    BY DEF Current, Running, Granting
  <2> QED BY <1>1, <2>1, ZenonT(60) DEF OwnerInv
<1>4. PausedInv'
  BY DEF PausedInv
<1>5. HeldInv'
  BY <1>1, Zenon DEF HeldInv
<1> QED BY <1>2, <1>3, <1>4, <1>5, ZenonT(60)

\* The steps of the administrative threads keep the invariant.
LEMMA AdminSteps ==
  ASSUME IInv, NEW a \in Admins,
         pause_process_queue(a) \/ stop_process_queue_thread(a) \/ AdminStep(a)
  PROVE  IInv'
<1>0. /\ "outstanding" \in DOMAIN pool
      /\ process_queue_is_paused_ => pause_process_queue_
  BY DEF IInv, ShapeInv, PausedInv
<1>1. CASE pause_process_queue(a)
  BY <1>0, <1>1, AdminMoves, ZenonT(60) DEF pause_process_queue, poolState
<1>2. CASE stop_process_queue_thread(a) \/ await_paused(a) \/ check_paused(a)
             \/ join_process_queue_thread(a)
  BY <1>2, NothingShared, ZenonT(60)
     DEF stop_process_queue_thread, await_paused, check_paused, join_process_queue_thread, flags
<1>3. CASE apply_set_resource(a)
  <2>1. UNCHANGED <<stages, outstanding_requests_map_, flags, queue, query, held>>
    BY <1>3 DEF apply_set_resource
  <2>2. \/ UNCHANGED pool
        \/ \E n \in NewTotals : pool' = set_resource(pool, n.type, n.quantity)
    BY <1>3 DEF apply_set_resource
  <2>3. "outstanding" \in DOMAIN pool' /\ pool'.outstanding = pool.outstanding
    BY <1>0, <2>2, ZenonT(60) DEF set_resource
  <2> QED BY <1>0, <2>1, <2>3, AdminMoves, ZenonT(60) DEF flags
<1>4. CASE apply_set_concurrent_resource_grant_policy(a)
  <2>1. UNCHANGED <<stages, outstanding_requests_map_, flags, queue, query, held>>
    BY <1>4, ZenonT(60) DEF apply_set_concurrent_resource_grant_policy
  <2>2. \/ UNCHANGED pool
        \/ \E n \in NewPolicies :
             pool' = set_concurrent_resource_grant_policy(pool, n.type, n.policy)
    BY <1>4 DEF apply_set_concurrent_resource_grant_policy
  <2>3. "outstanding" \in DOMAIN pool' /\ pool'.outstanding = pool.outstanding
    BY <1>0, <2>2, ZenonT(60) DEF set_concurrent_resource_grant_policy
  <2> QED BY <1>0, <2>1, <2>3, AdminMoves DEF flags
<1>5. CASE resume_process_queue(a)
  <2>1. UNCHANGED <<stages, outstanding_requests_map_, queue, query, pool, held>>
    BY <1>5 DEF resume_process_queue, poolState
  <2>2. process_queue_is_paused_' => process_queue_is_paused_ /\ pause_process_queue_'
    BY <1>0, <1>5, ZenonT(60) DEF resume_process_queue, flags
  <2> QED BY <1>0, <2>1, <2>2, AdminMoves, ZenonT(60)
<1> QED BY <1>1, <1>2, <1>3, <1>4, <1>5, ZenonT(60) DEF AdminStep

-----------------------------------------------------------------------------
(***************************************************************************)
(* The theorems.                                                           *)
(***************************************************************************)
\* Every step of every thread keeps the invariant.
LEMMA IInvNext == IInv /\ [Next]_mgrVars => IInv'
<1> SUFFICES ASSUME IInv, [Next]_mgrVars PROVE IInv'
  OBVIOUS
<1>1. CASE UNCHANGED mgrVars
  BY <1>1, NothingShared DEF mgrVars, flags, stages, poolState
<1>2. CASE Quiescent
  BY <1>1, <1>2 DEF Quiescent
<1>3. ASSUME NEW q \in Clients, request_resources(q) \/ QueryStep(q) \/ expire(q)
      PROVE  IInv'
  <2>1. CASE request_resources(q) \/ retry_request(q)
    BY <2>1, CalculateStep DEF request_resources, retry_request
  <2>2. CASE enqueue_request(q)
    BY <2>2, EnqueueStep
  <2>3. CASE \/ set_process_queue_flag(q, "enqueued", "notified")
             \/ set_process_queue_flag(q, "finished", "done")
             \/ expire(q)
    BY <2>3, FlagStep
  <2>4. CASE get_semaphore_for_request(q) \/ acquire(q) \/ delete_semaphore_for_request(q)
    BY <2>4, SemaphoreStep
  <2>5. CASE mark_request_timed_out(q)
    BY <2>5, TimedOutStep
  <2>6. CASE read_grant(q)
    BY <2>6, ReadGrantStep
  <2>7. CASE handle_resource_stat_error(q) \/ mark_request_finished(q)
    BY <2>7, OverStep
  <2>8. CASE release_resources(q)
    BY <2>8, ReleaseStep
  <2> QED BY <1>3, <2>1, <2>2, <2>3, <2>4, <2>5, <2>6, <2>7, <2>8, ZenonT(60) DEF QueryStep
<1>4. CASE process_queue_loop
  BY <1>4, SleepStep, ChooseStep, DequeueStep, AllocateStep, WakeStep, ZenonT(60) DEF process_queue_loop
<1>5. ASSUME NEW a \in Admins,
             pause_process_queue(a) \/ stop_process_queue_thread(a) \/ AdminStep(a)
      PROVE  IInv'
  BY <1>5, AdminSteps
<1> QED BY <1>1, <1>2, <1>3, <1>4, <1>5, ZenonT(60) DEF Next

\* The counters and the stages agree, and a request is in one stage at a time: for any
\* number of queries, timeouts and administrative threads
\* (enqueue_request, mark_request_dequed, mark_request_timed_out, mark_request_finished).
THEOREM StagesAlwaysMatch == Spec => []StagesMatchCounters
<1>1. IInv => StagesMatchCounters
  BY ZenonT(60) DEF IInv, StagesInv
<1> QED BY <1>1, IInvInit, IInvNext, PTL DEF Spec

\* Whatever the pool has given out belongs to a request in stage EXECUTING, and is
\* counted once: the queue thread allocates once what it dequeued, and the query thread
\* returns it once before it leaves the stage.
THEOREM AllocationsAreExecuting == Spec => []AllocatedIsExecuting
<1>1. IInv => AllocatedIsExecuting
  BY ZenonT(60) DEF IInv, HeldInv, AllocatedIsExecuting
<1> QED BY <1>1, IInvInit, IInvNext, PTL DEF Spec

\* While process_queue_is_paused_ holds nothing executes and nothing is allocated, with
\* any number of threads that pause, change the pool and resume.
THEOREM PausedIsIdle == Spec => []PausedMeansIdle
<1>1. IInv => PausedMeansIdle
  <2> SUFFICES ASSUME IInv, process_queue_is_paused_
               PROVE  executing_requests_ = {} /\ pool.outstanding = 0
    BY DEF PausedMeansIdle
  <2>1. executing_requests_ = {} /\ DOMAIN held = {}
    BY ZenonT(60) DEF IInv, PausedInv, HeldInv
  <2> QED BY <2>1, FS_EmptySet DEF IInv, HeldInv
<1> QED BY <1>1, IInvInit, IInvNext, PTL DEF Spec

-----------------------------------------------------------------------------
(***************************************************************************)
(* What a request runs on.  The grant is written to the statistics of a    *)
(* request while it is queued and allocated once it is not: it does not    *)
(* change between the two, nor until it is returned.                       *)
(***************************************************************************)
GrantInv ==
  \A id \in DOMAIN held : /\ held[id].grant = requests_stats_[id].actual
                          /\ held[id].request = requests_stats_[id].info

\* A step that writes the entry of a queued request writes that of no holder.
LEMMA QueuedEntryKeepsGrants ==
  ASSUME IInv, GrantInv, NEW k \in queued_requests_, NEW e,
         requests_stats_' = [requests_stats_ EXCEPT ![k] = e], UNCHANGED held
  PROVE  GrantInv'
<1>1. k \in Ids /\ k \notin DOMAIN held /\ DOMAIN held \subseteq Ids
  BY ZenonT(60) DEF IInv, StagesInv, StagesMatchCounters, HeldInv
<1>2. \A i \in Ids : i # k => requests_stats_'[i] = requests_stats_[i]
  BY <1>1, UpdateEntry DEF IInv, ShapeInv
<1> QED BY <1>1, <1>2 DEF GrantInv

\* Every step keeps the grants of the holders and of the statistics the same.
LEMMA GrantInvNext == IInv /\ GrantInv /\ [Next]_mgrVars => GrantInv'
<1> SUFFICES ASSUME IInv, GrantInv, [Next]_mgrVars PROVE GrantInv'
  OBVIOUS
<1>1. CASE UNCHANGED <<requests_stats_, held>>
  BY <1>1, Zenon DEF GrantInv
<1>2. CASE Quiescent \/ UNCHANGED mgrVars
  BY <1>1, <1>2, Zenon DEF Quiescent, mgrVars, stages, poolState
<1>3. ASSUME NEW q \in Clients, request_resources(q) \/ QueryStep(q) \/ expire(q)
      PROVE  GrantInv'
  <2>1. CASE enqueue_request(q)
    <3>1. PICK e : requests_stats_' = Append(requests_stats_, e) /\ UNCHANGED held
      BY <2>1, Zenon DEF enqueue_request, poolState
    <3>2. \A i \in Ids : requests_stats_'[i] = requests_stats_[i]
      BY <3>1, AppendEntry DEF IInv, ShapeInv, Ids
    <3>3. DOMAIN held \subseteq Ids
      BY DEF IInv, StagesInv, HeldInv
    <3> QED BY <3>1, <3>2, <3>3, ZenonT(60) DEF GrantInv
  <2>2. CASE mark_request_timed_out(q)
    <3> DEFINE e == [requests_stats_[query[q].id] EXCEPT !.timed_out = TRUE]
    <3>1. \/ UNCHANGED requests_stats_
          \/ /\ query[q].id \in queued_requests_
             /\ requests_stats_' = [requests_stats_ EXCEPT ![query[q].id] = e]
      BY <2>2 DEF mark_request_timed_out, stages
    <3>2. UNCHANGED held
      BY <2>2 DEF mark_request_timed_out, poolState
    <3> HIDE DEF e
    <3> QED BY <1>1, <3>1, <3>2, QueuedEntryKeepsGrants, Zenon
  <2>3. CASE release_resources(q)
    <3>1. /\ UNCHANGED requests_stats_
          /\ \/ UNCHANGED held
             \/ held' = [i \in DOMAIN held \ {query[q].id} |-> held[i]]
      BY <2>3 DEF release_resources, stages, poolState
    <3> QED BY <3>1, Zenon DEF GrantInv
  <2>4. CASE \/ request_resources(q) \/ retry_request(q) \/ expire(q)
             \/ set_process_queue_flag(q, "enqueued", "notified")
             \/ set_process_queue_flag(q, "finished", "done")
             \/ get_semaphore_for_request(q) \/ acquire(q) \/ delete_semaphore_for_request(q)
             \/ read_grant(q) \/ handle_resource_stat_error(q) \/ mark_request_finished(q)
    <3>1. UNCHANGED <<requests_stats_, held>>
      BY <2>4, ZenonT(60) DEF request_resources, retry_request, Calculate, expire, set_process_queue_flag,
                  get_semaphore_for_request, acquire, delete_semaphore_for_request, read_grant,
                  handle_resource_stat_error, mark_request_finished, stages, poolState
    <3> QED BY <1>1, <3>1
  <2> QED BY <1>3, <2>1, <2>2, <2>3, <2>4, ZenonT(60) DEF QueryStep
<1>4. CASE choose_next_request
  <2>1. UNCHANGED held
    BY <1>4 DEF choose_next_request, poolState
  <2>2. CASE UNCHANGED requests_stats_
    BY <1>1, <2>1, <2>2
  <2>3. ASSUME NEW id \in queued_requests_, is_next(id), loop_chooses(id) PROVE GrantInv'
    <3>1. \/ UNCHANGED requests_stats_
          \/ \E e : requests_stats_' = [requests_stats_ EXCEPT ![id] = e]
      BY <2>3, ChoosesEntry
    <3> QED BY <2>1, <2>2, <3>1, QueuedEntryKeepsGrants
  <2> QED BY <1>4, <2>2, <2>3, Zenon DEF choose_next_request
<1>5. CASE mark_request_dequed
  <2> DEFINE e == [requests_stats_[queue.id] EXCEPT !.finished_queueing = TRUE]
  <2>1. \/ UNCHANGED requests_stats_
        \/ /\ queue.id \in queued_requests_
           /\ requests_stats_' = [requests_stats_ EXCEPT ![queue.id] = e]
    BY <1>5 DEF mark_request_dequed, stages
  <2>2. UNCHANGED held
    BY <1>5 DEF mark_request_dequed, poolState
  <2> HIDE DEF e
  <2> QED BY <1>1, <2>1, <2>2, QueuedEntryKeepsGrants
<1>6. CASE loop_allocates
  <2>1. /\ UNCHANGED requests_stats_
        /\ \/ UNCHANGED held
           \/ held' = With(held, queue.id, [request |-> requests_stats_[queue.id].info,
                                            grant |-> requests_stats_[queue.id].actual])
    BY <1>6, Zenon DEF loop_allocates, stages, poolState
  <2> QED BY <2>1 DEF GrantInv, With
<1>7. CASE loop_pauses \/ loop_stops \/ wake_request_by_id
  BY <1>1, <1>7, ZenonT(60) DEF loop_pauses, loop_stops, wake_request_by_id, stages, poolState
<1>8. ASSUME NEW a \in Admins,
             pause_process_queue(a) \/ stop_process_queue_thread(a) \/ AdminStep(a)
      PROVE  GrantInv'
  <2>1. UNCHANGED <<requests_stats_, held>>
    BY <1>8 DEF AdminStep, pause_process_queue, stop_process_queue_thread, await_paused,
                check_paused, apply_set_resource, apply_set_concurrent_resource_grant_policy,
                resume_process_queue, join_process_queue_thread, stages, poolState
  <2> QED BY <1>1, <2>1
<1> QED BY <1>2, <1>3, <1>4, <1>5, <1>6, <1>7, <1>8, ZenonT(60) DEF Next, process_queue_loop

\* A query thread runs only on resources that the pool has set aside for its request, and
\* on exactly the grant that was determined for it, whatever happens between the mutex
\* that is held when the grant is determined, the one that is held when it is allocated,
\* and the semaphore (process_queue_loop, request_resources_with_timeout).
THEOREM RunsOnGrant == Spec => []RunsOnItsGrant
<1>1. Init => GrantInv
  <2>1. Init => held = <<>>
    BY Zenon DEF Init, PoolInit
  <2>2. held = <<>> => DOMAIN held = {}
    OBVIOUS
  <2> QED BY <2>1, <2>2, Zenon DEF GrantInv
<1>2. IInv /\ GrantInv => RunsOnItsGrant
  BY Zenon DEF IInv, HeldInv, GrantInv, RunsOnItsGrant
<1> QED BY <1>1, <1>2, IInvInit, IInvNext, GrantInvNext, PTL DEF Spec

-----------------------------------------------------------------------------
(***************************************************************************)
(* One thread that pauses.  pause_process_queue returns at once where      *)
(* another thread has asked for a pause, so a thread has the executors for *)
(* itself only if it is the only one to pause the queue.  Then the queue   *)
(* is paused from before the thread is "inside" until it resumes it, the   *)
(* limits of the pool change only in between, and no grant is missed.      *)
(***************************************************************************)
OnePauser == \A a, b \in Admins : AdminOp[a] # "stop" /\ AdminOp[b] # "stop" => a = b

PauserInv ==
  /\ DOMAIN admin = Admins
  /\ \A a \in Admins :
       /\ AdminOp[a] = "stop" => admin[a] \in {"idle", "joining", "done"}
       /\ AdminOp[a] # "stop" /\ admin[a] = "idle" =>
            ~pause_process_queue_ /\ ~process_queue_is_paused_
       /\ admin[a] \in {"paused", "inside", "applied"} => process_queue_is_paused_

\* While the queue thread is busy with a request it is not to sleep after it.
BusyInv == queue.pc \in {"dequeue", "allocate", "wake"} => should_process_queue_

\* The flags of a pause belong to the one thread that pauses (pause_process_queue,
\* resume_process_queue).
LEMMA PauserInvNext ==
  ASSUME OnePauser, IInv, PauserInv, [Next]_mgrVars
  PROVE  PauserInv'
<1>1. CASE UNCHANGED <<admin, pause_process_queue_, process_queue_is_paused_>>
  BY <1>1, ZenonT(60) DEF PauserInv
<1>2. CASE Quiescent \/ UNCHANGED mgrVars
  BY <1>1, <1>2, ZenonT(60) DEF Quiescent, mgrVars, flags
<1>3. ASSUME NEW q \in Clients, request_resources(q) \/ QueryStep(q) \/ expire(q)
      PROVE  PauserInv'
  <2>1. UNCHANGED <<admin, pause_process_queue_, process_queue_is_paused_>>
    BY <1>3, ZenonT(60) DEF QueryStep, request_resources, retry_request, Calculate, expire,
         set_process_queue_flag, get_semaphore_for_request, acquire, enqueue_request,
         delete_semaphore_for_request, read_grant, mark_request_timed_out, release_resources,
         handle_resource_stat_error, mark_request_finished, flags
  <2> QED BY <1>1, <2>1
<1>4. CASE loop_stops \/ choose_next_request \/ mark_request_dequed \/ loop_allocates
             \/ wake_request_by_id
  BY <1>1, <1>4, ZenonT(60) DEF loop_stops, choose_next_request, mark_request_dequed,
       loop_allocates, wake_request_by_id, flags
<1>5. CASE loop_pauses
  <2>1. /\ pause_process_queue_ /\ UNCHANGED <<admin, pause_process_queue_>>
        /\ process_queue_is_paused_ => process_queue_is_paused_'
    BY <1>5, ZenonT(60) DEF loop_pauses
  <2> QED BY <2>1, ZenonT(60) DEF PauserInv
<1>6. ASSUME NEW a \in Admins,
             pause_process_queue(a) \/ stop_process_queue_thread(a) \/ AdminStep(a)
      PROVE  PauserInv'
  <2>0. ASSUME NEW pc, AdminGoto(a, pc)
        PROVE  /\ DOMAIN admin' = Admins /\ admin'[a] = pc
               /\ \A b \in Admins : b # a => admin'[b] = admin[b]
    BY <2>0 DEF AdminGoto, PauserInv
  <2>1. CASE pause_process_queue(a)
    <3>1. /\ AdminOp[a] # "stop" /\ ~pause_process_queue_ /\ ~process_queue_is_paused_
          /\ AdminGoto(a, "pausing") /\ UNCHANGED process_queue_is_paused_
      BY <2>1, ZenonT(60) DEF pause_process_queue, PauserInv
    <3>2. /\ DOMAIN admin' = Admins /\ admin'[a] = "pausing"
          /\ \A b \in Admins : b # a => admin'[b] = admin[b]
      BY <2>0, <3>1
    <3> QED BY <3>1, <3>2 DEF PauserInv, OnePauser
  <2>2. CASE stop_process_queue_thread(a)
    <3>1. /\ AdminOp[a] = "stop" /\ AdminGoto(a, "joining")
          /\ UNCHANGED <<pause_process_queue_, process_queue_is_paused_>>
      BY <2>2, ZenonT(60) DEF stop_process_queue_thread
    <3>2. /\ DOMAIN admin' = Admins /\ admin'[a] = "joining"
          /\ \A b \in Admins : b # a => admin'[b] = admin[b]
      BY <2>0, <3>1
    <3> QED BY <3>1, <3>2 DEF PauserInv
  <2>3. CASE await_paused(a)
    <3>1. /\ admin[a] = "pausing" /\ process_queue_is_paused_ /\ AdminGoto(a, "paused")
          /\ UNCHANGED <<pause_process_queue_, process_queue_is_paused_>>
      BY <2>3, ZenonT(60) DEF await_paused, flags
    <3>2. /\ DOMAIN admin' = Admins /\ admin'[a] = "paused"
          /\ \A b \in Admins : b # a => admin'[b] = admin[b]
      BY <2>0, <3>1
    <3> QED BY <3>1, <3>2 DEF PauserInv
  <2>4. CASE check_paused(a)
    <3>1. /\ admin[a] = "paused" /\ (AdminGoto(a, "inside") \/ UNCHANGED admin)
          /\ UNCHANGED <<pause_process_queue_, process_queue_is_paused_>>
      BY <2>4, ZenonT(60) DEF check_paused, flags
    <3>2. CASE AdminGoto(a, "inside")
      <4>1. /\ DOMAIN admin' = Admins /\ admin'[a] = "inside"
            /\ \A b \in Admins : b # a => admin'[b] = admin[b]
        BY <2>0, <3>2
      <4> QED BY <3>1, <4>1 DEF PauserInv
    <3> QED BY <1>1, <3>1, <3>2
  <2>5. CASE apply_set_resource(a) \/ apply_set_concurrent_resource_grant_policy(a)
    <3>1. /\ admin[a] = "inside" /\ AdminOp[a] = "settings"
          /\ AdminGoto(a, "applied") \/ AdminGoto(a, "threw") \/ UNCHANGED admin
          /\ UNCHANGED <<pause_process_queue_, process_queue_is_paused_>>
      BY <2>5, ZenonT(60)
         DEF apply_set_resource, apply_set_concurrent_resource_grant_policy, flags
    <3>2. ASSUME NEW pc \in {"applied", "threw"}, AdminGoto(a, pc) PROVE PauserInv'
      <4>1. /\ DOMAIN admin' = Admins /\ admin'[a] = pc
            /\ \A b \in Admins : b # a => admin'[b] = admin[b]
        BY <2>0, <3>2
      <4> QED BY <3>1, <4>1 DEF PauserInv
    <3> QED BY <1>1, <3>1, <3>2
  <2>6. CASE resume_process_queue(a)
    <3>1. /\ admin[a] \in {"inside", "applied"}
          /\ \/ UNCHANGED <<admin, pause_process_queue_, process_queue_is_paused_>>
             \/ /\ AdminGoto(a, "done")
                /\ \/ UNCHANGED <<pause_process_queue_, process_queue_is_paused_>>
                   \/ ~process_queue_is_paused_' /\ ~pause_process_queue_'
      BY <2>6, ZenonT(60) DEF resume_process_queue, flags
    <3>2. AdminOp[a] # "stop"
      BY <3>1 DEF PauserInv
    <3>3. CASE AdminGoto(a, "done")
      <4>1. /\ DOMAIN admin' = Admins /\ admin'[a] = "done"
            /\ \A b \in Admins : b # a => admin'[b] = admin[b]
        BY <2>0, <3>3
      <4>2. \A b \in Admins : b # a => AdminOp[b] = "stop"
        BY <3>2 DEF OnePauser
      <4> QED BY <3>1, <3>2, <4>1, <4>2 DEF PauserInv
    <3> QED BY <1>1, <3>1, <3>3
  <2>7. CASE join_process_queue_thread(a)
    <3>1. /\ admin[a] = "joining" /\ AdminGoto(a, "done")
          /\ UNCHANGED <<pause_process_queue_, process_queue_is_paused_>>
      BY <2>7, ZenonT(60) DEF join_process_queue_thread, flags
    <3>2. /\ DOMAIN admin' = Admins /\ admin'[a] = "done"
          /\ \A b \in Admins : b # a => admin'[b] = admin[b]
      BY <2>0, <3>1
    <3> QED BY <3>1, <3>2 DEF PauserInv
  <2> QED BY <1>6, <2>1, <2>2, <2>3, <2>4, <2>5, <2>6, <2>7, ZenonT(60) DEF AdminStep
<1> QED BY <1>2, <1>3, <1>4, <1>5, <1>6, ZenonT(60) DEF Next, process_queue_loop

\* Where one thread pauses the queue, it has the executors for itself from the moment
\* pause_process_queue returns until it resumes the queue: nothing executes meanwhile
\* (clear_cpu_memory, clear_gpu_memory, set_resource).
THEOREM OnePauserIsAlone ==
  ASSUME OnePauser
  PROVE  Spec => []PauserIsAlone
<1>1. Init => PauserInv
  BY ZenonT(60) DEF Init, PauserInv
<1>2. IInv /\ PauserInv => PauserIsAlone
  BY ZenonT(60) DEF IInv, PausedInv, PauserInv, PauserIsAlone
<1>3. IInv /\ PauserInv /\ [Next]_mgrVars => PauserInv'
  BY PauserInvNext
<1> QED BY <1>1, <1>2, <1>3, IInvInit, IInvNext, PTL DEF Spec

\* The queue thread may sleep on what is queued.
Asleep ==
  /\ queue.pc = "wait" /\ ~should_process_queue_ /\ ~pause_process_queue_
  /\ \A q \in Clients : query[q].pc \notin {"deallocated", "finished"}
Announced(id) == \E q \in Clients : query[q].pc = "enqueued" /\ query[q].id = id
MissedInv == Asleep => \A id \in queued_requests_ : outcome(id) = "waits" \/ Announced(id)

\* What becomes of a request depends on its entry and on the pool.
LEMMA SameOutcome ==
  ASSUME NEW id, requests_stats_'[id] = requests_stats_[id], UNCHANGED pool
  PROVE  outcome(id)' = outcome(id)
BY ZenonT(60) DEF outcome

\* A step that does not put the queue thread to sleep, and after which the same requests
\* wait for the same, misses no grant.
LEMMA NoneMissed ==
  ASSUME MissedInv, Asleep' => Asleep, UNCHANGED <<requests_stats_, pool>>,
         queued_requests_' \subseteq queued_requests_,
         \A q \in Clients : query[q].pc = "enqueued" =>
           query'[q].pc = "enqueued" /\ query'[q].id = query[q].id
  PROVE  MissedInv'
<1>1. \A id : outcome(id)' = outcome(id)
  BY SameOutcome, ZenonT(60)
<1>2. \A id : Announced(id) => Announced(id)'
  BY ZenonT(60) DEF Announced
<1> QED BY <1>1, <1>2, ZenonT(60) DEF MissedInv

\* The same for a step of one query thread.
LEMMA ThreadMissesNone ==
  ASSUME IInv, MissedInv, NEW q \in Clients, NEW t, query' = [query EXCEPT ![q] = t],
         UNCHANGED <<queued_requests_, requests_stats_, pool, queue, should_process_queue_,
                     pause_process_queue_>>,
         query[q].pc \notin {"enqueued", "deallocated", "finished"}
  PROVE  MissedInv'
<1>1. query'[q] = t /\ \A r \in Clients : r # q => query'[r] = query[r]
  BY ZenonT(60) DEF IInv, ShapeInv
<1>2. Asleep' => Asleep
  BY <1>1, ZenonT(60) DEF Asleep
<1>3. \A r \in Clients : query[r].pc = "enqueued" =>
           query'[r].pc = "enqueued" /\ query'[r].id = query[r].id
  BY <1>1, ZenonT(60)
<1> QED BY <1>2, <1>3, NoneMissed, ZenonT(60)

\* The steps of a query thread miss no grant.
LEMMA QueryMissesNone ==
  ASSUME IInv, MissedInv, NEW q \in Clients,
         request_resources(q) \/ QueryStep(q) \/ expire(q)
  PROVE  MissedInv'
<1>0. ASSUME NEW pc, Goto(q, pc)
      PROVE  /\ \E t : query' = [query EXCEPT ![q] = t]
             /\ query'[q].pc = pc
  BY <1>0, ZenonT(60) DEF Goto, IInv, ShapeInv, ThreadFields
<1>1. CASE enqueue_request(q)
  <2> DEFINE id == Len(requests_stats_) + 1
  <2>1. PICK e : requests_stats_' = Append(requests_stats_, e)
    BY <1>1, ZenonT(60) DEF enqueue_request
  <2>2. /\ queued_requests_' = queued_requests_ \cup {id}
        /\ query' = [query EXCEPT ![q].pc = "enqueued", ![q].id = id]
        /\ query[q].pc = "calculated"
        /\ UNCHANGED <<pool, queue, should_process_queue_, pause_process_queue_>>
    BY <1>1, ZenonT(60) DEF enqueue_request, flags, poolState
  <2>3. \A i \in queued_requests_ : requests_stats_'[i] = requests_stats_[i]
    <3>1. \A i \in Ids : requests_stats_'[i] = requests_stats_[i]
      BY <2>1, AppendEntry DEF IInv, ShapeInv, Ids
    <3> QED BY <3>1, ZenonT(60) DEF IInv, StagesInv
  <2>4. /\ query'[q].pc = "enqueued" /\ query'[q].id = id
        /\ \A r \in Clients : r # q => query'[r] = query[r]
    BY <2>2 DEF IInv, ShapeInv, ThreadFields
  <2> HIDE DEF id
  <2>5. Asleep' => Asleep
    BY <2>2, <2>4, ZenonT(60) DEF Asleep
  <2>6. \A i : Announced(i) => Announced(i)'
    BY <2>2, <2>4, ZenonT(60) DEF Announced
  <2>7. \A i : i = id => Announced(i)'
    BY <2>4, ZenonT(60) DEF Announced
  <2>8. \A i \in queued_requests_ : outcome(i)' = outcome(i)
    BY <2>2, <2>3, SameOutcome, ZenonT(60)
  <2> QED BY <2>2, <2>5, <2>6, <2>7, <2>8, ZenonT(60) DEF MissedInv
<1>2. CASE \/ set_process_queue_flag(q, "enqueued", "notified")
           \/ set_process_queue_flag(q, "finished", "done")
  BY <1>2, ZenonT(60) DEF set_process_queue_flag, MissedInv, Asleep
<1>3. CASE mark_request_timed_out(q)
  <2> DEFINE id == query[q].id
             e == [requests_stats_[id] EXCEPT !.timed_out = TRUE]
  <2>1. /\ query[q].pc = "marking"
        /\ UNCHANGED <<pool, queue, should_process_queue_, pause_process_queue_>>
    BY <1>3, ZenonT(60) DEF mark_request_timed_out, flags, poolState
  <2>2. CASE UNCHANGED <<stages, query>>
    BY <2>1, <2>2, NoneMissed, ZenonT(60) DEF stages, Asleep
  <2>3. CASE /\ id \in queued_requests_
             /\ requests_stats_' = [requests_stats_ EXCEPT ![id] = e]
             /\ queued_requests_' = queued_requests_ \ {id}
             /\ Goto(q, "timed_out")
    <3>1. id \in Ids /\ queued_requests_ \subseteq Ids
      BY <2>3, ZenonT(60) DEF IInv, StagesInv
    <3> HIDE DEF e, id
    <3>2. \A i \in Ids : i # id => requests_stats_'[i] = requests_stats_[i]
      BY <2>3, <3>1, UpdateEntry, ZenonT(60) DEF IInv, ShapeInv
    <3>3. \A i \in queued_requests_' : i \in queued_requests_ /\ outcome(i)' = outcome(i)
      BY <2>1, <2>3, <3>1, <3>2, SameOutcome, ZenonT(60)
    <3>4. \A r \in Clients : r # q => query'[r] = query[r]
      BY <1>0, <2>3, ZenonT(60) DEF IInv, ShapeInv
    <3>5. Asleep' => Asleep
      BY <2>1, <3>4, ZenonT(60) DEF Asleep
    <3>6. \A i : Announced(i) => Announced(i)'
      BY <2>1, <3>4, ZenonT(60) DEF Announced
    <3> QED BY <3>3, <3>5, <3>6, ZenonT(60) DEF MissedInv
  <2> QED BY <1>3, <2>2, <2>3, ZenonT(60) DEF mark_request_timed_out
<1>4. CASE release_resources(q)
  <2>1. CASE Goto(q, "deallocated")
    BY <1>0, <2>1, ZenonT(60) DEF MissedInv, Asleep
  <2>2. CASE UNCHANGED <<poolState, query>>
    BY <1>4, <2>2, NoneMissed, ZenonT(60) DEF release_resources, stages, flags, poolState, Asleep
  <2> QED BY <1>4, <2>1, <2>2, ZenonT(60) DEF release_resources
<1>5. CASE mark_request_finished(q)
  BY <1>0, <1>5, ZenonT(60) DEF mark_request_finished, MissedInv, Asleep
<1>6. CASE \/ request_resources(q) \/ retry_request(q) \/ expire(q)
           \/ get_semaphore_for_request(q) \/ acquire(q) \/ delete_semaphore_for_request(q)
           \/ read_grant(q) \/ handle_resource_stat_error(q)
  <2>1. /\ UNCHANGED <<queued_requests_, requests_stats_, pool, queue, should_process_queue_,
                       pause_process_queue_>>
        /\ query[q].pc \notin {"enqueued", "deallocated", "finished"}
    BY <1>6, ZenonT(60) DEF request_resources, retry_request, Calculate, expire,
                get_semaphore_for_request, acquire, delete_semaphore_for_request, read_grant,
                handle_resource_stat_error, stages, flags, poolState
  <2>2. ASSUME NEW info, NEW error, raise(q, info, error)
        PROVE  \E t : query' = [query EXCEPT ![q] = t]
    BY <2>2, RaiseLeaves, ZenonT(60)
  <2>3. ASSUME NEW info, Calculate(q, info) PROVE \E t : query' = [query EXCEPT ![q] = t]
    BY <2>2, <2>3, ZenonT(60) DEF Calculate
  <2>4. (\E t : query' = [query EXCEPT ![q] = t]) \/ UNCHANGED query
    BY <1>0, <1>6, <2>2, <2>3, ZenonT(60) DEF request_resources, retry_request, expire,
                get_semaphore_for_request, acquire, delete_semaphore_for_request, read_grant,
                handle_resource_stat_error
  <2>5. CASE UNCHANGED query
    BY <2>1, <2>5, NoneMissed, ZenonT(60) DEF Asleep
  <2> QED BY <2>1, <2>4, <2>5, ThreadMissesNone, ZenonT(60)
<1> QED BY <1>1, <1>2, <1>3, <1>4, <1>5, <1>6, ZenonT(60) DEF QueryStep

\* Every step misses no grant.  The queue thread goes to sleep only after it has looked
\* at every queued request; an administrative thread changes the pool only while the
\* queue is paused.
LEMMA MissedInvNext ==
  ASSUME IInv, PauserInv, BusyInv, MissedInv, [Next]_mgrVars
  PROVE  MissedInv' /\ BusyInv'
<1>1. CASE Quiescent \/ UNCHANGED mgrVars
  <2>1. UNCHANGED <<requests_stats_, pool, queued_requests_, query, queue,
                    should_process_queue_, pause_process_queue_>>
    BY <1>1, ZenonT(60) DEF Quiescent, mgrVars, flags, stages, poolState
  <2> QED BY <2>1, NoneMissed, ZenonT(60) DEF Asleep, BusyInv
<1>2. ASSUME NEW q \in Clients, request_resources(q) \/ QueryStep(q) \/ expire(q)
      PROVE  MissedInv' /\ BusyInv'
  <2>1. UNCHANGED queue /\ (UNCHANGED should_process_queue_ \/ should_process_queue_')
    BY <1>2, ZenonT(60) DEF QueryStep, request_resources, retry_request, Calculate, expire,
         set_process_queue_flag, get_semaphore_for_request, acquire, enqueue_request,
         delete_semaphore_for_request, read_grant, mark_request_timed_out, release_resources,
         handle_resource_stat_error, mark_request_finished, flags
  <2> QED BY <1>2, <2>1, QueryMissesNone, ZenonT(60) DEF BusyInv
<1>3. CASE loop_pauses
  BY <1>3, ZenonT(60) DEF loop_pauses, MissedInv, BusyInv, Asleep
<1>4. CASE loop_stops
  <2>1. queue'.pc = "stopped"
    BY <1>4 DEF loop_stops, IInv, ShapeInv
  <2> QED BY <2>1, ZenonT(60) DEF MissedInv, BusyInv, Asleep
<1>5. CASE choose_next_request
  <2>1. queue.pc = "wait" /\ should_process_queue_ /\ UNCHANGED <<pool, queued_requests_>>
    BY <1>5, ZenonT(60) DEF choose_next_request, poolState
  <2>2. ASSUME NEW id, loop_chooses(id), UNCHANGED should_process_queue_
        PROVE  MissedInv' /\ BusyInv'
    BY <2>1, <2>2, ZenonT(60) DEF MissedInv, BusyInv, Asleep
  <2>3. CASE /\ \A id \in queued_requests_ : outcome(id) = "waits"
             /\ UNCHANGED <<requests_stats_, queue>>
    <3>1. \A id : outcome(id)' = outcome(id)
      BY <2>1, <2>3, SameOutcome, ZenonT(60)
    <3> QED BY <2>1, <2>3, <3>1 DEF MissedInv, BusyInv
  <2> QED BY <1>5, <2>2, <2>3, ZenonT(60) DEF choose_next_request
<1>6. CASE mark_request_dequed \/ loop_allocates
  <2>1. /\ queue.pc \in {"dequeue", "allocate"} /\ UNCHANGED should_process_queue_
    BY <1>6, ZenonT(60) DEF mark_request_dequed, loop_allocates, flags
  <2> QED BY <2>1, ZenonT(60) DEF MissedInv, BusyInv, Asleep
<1>7. CASE wake_request_by_id
  BY <1>7, ZenonT(60) DEF wake_request_by_id, MissedInv, BusyInv, Asleep, flags
<1>8. ASSUME NEW a \in Admins,
             pause_process_queue(a) \/ stop_process_queue_thread(a) \/ AdminStep(a)
      PROVE  MissedInv' /\ BusyInv'
  <2>1. UNCHANGED <<requests_stats_, queued_requests_, query, queue>>
    BY <1>8, ZenonT(60) DEF AdminStep, pause_process_queue, stop_process_queue_thread, await_paused,
                check_paused, apply_set_resource, apply_set_concurrent_resource_grant_policy,
                resume_process_queue, join_process_queue_thread, stages
  <2>2. CASE pause_process_queue(a)
    <3>1. /\ pause_process_queue_' \/ UNCHANGED pause_process_queue_
          /\ UNCHANGED <<pool, should_process_queue_>>
      BY <2>2, ZenonT(60) DEF pause_process_queue, poolState
    <3>2. CASE pause_process_queue_'
      BY <2>1, <3>1, <3>2, ZenonT(60) DEF MissedInv, BusyInv, Asleep
    <3>3. CASE UNCHANGED pause_process_queue_
      BY <2>1, <3>1, <3>3, NoneMissed, ZenonT(60) DEF BusyInv, Asleep
    <3> QED BY <3>1, <3>2, <3>3
  <2>3. CASE \/ stop_process_queue_thread(a) \/ await_paused(a) \/ check_paused(a)
             \/ join_process_queue_thread(a)
    <3>1. UNCHANGED <<pool, should_process_queue_, pause_process_queue_>>
      BY <2>3, ZenonT(60) DEF stop_process_queue_thread, await_paused, check_paused,
           join_process_queue_thread, flags, poolState
    <3> QED BY <2>1, <3>1, NoneMissed, ZenonT(60) DEF BusyInv, Asleep
  <2>4. CASE apply_set_resource(a) \/ apply_set_concurrent_resource_grant_policy(a)
    <3>1. admin[a] = "inside" /\ UNCHANGED <<should_process_queue_, pause_process_queue_>>
      BY <2>4, ZenonT(60)
         DEF apply_set_resource, apply_set_concurrent_resource_grant_policy, flags
    <3>2. pause_process_queue_
      BY <3>1, ZenonT(60) DEF PauserInv, IInv, PausedInv
    <3> QED BY <2>1, <3>1, <3>2, ZenonT(60) DEF MissedInv, BusyInv, Asleep
  <2>5. CASE resume_process_queue(a)
    <3>1. UNCHANGED pool /\ (should_process_queue_' \/ UNCHANGED flags)
      BY <2>5, ZenonT(60) DEF resume_process_queue, poolState
    <3>2. CASE should_process_queue_'
      BY <3>2, ZenonT(60) DEF MissedInv, BusyInv, Asleep
    <3>3. CASE UNCHANGED flags
      BY <2>1, <3>1, <3>3, NoneMissed, ZenonT(60) DEF BusyInv, Asleep, flags
    <3> QED BY <3>1, <3>2, <3>3
  <2> QED BY <1>8, <2>2, <2>3, <2>4, <2>5, ZenonT(60) DEF AdminStep
<1> QED BY <1>1, <1>2, <1>3, <1>4, <1>5, <1>6, <1>7, <1>8, ZenonT(60)
       DEF Next, process_queue_loop

\* Where one thread pauses the queue, no wake-up is lost: when the queue thread sleeps,
\* every queued request waits for resources that are in use, or its thread is about to
\* set should_process_queue_ (process_queue_loop, set_process_queue_flag,
\* resume_process_queue).
THEOREM NoLostWakeup ==
  ASSUME OnePauser
  PROVE  Spec => []NoGrantMissed
<1>1. Init => PauserInv /\ BusyInv /\ MissedInv
  <2>1. Init => PauserInv /\ BusyInv
    BY DEF Init, PauserInv, BusyInv
  <2>2. Init => MissedInv
    BY ZenonT(60) DEF Init, MissedInv
  <2> QED BY <2>1, <2>2
<1>2. MissedInv => NoGrantMissed
  BY ZenonT(60) DEF MissedInv, Asleep, Announced, NoGrantMissed
<1>3. IInv /\ PauserInv /\ [Next]_mgrVars => PauserInv'
  BY PauserInvNext
<1>4. IInv /\ PauserInv /\ BusyInv /\ MissedInv /\ [Next]_mgrVars => BusyInv' /\ MissedInv'
  BY MissedInvNext
<1> QED BY <1>1, <1>2, <1>3, <1>4, IInvInit, IInvNext, PTL DEF Spec

=============================================================================
