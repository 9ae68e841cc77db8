------------------------- MODULE ExecutorResourceMgr -------------------------
(***************************************************************************)
(* The manager of executor resources.  Query threads request resources,    *)
(* wait on a semaphore each until the queue thread grants them, run, and   *)
(* return them.  Administrative threads pause the queue, do something that *)
(* needs the executors idle, and resume it.                                *)
(*                                                                         *)
(* One action is one critical section.  processor_queue_mutex_ is held by  *)
(* the queue thread through an iteration of its loop, so a thread that     *)
(* needs it waits for the queue thread to be at "wait"; queue_stats_mutex_ *)
(* and the mutex of the pool are held for one action only.  A wait on a    *)
(* condition variable is the guard it waits for: every change of what a    *)
(* predicate reads is made under the mutex and followed by a notification. *)
(***************************************************************************)
EXTENDS ExecutorResourcePool, Sequences, FiniteSetsExt

CONSTANTS TimedClients,  \* clients that request resources with a timeout
          Admins,        \* administrative threads
          AdminOp,       \* what each does: "clear_memory", "settings" or "stop"
          NewTotals,     \* what set_resource may set: records [type, quantity]
          NewPolicies,   \* what set_concurrent_resource_grant_policy may: [type, policy]
          AutoShrink,    \* g_executor_resource_mgr_allow_auto_shrink_num_cpu_slot_...
          PageSize       \* heavyai::get_page_size()

ASSUME ClientsAssumption == TimedClients \subseteq Clients
ASSUME PageSizeAssumption == PageSize \in Nat \ {0}

VARIABLES requests_stats_,            \* every request made, by id
          queued_requests_,           \* ids in stage QUEUED
          executing_requests_,        \* ids in stage EXECUTING
          executor_stats_,            \* the counters
          outstanding_requests_map_,  \* id -> whether its semaphore is ready
          should_process_queue_,
          pause_process_queue_,
          process_queue_is_paused_,
          stop_process_queue_thread_,
          queue,                      \* the queue thread: [pc, id]
          query,                      \* the query threads: [pc, id, info, min, max]
          admin                       \* the administrative threads: pc

flags == <<should_process_queue_, pause_process_queue_, process_queue_is_paused_,
           stop_process_queue_thread_>>
stages == <<requests_stats_, queued_requests_, executing_requests_, executor_stats_>>
poolState == <<pool, held>>
mgrVars == <<stages, outstanding_requests_map_, flags, queue, query, admin, poolState, aborted>>

NoInfo == [device |-> "none"]
NoGrant == Grant(0, 0, 0, FALSE, 0, 0)

\* processor_queue_mutex_ is free.
QueueMutexFree == queue.pc \in {"wait", "stopped"}

Init ==
  /\ PoolInit
  /\ requests_stats_ = <<>>
  /\ queued_requests_ = {}
  /\ executing_requests_ = {}
  /\ executor_stats_ = [queue_length |-> 0, requests_executing |-> 0, requests_executed |-> 0,
                        requests_timed_out |-> 0, device_executing |-> [d \in Devices |-> 0]]
  /\ outstanding_requests_map_ = <<>>
  /\ should_process_queue_ = FALSE
  /\ pause_process_queue_ = FALSE
  /\ process_queue_is_paused_ = FALSE
  /\ stop_process_queue_thread_ = FALSE
  /\ queue = [pc |-> "wait", id |-> 0]
  /\ query = [q \in Clients |-> [pc |-> "idle", id |-> 0, info |-> NoInfo,
                                 min |-> NoGrant, max |-> NoGrant]]
  /\ admin = [a \in Admins |-> "idle"]

-----------------------------------------------------------------------------
(***************************************************************************)
(* A query thread: request_resources and release_resources.                *)
(***************************************************************************)
\* Map f with k mapped to v.
With(f, k, v) == [i \in DOMAIN f \cup {k} |-> IF i = k THEN v ELSE f[i]]

Goto(q, pc) == query' = [query EXCEPT ![q].pc = pc]

\* What request_resources does about an exception: it retries a request for too much
\* result memory with fewer CPU slots, once that makes a difference.
after_error(info, error) ==
  LET per_slot == info.cpu_result_mem \div info.cpu_slots
      adjusted_cpu_slots == pool.total["CPU_BUFFER_POOL_MEM"]
                              \div (PageSize * Ceil(per_slot, PageSize))
      retries == /\ AutoShrink /\ info.reusable /\ error = "CPU_RESULT_MEM"
                 /\ info.cpu_slots > 1
                 /\ adjusted_cpu_slots \notin {0, info.cpu_slots}
  IN IF retries
     THEN [pc |-> "retry", id |-> 0, min |-> NoGrant, max |-> NoGrant,
           info |-> [info EXCEPT !.cpu_slots = adjusted_cpu_slots,
                                 !.cpu_result_mem = per_slot * adjusted_cpu_slots]]
     ELSE [pc |-> "failed", id |-> 0, min |-> NoGrant, max |-> NoGrant, info |-> NoInfo]

\* A caller of request_resources_with_timeout gets the exception as it is.
raise(q, info, error) ==
  query' = [query EXCEPT ![q] =
              IF q \in TimedClients
              THEN [pc |-> "failed", id |-> 0, min |-> NoGrant, max |-> NoGrant, info |-> NoInfo]
              ELSE after_error(info, error)]

Calculate(q, info) ==
  LET e == calc_min_max_resource_grants_for_request(pool, info)
  IN /\ IF e.error = "none"
        THEN query' = [query EXCEPT ![q] = [pc |-> "calculated", id |-> 0, info |-> info,
                                            min |-> e.min, max |-> e.max]]
        ELSE raise(q, info, e.error)
     /\ UNCHANGED <<stages, outstanding_requests_map_, flags, queue, admin, poolState, aborted>>

request_resources(q) == query[q].pc = "idle" /\ \E info \in Requests : Calculate(q, info)
retry_request(q) == query[q].pc = "retry" /\ Calculate(q, query[q].info)

enqueue_request(q) ==
  LET id == Len(requests_stats_) + 1
  IN /\ query[q].pc = "calculated"
     /\ requests_stats_' = Append(requests_stats_,
          [info |-> query[q].info, min |-> query[q].min, max |-> query[q].max,
           actual |-> NoGrant, finished_queueing |-> FALSE, timed_out |-> FALSE,
           error |-> "none"])
     /\ queued_requests_' = queued_requests_ \cup {id}
     /\ executor_stats_' = [executor_stats_ EXCEPT !.queue_length = @ + 1]
     /\ query' = [query EXCEPT ![q].pc = "enqueued", ![q].id = id]
     /\ UNCHANGED <<executing_requests_, outstanding_requests_map_, flags, queue, admin,
                    poolState, aborted>>

\* set_process_queue_flag and the notification, after a request was queued or finished.
set_process_queue_flag(q, from, to) ==
  /\ query[q].pc = from
  /\ QueueMutexFree
  /\ should_process_queue_' = TRUE
  /\ Goto(q, to)
  /\ UNCHANGED <<stages, outstanding_requests_map_, pause_process_queue_,
                 process_queue_is_paused_, stop_process_queue_thread_, queue, admin,
                 poolState, aborted>>

get_semaphore_for_request(q) ==
  /\ query[q].pc = "notified"
  /\ outstanding_requests_map_' =
       IF query[q].id \in DOMAIN outstanding_requests_map_ THEN outstanding_requests_map_
       ELSE With(outstanding_requests_map_, query[q].id, FALSE)
  /\ Goto(q, "waiting")
  /\ UNCHANGED <<stages, flags, queue, admin, poolState, aborted>>

WithoutSemaphore(id) ==
  [i \in DOMAIN outstanding_requests_map_ \ {id} |-> outstanding_requests_map_[i]]

\* Mutant: the semaphore of a request that was granted stays.
KeepsTheSemaphore(q) ==
  /\ query[q].pc = "waiting"
  /\ outstanding_requests_map_[query[q].id]
  /\ UNCHANGED outstanding_requests_map_
  /\ Goto(q, "woken")
  /\ UNCHANGED <<stages, flags, queue, admin, poolState, aborted>>

\* try_acquire and delete_semaphore_for_request.
acquire(q) ==
  /\ query[q].pc = "waiting"
  /\ outstanding_requests_map_[query[q].id]
  /\ outstanding_requests_map_' = WithoutSemaphore(query[q].id)
  /\ Goto(q, "woken")
  /\ UNCHANGED <<stages, flags, queue, admin, poolState, aborted>>

\* try_acquire_for gives up; the semaphore is deleted, then the request marked.
expire(q) ==
  /\ query[q].pc = "waiting"
  /\ q \in TimedClients
  /\ ~outstanding_requests_map_[query[q].id]
  /\ Goto(q, "expired")
  /\ UNCHANGED <<stages, outstanding_requests_map_, flags, queue, admin, poolState, aborted>>


delete_semaphore_for_request(q) ==
  /\ query[q].pc = "expired"
  /\ outstanding_requests_map_' = WithoutSemaphore(query[q].id)
  /\ Goto(q, "marking")
  /\ UNCHANGED <<stages, flags, queue, admin, poolState, aborted>>

\* Mutant: a request that timed out is still counted as queued.
StaysInTheQueue(q) ==
  LET id == query[q].id
      ok == ~requests_stats_[id].finished_queueing /\ id \in queued_requests_
  IN /\ query[q].pc = "marking"
     /\ IF ok
        THEN /\ requests_stats_' = [requests_stats_ EXCEPT ![id].timed_out = TRUE]
             /\ queued_requests_' = queued_requests_ \ {id}
             /\ executor_stats_' = [executor_stats_ EXCEPT !.requests_timed_out = @ + 1]
             /\ Goto(q, "timed_out")
             /\ UNCHANGED <<executing_requests_, aborted>>
        ELSE aborted' = "mark_request_timed_out" /\ UNCHANGED <<stages, query>>
     /\ UNCHANGED <<outstanding_requests_map_, flags, queue, admin, poolState>>

mark_request_timed_out(q) ==
  LET id == query[q].id
      ok == ~requests_stats_[id].finished_queueing /\ id \in queued_requests_
  IN /\ query[q].pc = "marking"
     /\ IF ok
        THEN /\ requests_stats_' = [requests_stats_ EXCEPT ![id].timed_out = TRUE]
             /\ queued_requests_' = queued_requests_ \ {id}
             /\ executor_stats_' = [executor_stats_ EXCEPT !.queue_length = @ - 1,
                                                           !.requests_timed_out = @ + 1]
             /\ Goto(q, "timed_out")
             /\ UNCHANGED <<executing_requests_, aborted>>
        ELSE aborted' = "mark_request_timed_out" /\ UNCHANGED <<stages, query>>
     /\ UNCHANGED <<outstanding_requests_map_, flags, queue, admin, poolState>>

\* The woken thread reads its grant, and gets a handle or an exception.
read_grant(q) ==
  LET s == requests_stats_[query[q].id]
      ok == \A f \in {"cpu_slots", "gpu_slots", "cpu_result_mem"} : s.actual[f] >= query[q].min[f]
  IN /\ query[q].pc = "woken"
     /\ CASE s.error # "none" /\ q \in TimedClients -> raise(q, s.info, s.error) /\ UNCHANGED aborted
          [] s.error # "none" /\ q \notin TimedClients -> Goto(q, "errored") /\ UNCHANGED aborted
          [] s.error = "none" /\ ok -> Goto(q, "executing") /\ UNCHANGED aborted
          [] OTHER -> aborted' = "request_resources_with_timeout" /\ UNCHANGED query
     /\ UNCHANGED <<stages, outstanding_requests_map_, flags, queue, admin, poolState>>

\* Mutant: a request that is refused stays in stage EXECUTING.
KeepsExecuting(q) ==
  LET id == query[q].id
  IN /\ query[q].pc = "errored"
     /\ executor_stats_' = [executor_stats_ EXCEPT !.requests_executed = @ + 1]
     /\ raise(q, requests_stats_[id].info, requests_stats_[id].error)
     /\ UNCHANGED <<requests_stats_, queued_requests_, executing_requests_, outstanding_requests_map_, flags, queue,
                    admin, poolState, aborted>>

\* The counters of the devices are not among those it updates.
handle_resource_stat_error(q) ==
  LET id == query[q].id
  IN /\ query[q].pc = "errored"
     /\ executing_requests_' = executing_requests_ \ {id}
     /\ executor_stats_' = [executor_stats_ EXCEPT !.requests_executing = @ - 1,
                                                   !.requests_executed = @ + 1]
     /\ raise(q, requests_stats_[id].info, requests_stats_[id].error)
     /\ UNCHANGED <<requests_stats_, queued_requests_, outstanding_requests_map_, flags, queue,
                    admin, poolState, aborted>>

\* release_resources: three critical sections.
release_resources(q) ==
  LET id == query[q].id
      g == requests_stats_[id].actual
      info == requests_stats_[id].info
      ok == deallocate_resources_CHECK(pool, g, info)
  IN /\ query[q].pc = "executing"
     /\ IF ok
        THEN /\ pool' = deallocate_resources(pool, g, info)
             /\ held' = [i \in DOMAIN held \ {id} |-> held[i]]
             /\ Goto(q, "deallocated")
             /\ UNCHANGED aborted
        ELSE aborted' = "deallocate_resources" /\ UNCHANGED <<poolState, query>>
     /\ UNCHANGED <<stages, outstanding_requests_map_, flags, queue, admin>>

mark_request_finished(q) ==
  LET id == query[q].id
  IN /\ query[q].pc = "deallocated"
     /\ executing_requests_' = executing_requests_ \ {id}
     /\ executor_stats_' = [executor_stats_ EXCEPT !.requests_executing = @ - 1,
                              !.requests_executed = @ + 1,
                              !.device_executing[requests_stats_[id].info.device] = @ - 1]
     /\ Goto(q, "finished")
     /\ UNCHANGED <<requests_stats_, queued_requests_, outstanding_requests_map_, flags, queue,
                    admin, poolState, aborted>>

-----------------------------------------------------------------------------
(***************************************************************************)
(* The queue thread: process_queue_loop.                                   *)
(***************************************************************************)
\* Mutant: the queue counts as paused while requests execute.
PausesAtOnce ==
  /\ queue.pc = "wait" /\ pause_process_queue_ /\ ~stop_process_queue_thread_
  /\ should_process_queue_' = FALSE
  /\ process_queue_is_paused_' = TRUE
  /\ UNCHANGED <<stages, outstanding_requests_map_, pause_process_queue_,
                 stop_process_queue_thread_, queue, query, admin, poolState, aborted>>

loop_pauses ==
  /\ queue.pc = "wait" /\ pause_process_queue_ /\ ~stop_process_queue_thread_
  /\ should_process_queue_' = FALSE
  /\ process_queue_is_paused_' =
       (process_queue_is_paused_ \/ executor_stats_.requests_executing = 0)
  /\ UNCHANGED <<stages, outstanding_requests_map_, pause_process_queue_,
                 stop_process_queue_thread_, queue, query, admin, poolState, aborted>>

\* Mutant: only a request wakes the loop to see that it is to stop.
StopsWithWork ==
  /\ queue.pc = "wait" /\ stop_process_queue_thread_ /\ should_process_queue_
  /\ should_process_queue_' = FALSE
  /\ queue' = [queue EXCEPT !.pc = "stopped"]
  /\ UNCHANGED <<stages, outstanding_requests_map_, pause_process_queue_,
                 process_queue_is_paused_, stop_process_queue_thread_, query, admin,
                 poolState, aborted>>

loop_stops ==
  /\ queue.pc = "wait" /\ stop_process_queue_thread_
  /\ should_process_queue_' = FALSE
  /\ queue' = [queue EXCEPT !.pc = "stopped"]
  /\ UNCHANGED <<stages, outstanding_requests_map_, pause_process_queue_,
                 process_queue_is_paused_, stop_process_queue_thread_, query, admin,
                 poolState, aborted>>


\* What determine_dynamic_resource_grant comes to for a queued request.
outcome(id) ==
  LET s == requests_stats_[id]
      g == determine_dynamic_resource_grant(pool, s.min, s.max, s.info)
  IN CASE exceeds_max_grant(pool, s.min) # "none" -> "throws"
       [] ~can_currently_satisfy_request_CHECK(pool, s.min, s.info) -> "aborts"
       [] ~can_currently_satisfy_request_impl(pool, s.min, s.info) -> "waits"
       [] ~dynamic_resource_grant_CHECK(s.min, s.max, g) -> "aborts"
       [] OTHER -> "granted"

\* The oldest request that can be granted, or whose turn comes with an exception.
is_next(id) ==
  /\ outcome(id) # "waits"
  /\ \A other \in queued_requests_ : other < id => outcome(other) = "waits"

loop_chooses(id) ==
  LET s == requests_stats_[id]
  IN CASE outcome(id) = "granted" ->
            /\ requests_stats_' = [requests_stats_ EXCEPT ![id].actual =
                                     determine_dynamic_resource_grant(pool, s.min, s.max, s.info)]
            /\ queue' = [pc |-> "dequeue", id |-> id]
            /\ UNCHANGED aborted
       [] outcome(id) = "throws" ->
            /\ requests_stats_' = [requests_stats_ EXCEPT ![id].error =
                                     exceeds_max_grant(pool, s.min)]
            /\ queue' = [pc |-> "dequeue", id |-> id]
            /\ UNCHANGED aborted
       [] outcome(id) = "aborts" ->
            /\ aborted' = "determine_dynamic_resource_grant"
            /\ UNCHANGED <<requests_stats_, queue>>

choose_next_request ==
  /\ queue.pc = "wait" /\ should_process_queue_
  /\ ~pause_process_queue_ /\ ~stop_process_queue_thread_
  /\ \/ /\ \E id \in queued_requests_ : is_next(id) /\ loop_chooses(id)
        /\ UNCHANGED should_process_queue_
     \/ /\ \A id \in queued_requests_ : outcome(id) = "waits"
        /\ should_process_queue_' = FALSE
        /\ UNCHANGED <<requests_stats_, queue, aborted>>
  /\ UNCHANGED <<queued_requests_, executing_requests_, executor_stats_,
                 outstanding_requests_map_, pause_process_queue_, process_queue_is_paused_,
                 stop_process_queue_thread_, query, admin, poolState>>

\* Mutant: a request that leaves the queue is not counted as executing.
DequesUncounted ==
  LET id == queue.id
      device == requests_stats_[id].info.device
  IN /\ queue.pc = "dequeue"
     /\ IF id \in queued_requests_
        THEN /\ requests_stats_' = [requests_stats_ EXCEPT ![id].finished_queueing = TRUE]
             /\ queued_requests_' = queued_requests_ \ {id}
             /\ executing_requests_' = executing_requests_ \cup {id}
             /\ executor_stats_' = [executor_stats_ EXCEPT !.queue_length = @ - 1,
                                      !.device_executing[device] = @ + 1]
             /\ queue' = [queue EXCEPT !.pc = "allocate"]
             /\ UNCHANGED aborted
        ELSE aborted' = "remove_request_from_stage" /\ UNCHANGED <<stages, queue>>
     /\ UNCHANGED <<outstanding_requests_map_, flags, query, admin, poolState>>

\* Mutant: the allocation is skipped.
WakesUnallocated ==
  LET id == queue.id
      device == requests_stats_[id].info.device
  IN /\ queue.pc = "dequeue"
     /\ IF id \in queued_requests_
        THEN /\ requests_stats_' = [requests_stats_ EXCEPT ![id].finished_queueing = TRUE]
             /\ queued_requests_' = queued_requests_ \ {id}
             /\ executing_requests_' = executing_requests_ \cup {id}
             /\ executor_stats_' = [executor_stats_ EXCEPT !.queue_length = @ - 1,
                                      !.requests_executing = @ + 1,
                                      !.device_executing[device] = @ + 1]
             /\ queue' = [queue EXCEPT !.pc = "wake"]
             /\ UNCHANGED aborted
        ELSE aborted' = "remove_request_from_stage" /\ UNCHANGED <<stages, queue>>
     /\ UNCHANGED <<outstanding_requests_map_, flags, query, admin, poolState>>

mark_request_dequed ==
  LET id == queue.id
      device == requests_stats_[id].info.device
  IN /\ queue.pc = "dequeue"
     /\ IF id \in queued_requests_
        THEN /\ requests_stats_' = [requests_stats_ EXCEPT ![id].finished_queueing = TRUE]
             /\ queued_requests_' = queued_requests_ \ {id}
             /\ executing_requests_' = executing_requests_ \cup {id}
             /\ executor_stats_' = [executor_stats_ EXCEPT !.queue_length = @ - 1,
                                      !.requests_executing = @ + 1,
                                      !.device_executing[device] = @ + 1]
             /\ queue' = [queue EXCEPT !.pc = "allocate"]
             /\ UNCHANGED aborted
        ELSE aborted' = "remove_request_from_stage" /\ UNCHANGED <<stages, queue>>
     /\ UNCHANGED <<outstanding_requests_map_, flags, query, admin, poolState>>

\* Mutant: resources are allocated for a refused request too.
AllocatesRefused ==
  LET id == queue.id
      s == requests_stats_[id]
  IN /\ queue.pc = "allocate"
     /\ IF ~allocate_resources_CHECK(pool, s.actual, s.info)
        THEN aborted' = "allocate_resources" /\ UNCHANGED <<poolState, queue>>
        ELSE IF ~add_chunk_requests_CHECK(pool, s.actual, s.info)
        THEN aborted' = "add_chunk_requests_to_allocated_pool" /\ UNCHANGED <<poolState, queue>>
        ELSE /\ pool' = allocate_resources(pool, s.actual, s.info)
             /\ held' = With(held, id, [request |-> s.info, grant |-> s.actual])
             /\ queue' = [queue EXCEPT !.pc = "wake"]
             /\ UNCHANGED aborted
     /\ UNCHANGED <<stages, outstanding_requests_map_, flags, query, admin>>

\* get_request_for_id and allocate_resources.
loop_allocates ==
  LET id == queue.id
      s == requests_stats_[id]
  IN /\ queue.pc = "allocate"
     /\ IF s.error # "none"
        THEN queue' = [queue EXCEPT !.pc = "wake"] /\ UNCHANGED <<poolState, aborted>>
        ELSE IF ~allocate_resources_CHECK(pool, s.actual, s.info)
        THEN aborted' = "allocate_resources" /\ UNCHANGED <<poolState, queue>>
        ELSE IF ~add_chunk_requests_CHECK(pool, s.actual, s.info)
        THEN aborted' = "add_chunk_requests_to_allocated_pool" /\ UNCHANGED <<poolState, queue>>
        ELSE /\ pool' = allocate_resources(pool, s.actual, s.info)
             /\ held' = With(held, id, [request |-> s.info, grant |-> s.actual])
             /\ queue' = [queue EXCEPT !.pc = "wake"]
             /\ UNCHANGED aborted
     /\ UNCHANGED <<stages, outstanding_requests_map_, flags, query, admin>>

\* Mutant: the loop sleeps after each request it grants.
GrantsOne ==
  /\ queue.pc = "wake"
  /\ outstanding_requests_map_' = With(outstanding_requests_map_, queue.id, TRUE)
  /\ queue' = [pc |-> "wait", id |-> 0]
  /\ should_process_queue_' = FALSE
  /\ UNCHANGED <<stages, pause_process_queue_, process_queue_is_paused_,
                 stop_process_queue_thread_, query, admin, poolState, aborted>>

wake_request_by_id ==
  /\ queue.pc = "wake"
  /\ outstanding_requests_map_' = With(outstanding_requests_map_, queue.id, TRUE)
  /\ queue' = [pc |-> "wait", id |-> 0]
  /\ UNCHANGED <<stages, flags, query, admin, poolState, aborted>>

-----------------------------------------------------------------------------
(***************************************************************************)
(* Administrative threads.  clear_memory is clear_cpu_memory and           *)
(* clear_gpu_memory of the server: pause, clear, resume.  At "inside" the  *)
(* thread takes the executors to be idle.                                  *)
(***************************************************************************)
AdminGoto(a, pc) == admin' = [admin EXCEPT ![a] = pc]

\* Mutant: pause_process_queue returns before the queue is paused.
DoesNotWait(a) ==
  /\ admin[a] = "idle" /\ AdminOp[a] # "stop"
  /\ QueueMutexFree
  /\ IF pause_process_queue_ \/ process_queue_is_paused_
     THEN AdminGoto(a, "inside") /\ UNCHANGED pause_process_queue_
     ELSE AdminGoto(a, "inside") /\ pause_process_queue_' = TRUE
  /\ UNCHANGED <<stages, outstanding_requests_map_, should_process_queue_,
                 process_queue_is_paused_, stop_process_queue_thread_, queue, query,
                 poolState, aborted>>

pause_process_queue(a) ==
  /\ admin[a] = "idle" /\ AdminOp[a] # "stop"
  /\ QueueMutexFree
  /\ IF pause_process_queue_ \/ process_queue_is_paused_
     THEN AdminGoto(a, "inside") /\ UNCHANGED pause_process_queue_
     ELSE AdminGoto(a, "pausing") /\ pause_process_queue_' = TRUE
  /\ UNCHANGED <<stages, outstanding_requests_map_, should_process_queue_,
                 process_queue_is_paused_, stop_process_queue_thread_, queue, query,
                 poolState, aborted>>

await_paused(a) ==
  /\ admin[a] = "pausing"
  /\ process_queue_is_paused_
  /\ AdminGoto(a, "paused")
  /\ UNCHANGED <<stages, outstanding_requests_map_, flags, queue, query, poolState, aborted>>

check_paused(a) ==
  /\ admin[a] = "paused"
  /\ IF executor_stats_.requests_executing = 0
     THEN AdminGoto(a, "inside") /\ UNCHANGED aborted
     ELSE aborted' = "pause_process_queue" /\ UNCHANGED admin
  /\ UNCHANGED <<stages, outstanding_requests_map_, flags, queue, query, poolState>>

\* set_resource throws where requests are outstanding, and the queue stays paused.
apply_set_resource(a) ==
  /\ admin[a] = "inside" /\ AdminOp[a] = "settings"
  /\ \E n \in NewTotals :
       CASE get_allocated_resource_of_type(pool, n.type) # 0 ->
              aborted' = "set_resource" /\ UNCHANGED <<pool, admin>>
         [] get_allocated_resource_of_type(pool, n.type) = 0 /\ pool.outstanding > 0 ->
              AdminGoto(a, "threw") /\ UNCHANGED <<pool, aborted>>
         [] OTHER ->
              /\ pool' = set_resource(pool, n.type, n.quantity)
              /\ AdminGoto(a, "applied")
              /\ UNCHANGED aborted
  /\ UNCHANGED <<stages, outstanding_requests_map_, flags, queue, query, held>>

apply_set_concurrent_resource_grant_policy(a) ==
  /\ admin[a] = "inside" /\ AdminOp[a] = "settings"
  /\ \E n \in NewPolicies :
       IF pool.outstanding > 0
       THEN AdminGoto(a, "threw") /\ UNCHANGED pool
       ELSE /\ pool' = set_concurrent_resource_grant_policy(pool, n.type, n.policy)
            /\ AdminGoto(a, "applied")
  /\ UNCHANGED <<stages, outstanding_requests_map_, flags, queue, query, held, aborted>>

\* Mutant: the flag that asks for a pause stays up.
ResumesButPaused(a) ==
  /\ \/ admin[a] = "inside" /\ AdminOp[a] = "clear_memory"
     \/ admin[a] = "applied"
  /\ QueueMutexFree
  /\ CASE ~process_queue_is_paused_ ->
            AdminGoto(a, "done") /\ UNCHANGED <<flags, aborted>>
       [] process_queue_is_paused_ /\ executor_stats_.requests_executing # 0 ->
            aborted' = "resume_process_queue" /\ UNCHANGED <<flags, admin>>
       [] OTHER ->
            /\ process_queue_is_paused_' = FALSE
            /\ should_process_queue_' = TRUE
            /\ AdminGoto(a, "done")
            /\ UNCHANGED <<pause_process_queue_, stop_process_queue_thread_, aborted>>
  /\ UNCHANGED <<stages, outstanding_requests_map_, queue, query, poolState>>

resume_process_queue(a) ==
  /\ \/ admin[a] = "inside" /\ AdminOp[a] = "clear_memory"
     \/ admin[a] = "applied"
  /\ QueueMutexFree
  /\ CASE ~process_queue_is_paused_ ->
            AdminGoto(a, "done") /\ UNCHANGED <<flags, aborted>>
       [] process_queue_is_paused_ /\ executor_stats_.requests_executing # 0 ->
            aborted' = "resume_process_queue" /\ UNCHANGED <<flags, admin>>
       [] OTHER ->
            /\ process_queue_is_paused_' = FALSE
            /\ pause_process_queue_' = FALSE
            /\ should_process_queue_' = TRUE
            /\ AdminGoto(a, "done")
            /\ UNCHANGED <<stop_process_queue_thread_, aborted>>
  /\ UNCHANGED <<stages, outstanding_requests_map_, queue, query, poolState>>

\* The destructor: it sets the flag and joins the queue thread.
stop_process_queue_thread(a) ==
  /\ admin[a] = "idle" /\ AdminOp[a] = "stop"
  /\ QueueMutexFree
  /\ stop_process_queue_thread_' = TRUE
  /\ AdminGoto(a, "joining")
  /\ UNCHANGED <<stages, outstanding_requests_map_, should_process_queue_,
                 pause_process_queue_, process_queue_is_paused_, queue, query, poolState,
                 aborted>>

join_process_queue_thread(a) ==
  /\ admin[a] = "joining"
  /\ queue.pc = "stopped"
  /\ AdminGoto(a, "done")
  /\ UNCHANGED <<stages, outstanding_requests_map_, flags, queue, query, poolState, aborted>>

-----------------------------------------------------------------------------
(***************************************************************************)
(* The specification.  A thread that is running goes on; queries come, and *)
(* timeouts and administrative operations happen, or not.                  *)
(***************************************************************************)
QueryStep(q) ==
  \/ retry_request(q)
  \/ enqueue_request(q)
  \/ set_process_queue_flag(q, "enqueued", "notified")
  \/ get_semaphore_for_request(q)
  \/ acquire(q)
  \/ delete_semaphore_for_request(q)
  \/ mark_request_timed_out(q)
  \/ read_grant(q)
  \/ handle_resource_stat_error(q)
  \/ release_resources(q)
  \/ mark_request_finished(q)
  \/ set_process_queue_flag(q, "finished", "done")

process_queue_loop ==
  \/ loop_pauses
  \/ loop_stops
  \/ choose_next_request
  \/ mark_request_dequed
  \/ loop_allocates
  \/ wake_request_by_id

AdminStep(a) ==
  \/ await_paused(a)
  \/ check_paused(a)
  \/ apply_set_resource(a)
  \/ apply_set_concurrent_resource_grant_policy(a)
  \/ resume_process_queue(a)
  \/ join_process_queue_thread(a)

QueryPCs == {"idle", "calculated", "enqueued", "notified", "waiting", "woken", "errored",
             "executing", "deallocated", "finished", "done", "retry", "failed", "expired",
             "marking", "timed_out"}
Settled(q) == query[q].pc \in {"idle", "done", "failed", "timed_out"}

\* Nothing is left to do, or the process has aborted.
Quiescent ==
  /\ aborted # "none" \/ /\ \A q \in Clients : query[q].pc \in {"done", "failed", "timed_out"}
                         /\ \A a \in Admins : admin[a] = "done"
  /\ UNCHANGED mgrVars

Next ==
  \/ /\ aborted = "none"
     /\ \/ \E q \in Clients : request_resources(q) \/ QueryStep(q) \/ expire(q)
        \/ process_queue_loop
        \/ \E a \in Admins : pause_process_queue(a) \/ stop_process_queue_thread(a) \/ AdminStep(a)
  \/ Quiescent

Fairness ==
  /\ \A q \in Clients : WF_mgrVars(aborted = "none" /\ QueryStep(q))
  /\ WF_mgrVars(aborted = "none" /\ process_queue_loop)
  /\ \A a \in Admins : WF_mgrVars(aborted = "none" /\ AdminStep(a))

Spec == Init /\ [][Next]_mgrVars
FairSpec == Spec /\ Fairness

-----------------------------------------------------------------------------
(***************************************************************************)
(* Properties.                                                             *)
(***************************************************************************)
Ids == 1..Len(requests_stats_)

\* The request a query thread is waiting for or running.
Current(q) == query[q].pc \in {"enqueued", "notified", "waiting", "woken", "errored",
                               "executing", "deallocated", "expired", "marking"}

TypeOK ==
  /\ queued_requests_ \subseteq Ids
  /\ executing_requests_ \subseteq Ids
  /\ executor_stats_ \in [queue_length : Nat, requests_executing : Nat, requests_executed : Nat,
                          requests_timed_out : Nat, device_executing : [Devices -> Nat]]
  /\ DOMAIN outstanding_requests_map_ \subseteq Ids
  /\ \A id \in DOMAIN outstanding_requests_map_ : outstanding_requests_map_[id] \in BOOLEAN
  /\ flags \in BOOLEAN \X BOOLEAN \X BOOLEAN \X BOOLEAN
  /\ queue.pc \in {"wait", "dequeue", "allocate", "wake", "stopped"}
  /\ queue.pc \in {"dequeue", "allocate", "wake"} => queue.id \in Ids
  /\ \A q \in Clients : query[q].pc \in QueryPCs /\ (Current(q) => query[q].id \in Ids)
  /\ \A a \in Admins : admin[a] \in {"idle", "pausing", "paused", "inside", "applied", "threw",
                                     "joining", "done"}

\* The counters agree with the stages, and every request ever made is queued, executing,
\* executed or timed out, in one of them only (enqueue_request, mark_request_dequed,
\* mark_request_timed_out, mark_request_finished, handle_resource_stat_error).
StagesMatchCounters ==
  /\ executor_stats_.queue_length = Cardinality(queued_requests_)
  /\ executor_stats_.requests_executing = Cardinality(executing_requests_)
  /\ queued_requests_ \cap executing_requests_ = {}
  /\ Len(requests_stats_) = executor_stats_.queue_length + executor_stats_.requests_executing
                              + executor_stats_.requests_executed
                              + executor_stats_.requests_timed_out

\* Whatever is allocated in the pool belongs to a request in stage EXECUTING: the
\* requests_executing that a pause looks at is never behind the pool, although a request
\* enters the stage before it is allocated and leaves it after it is deallocated.
AllocatedIsExecuting ==
  /\ pool.outstanding = Cardinality(DOMAIN held)
  /\ DOMAIN held \subseteq executing_requests_

\* While the queue is paused nothing executes and nothing is allocated, however many
\* threads pause and resume it (process_queue_loop, pause_process_queue,
\* resume_process_queue).
PausedMeansIdle ==
  process_queue_is_paused_ => executing_requests_ = {} /\ pool.outstanding = 0

\* A thread that has paused the queue has the executors for itself until it resumes it
\* (clear_cpu_memory, clear_gpu_memory, set_resource).
PauserIsAlone ==
  \A a \in Admins : admin[a] \in {"inside", "applied"} => executing_requests_ = {}

\* When the queue thread goes to sleep no request is left behind that it could grant or
\* refuse: one that could be is about to be announced, or what it needs has just been
\* returned and that is about to be announced (should_process_queue_).
NoGrantMissed ==
  /\ queue.pc = "wait" /\ ~should_process_queue_ /\ ~pause_process_queue_
  /\ ~\E q \in Clients : query[q].pc \in {"deallocated", "finished"}
  => \A id \in queued_requests_ :
       outcome(id) = "waits" \/ \E q \in Clients : query[q].pc = "enqueued" /\ query[q].id = id

\* A query thread runs only on resources the pool has set aside for it: its semaphore is
\* not released before the allocation, nor for another request.
RunsOnItsGrant ==
  \A q \in Clients : query[q].pc = "executing" =>
    /\ query[q].id \in DOMAIN held
    /\ held[query[q].id].grant = requests_stats_[query[q].id].actual

\* When every query is over, nothing is left of it: the pool is whole again, and no stage
\* and no semaphore remembers it.
NothingLeaks ==
  (\A q \in Clients : Settled(q)) /\ queue.pc = "wait" =>
    /\ pool.outstanding = 0 /\ \A s \in Subtypes : pool.allocated[s] = 0
    /\ queued_requests_ = {} /\ executing_requests_ = {}
    /\ DOMAIN outstanding_requests_map_ = {}

\* The counters of the devices agree with the one for all (handle_resource_stat_error
\* "removes request from EXECUTING stage and modify related executor_stats").
DeviceCountersAgree ==
  executor_stats_.requests_executing = MapThenSumSet(LAMBDA d : executor_stats_.device_executing[d], Devices)

\* When the queue thread has been stopped and joined, no query thread is left waiting.
NobodyWaitsAfterStop ==
  (\E a \in Admins : AdminOp[a] = "stop" /\ admin[a] = "done") =>
    \A q \in Clients : query[q].pc # "waiting"

\* Unless the server shuts down, every request is granted, refused or timed out in the
\* end: its thread runs, or gets an exception (request_resources_with_timeout,
\* process_queue_loop).  The clients are finitely many and make one request each: where
\* requests never end, choose_next_request can pass over a large one for ever.
EveryRequestIsAnswered ==
  \A q \in Clients : query[q].pc = "calculated" ~>
    query[q].pc \in {"executing", "failed", "timed_out"} \/ stop_process_queue_thread_

\* The queue thread stops when it is told to, whether it sleeps, is paused, or has
\* requests to grant, and the destructor returns (stop_process_queue_thread).
ShutdownCompletes == \A a \in Admins : admin[a] = "joining" ~> admin[a] = "done"

\* Unless the server shuts down, a pause comes to an end: the queries that run finish, no
\* new one starts, and the thread goes on (pause_process_queue).
PauseCompletes ==
  \A a \in Admins : admin[a] = "pausing" ~> admin[a] = "inside" \/ stop_process_queue_thread_
=============================================================================
