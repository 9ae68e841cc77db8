------------------------ MODULE ExecutorResourcePool ------------------------
(***************************************************************************)
(* The pool of executor resources (QueryEngine/ExecutorResourceMgr): CPU   *)
(* and GPU slots, CPU result memory and the memory of the CPU and GPU      *)
(* buffer pools.  A request names what it wants and the least it can run   *)
(* with; the pool works out once what it may get at most, and later, from  *)
(* what is free at the time, what it gets.                                 *)
(*                                                                         *)
(* The pool is a value, `p' below, so that the resource manager can be     *)
(* composed with it.  A grant or a request that trips a CHECK ends the     *)
(* process: the operators named ..._CHECK say when it does not.            *)
(***************************************************************************)
EXTENDS Integers, FiniteSets, Functions

CONSTANTS Configs,        \* server configurations (see generate_executor_resource_mgr)
          Requests,       \* requests of the queries
          Clients,        \* holders of a grant
          BackoffNum,     \* max_available_resource_use_ratio is
          BackoffDen      \*   BackoffNum / BackoffDen

ASSUME BackoffAssumption == BackoffNum \in Nat /\ BackoffDen \in Nat /\ 0 < BackoffNum
                              /\ BackoffNum <= BackoffDen

VARIABLES pool,     \* executor_resource_pool_
          held,     \* what each client holds: [request, grant]
          aborted   \* the CHECK that has ended the process, or "none"

Types == {"CPU_SLOTS", "GPU_SLOTS", "CPU_RESULT_MEM", "CPU_BUFFER_POOL_MEM",
          "GPU_BUFFER_POOL_MEM"}
Subtypes == {"CPU_SLOTS", "GPU_SLOTS", "CPU_RESULT_MEM", "PINNED_CPU_BUFFER_POOL_MEM",
             "PAGEABLE_CPU_BUFFER_POOL_MEM", "PINNED_GPU_BUFFER_POOL_MEM"}
Devices == {"CPU", "GPU"}

map_resource_subtype_to_resource_type(s) ==
  CASE s \in {"PINNED_CPU_BUFFER_POOL_MEM", "PAGEABLE_CPU_BUFFER_POOL_MEM"} ->
         "CPU_BUFFER_POOL_MEM"
    [] s = "PINNED_GPU_BUFFER_POOL_MEM" -> "GPU_BUFFER_POOL_MEM"
    [] OTHER -> s

BufferPool(device) == IF device = "CPU" THEN "CPU_BUFFER_POOL_MEM" ELSE "GPU_BUFFER_POOL_MEM"
Pinned(device) == IF device = "CPU" THEN "PINNED_CPU_BUFFER_POOL_MEM"
                  ELSE "PINNED_GPU_BUFFER_POOL_MEM"

\* numeric_limits<size_t>::max(): more than any request asks for.
Unlimited == 1000000
Ceil(n, d) == (n + d - 1) \div d
Least(a, b) == IF a < b THEN a ELSE b
Greatest(a, b) == IF a < b THEN b ELSE a

-----------------------------------------------------------------------------
(***************************************************************************)
(* A pool has the totals and the policies of its resources, what is        *)
(* allocated of each, the number of outstanding requests, and per device   *)
(* the chunks pledged to running requests: how many requests refer to a    *)
(* chunk, and its size.                                                    *)
(***************************************************************************)
get_allocated_resource_of_type(p, t) ==
  CASE t = "CPU_BUFFER_POOL_MEM" ->
         p.allocated["PINNED_CPU_BUFFER_POOL_MEM"] + p.allocated["PAGEABLE_CPU_BUFFER_POOL_MEM"]
    [] t = "GPU_BUFFER_POOL_MEM" -> p.allocated["PINNED_GPU_BUFFER_POOL_MEM"]
    [] OTHER -> p.allocated[t]

get_grant_quantity(ratio, total) == Ceil(ratio.num * total, ratio.den)

\* Mutant: a request may have more than there is of a resource that is not oversubscribed.
NotCappedAtTotal(p, s) ==
  IF s \in DOMAIN p.ratio
  THEN get_grant_quantity(p.ratio[s], p.total[map_resource_subtype_to_resource_type(s)])
  ELSE Unlimited

\* init_max_resource_grants_per_requests: what one request may have of a subtype.
\* No ratio is configured for GPU slots and GPU memory: they are UNLIMITED, or
\* capped at the total where a resource may not be oversubscribed.
max_resource_grant_per_request(p, s) ==
  LET t == map_resource_subtype_to_resource_type(s)
      quantity == IF s \in DOMAIN p.ratio THEN get_grant_quantity(p.ratio[s], p.total[t])
                  ELSE Unlimited
  IN IF p.policy[t].over = "DISALLOW_REQUESTS" THEN Least(quantity, p.total[t]) ELSE quantity

\* The concurrency policies of the resource types; the types without one get the
\* default of init_concurrency_policies.
concurrent_resource_grant_policies(c) ==
  LET Policy(under, over) == [under |-> under, over |-> over]
      Allowed(b) == IF b THEN "ALLOW_CONCURRENT_REQUESTS" ELSE "ALLOW_SINGLE_REQUEST"
      gpu == IF c.allow_cpu_gpu_kernel_concurrency THEN Allowed(c.max_num_gpu_per_query # 0)
             ELSE "ALLOW_SINGLE_REQUEST_GLOBALLY"
      resultType == IF c.use_cpu_mem_pool_for_output_buffers THEN "CPU_BUFFER_POOL_MEM"
                    ELSE "CPU_RESULT_MEM"
  IN [t \in Types |->
        CASE t = "CPU_SLOTS" ->
               Policy(Allowed(c.allow_cpu_kernel_concurrency),
                      Allowed(c.allow_cpu_slot_oversubscription_concurrency))
          [] t = "GPU_SLOTS" -> Policy(gpu, gpu)
          [] t = resultType ->
               Policy("ALLOW_CONCURRENT_REQUESTS",
                      Allowed(c.allow_cpu_result_mem_oversubscription_concurrency))
          [] OTHER -> Policy("ALLOW_SINGLE_REQUEST", "DISALLOW_REQUESTS")]

\* The pool of a new resource manager.  Where result memory is taken from the
\* CPU buffer pool, the ratio for pinned memory replaces the one for result memory.
generate_executor_resource_mgr(c) ==
  LET pooled == c.use_cpu_mem_pool_for_output_buffers
  IN [total |-> IF pooled THEN [c.total EXCEPT !["CPU_RESULT_MEM"] = 0] ELSE c.total,
      policy |-> concurrent_resource_grant_policies(c),
      ratio |-> [s \in {"CPU_SLOTS", "PINNED_CPU_BUFFER_POOL_MEM",
                        "PAGEABLE_CPU_BUFFER_POOL_MEM"}
                       \cup (IF pooled THEN {} ELSE {"CPU_RESULT_MEM"}) |-> c.ratio[s]],
      result |-> IF pooled
                 THEN [type |-> "CPU_BUFFER_POOL_MEM", subtype |-> "PINNED_CPU_BUFFER_POOL_MEM"]
                 ELSE [type |-> "CPU_RESULT_MEM", subtype |-> "CPU_RESULT_MEM"],
      allocated |-> [s \in Subtypes |-> 0],
      chunks |-> [d \in Devices |-> <<>>],
      outstanding |-> 0,
      outstandingBy |-> [t \in Types |-> 0]]

\* The CHECKs of generate_executor_resource_mgr on a configuration.
ValidConfig(c) ==
  /\ c.total["CPU_SLOTS"] > 0 /\ c.total["CPU_BUFFER_POOL_MEM"] > 0
  /\ ~c.use_cpu_mem_pool_for_output_buffers => c.total["CPU_RESULT_MEM"] > 0
  /\ ~(c.allow_cpu_kernel_concurrency \/ c.allow_cpu_gpu_kernel_concurrency) =>
       ~(c.allow_cpu_slot_oversubscription_concurrency
           \/ c.allow_cpu_result_mem_oversubscription_concurrency)

\* Totals are quantities, and the ratios a request is limited to are fractions.
ConfigType(c) ==
  /\ c.total \in [Types -> Nat]
  /\ \A s \in DOMAIN c.ratio : c.ratio[s].num \in Nat /\ c.ratio[s].den \in Nat \ {0}
  /\ {"CPU_SLOTS", "CPU_RESULT_MEM", "PINNED_CPU_BUFFER_POOL_MEM", "PAGEABLE_CPU_BUFFER_POOL_MEM"}
       \subseteq DOMAIN c.ratio

ASSUME ConfigsAssumption == \A c \in Configs : ValidConfig(c) /\ ConfigType(c)

-----------------------------------------------------------------------------
(***************************************************************************)
(* Requests are [device, cpu_slots, min_cpu_slots, gpu_slots,              *)
(* min_gpu_slots, cpu_result_mem, min_cpu_result_mem, chunks,              *)
(* max_bytes_per_kernel, reusable]; chunks maps a chunk to its bytes.      *)
(***************************************************************************)
gen_resource_request_info(device, slots, mem_per_kernel, reusable, chunks, kernel) ==
  LET cpu == device = "CPU"
      result_mem == mem_per_kernel * slots
  IN [device |-> device,
      cpu_slots |-> IF cpu THEN slots ELSE 0,
      min_cpu_slots |-> IF cpu THEN 1 ELSE 0,
      gpu_slots |-> IF cpu THEN 0 ELSE slots,
      min_gpu_slots |-> IF cpu THEN 0 ELSE slots,
      cpu_result_mem |-> result_mem,
      min_cpu_result_mem |-> IF cpu /\ reusable THEN mem_per_kernel ELSE result_mem,
      chunks |-> chunks,
      max_bytes_per_kernel |-> kernel,
      reusable |-> cpu /\ reusable]

total_bytes(r) == SumFunction(r.chunks)
bytes_scales_per_kernel(r) == r.device = "CPU"

\* What gen_resource_request_info makes of a query step with a kernel to run (a step
\* without one asks for nothing): a kernel reads some of the bytes, if there are any.
RequestType(r) ==
  /\ r.device \in Devices
  /\ r.cpu_slots \in Nat /\ r.gpu_slots \in Nat
  /\ r.min_cpu_slots = (IF r.device = "CPU" THEN 1 ELSE 0) /\ r.min_gpu_slots = r.gpu_slots
  /\ IF r.device = "CPU" THEN r.cpu_slots > 0 /\ r.gpu_slots = 0
     ELSE r.cpu_slots = 0 /\ r.gpu_slots > 0
  /\ r.cpu_result_mem \in Nat /\ r.min_cpu_result_mem \in 0 .. r.cpu_result_mem
  /\ IsFiniteSet(DOMAIN r.chunks) /\ r.chunks \in [DOMAIN r.chunks -> Nat]
  /\ r.max_bytes_per_kernel \in Nat /\ (total_bytes(r) > 0 => r.max_bytes_per_kernel > 0)

ASSUME RequestsAssumption == \A r \in Requests : RequestType(r)

Grant(cpu, gpu, mem, gated, per_slot, given) ==
  [cpu_slots |-> cpu, gpu_slots |-> gpu, cpu_result_mem |-> mem,
   buffer_mem_gated_per_slot |-> gated, buffer_mem_per_slot |-> per_slot,
   buffer_mem_for_given_slots |-> given]

calc_max_resource_grant_for_request(requested, min, grantable) ==
  IF requested <= grantable THEN requested ELSE IF min <= grantable THEN grantable ELSE 0

calc_min_dependent_resource_grant_for_request(minDependent, minIndependent, ratio) ==
  LET slots == Greatest(Ceil(minDependent, ratio), minIndependent)
  IN [mem |-> slots * ratio, slots |-> slots]

\* Mutant: the slots the memory is enough for are rounded up.
RoundsSlotsUp(requested, minDep, dep, minIndep, indep, ratio) ==
  LET least == calc_min_dependent_resource_grant_for_request(minDep, minIndep, ratio)
      slots == Least(Ceil(dep, ratio), indep)
  IN IF requested <= dep THEN [mem |-> requested, slots |-> indep]
     ELSE IF least.mem > dep THEN [mem |-> 0, slots |-> 0]
     ELSE [mem |-> ratio * slots, slots |-> slots]

calc_max_dependent_resource_grant_for_request(requested, minDep, dep, minIndep, indep, ratio) ==
  LET least == calc_min_dependent_resource_grant_for_request(minDep, minIndep, ratio)
      slots == Least(dep \div ratio, indep)
  IN IF requested <= dep THEN [mem |-> requested, slots |-> indep]
     ELSE IF least.mem > dep THEN [mem |-> 0, slots |-> 0]
     ELSE [mem |-> ratio * slots, slots |-> slots]

\* The least and the most a request can be granted, or the exception it gets.
calc_min_max_resource_grants_for_request(p, r) ==
  LET Max1(s) == max_resource_grant_per_request(p, s)
      cpu == calc_max_resource_grant_for_request(r.cpu_slots, r.min_cpu_slots,
                                                 Max1("CPU_SLOTS"))
      gpu == calc_max_resource_grant_for_request(r.gpu_slots, r.min_gpu_slots,
                                                 Max1("GPU_SLOTS"))
      mem == calc_max_resource_grant_for_request(r.cpu_result_mem, r.min_cpu_result_mem,
                                                 Max1(p.result.subtype))
      kernel == r.max_bytes_per_kernel
      gated == total_bytes(r) > Max1(Pinned(r.device))
      gate == calc_max_dependent_resource_grant_for_request(
                total_bytes(r), kernel, Max1("PAGEABLE_CPU_BUFFER_POOL_MEM"),
                r.min_cpu_slots, cpu, kernel)
      slots == IF gated THEN gate.slots ELSE cpu
      per == IF gated THEN kernel ELSE 0
  IN [error |->
        CASE cpu = 0 /\ r.min_cpu_slots > 0 -> "CPU_SLOTS"
          [] gpu = 0 /\ r.min_gpu_slots > 0 -> "GPU_SLOTS"
          [] mem = 0 /\ r.min_cpu_result_mem > 0 -> "CPU_RESULT_MEM"
          [] gated /\ (~bytes_scales_per_kernel(r) \/ gate.mem = 0) -> "BUFFER_POOL_MEM"
          [] OTHER -> "none",
      min |-> Grant(r.min_cpu_slots, r.min_gpu_slots, r.cpu_result_mem, gated, per,
                    per * r.min_cpu_slots),
      max |-> Grant(slots, gpu, mem, gated, per, per * slots)]

-----------------------------------------------------------------------------
(***************************************************************************)
(* Whether a grant fits in what is free, under the policies for concurrent *)
(* requests.                                                               *)
(***************************************************************************)
check_request_against_global_policy(p, t) ==
  LET allocated == get_allocated_resource_of_type(p, t)
  IN /\ p.policy[t].under = "ALLOW_SINGLE_REQUEST_GLOBALLY" => allocated = 0
     /\ p.policy[t].over = "ALLOW_SINGLE_REQUEST_GLOBALLY" => allocated <= p.total[t]

\* Mutant: a request that is to run alone only looks at its own resource.
AloneByType(policy, min, allocated, outstanding) ==
  CASE policy = "DISALLOW_REQUESTS" -> min = 0
    [] policy = "ALLOW_CONCURRENT_REQUESTS" -> TRUE
    [] OTHER -> min = 0 \/ allocated = 0

test_request_against_policy(policy, min, allocated, outstanding) ==
  CASE policy = "DISALLOW_REQUESTS" -> min = 0
    [] policy = "ALLOW_SINGLE_REQUEST_GLOBALLY" -> outstanding = 0
    [] policy = "ALLOW_SINGLE_REQUEST" -> min = 0 \/ allocated = 0
    [] policy = "ALLOW_CONCURRENT_REQUESTS" -> TRUE

\* Mutant: a request that does not fit is let in whatever the oversubscription policy.
IgnoresOversubscription(p, t, min) ==
  test_request_against_policy(p.policy[t].under, min, get_allocated_resource_of_type(p, t),
                              p.outstanding)

check_request_against_policy(p, t, min) ==
  LET allocated == get_allocated_resource_of_type(p, t)
      Test(policy) == test_request_against_policy(policy, min, allocated, p.outstanding)
  IN /\ Test(p.policy[t].under)
     /\ min + allocated <= p.total[t] \/ Test(p.policy[t].over)

get_chunk_bytes_not_in_pool(p, r) ==
  LET pooled == p.chunks[r.device]
  IN SumFunction([c \in DOMAIN r.chunks |->
                    IF c \notin DOMAIN pooled THEN r.chunks[c]
                    ELSE Greatest(r.chunks[c] - pooled[c].size, 0)])

\* Mutant: the pageable memory that is out is forgotten.
CountsPinnedOnly(p, g, r) ==
  LET needed == IF g.buffer_mem_gated_per_slot THEN g.cpu_slots * g.buffer_mem_per_slot
                ELSE get_chunk_bytes_not_in_pool(p, r)
  IN needed + p.allocated[Pinned(r.device)] <= p.total[BufferPool(r.device)]

can_currently_satisfy_chunk_request(p, g, r) ==
  LET allocated == get_allocated_resource_of_type(p, BufferPool(r.device))
      needed == IF g.buffer_mem_gated_per_slot THEN g.cpu_slots * g.buffer_mem_per_slot
                ELSE get_chunk_bytes_not_in_pool(p, r)
  IN needed + allocated <= p.total[BufferPool(r.device)]

\* The exception a grant gets that exceeds what one request may have.
exceeds_max_grant(p, g) ==
  CASE g.cpu_slots > max_resource_grant_per_request(p, "CPU_SLOTS") -> "CPU_SLOTS"
    [] g.gpu_slots > max_resource_grant_per_request(p, "GPU_SLOTS") -> "GPU_SLOTS"
    [] g.cpu_result_mem > max_resource_grant_per_request(p, p.result.subtype) ->
         "CPU_RESULT_MEM"
    [] OTHER -> "none"

slots_and_result_mem_satisfiable(p, g) ==
  /\ \A t \in {"CPU_SLOTS", "GPU_SLOTS", p.result.type} :
       check_request_against_global_policy(p, t)
  /\ check_request_against_policy(p, "CPU_SLOTS", g.cpu_slots)
  /\ check_request_against_policy(p, "GPU_SLOTS", g.gpu_slots)
  /\ check_request_against_policy(p, p.result.type, g.cpu_result_mem)

can_currently_satisfy_request_impl(p, g, r) ==
  /\ slots_and_result_mem_satisfiable(p, g)
  /\ can_currently_satisfy_chunk_request(p, g, r)

\* can_currently_satisfy_chunk_request, when it is reached, CHECKs that the request
\* fits an empty pool.
can_currently_satisfy_request_CHECK(p, g, r) ==
  slots_and_result_mem_satisfiable(p, g) =>
    (IF g.buffer_mem_gated_per_slot THEN g.cpu_slots * g.buffer_mem_per_slot ELSE total_bytes(r))
      <= p.total[BufferPool(r.device)]

-----------------------------------------------------------------------------
(***************************************************************************)
(* What a request that can be satisfied is granted: between the least and  *)
(* the most, and not more than the backoff ratio of what is left.          *)
(***************************************************************************)
\* Mutants: the least the request needs is forgotten; what is left is forgotten.
BackoffOnly(min, max, allocated, total) ==
  IF min + allocated >= total THEN min
  ELSE Least(max, (2 * BackoffNum * (total - allocated) + BackoffDen) \div (2 * BackoffDen))
GrantsTheMost(min, max, allocated, total) == IF min + allocated >= total THEN min ELSE max

determine_dynamic_single_resource_grant(min, max, allocated, total) ==
  IF min + allocated >= total THEN min
  ELSE Greatest(min, Least(max, (2 * BackoffNum * (total - allocated) + BackoffDen)
                                  \div (2 * BackoffDen)))

determine_dynamic_resource_grant(p, min, max, r) ==
  LET Single(t, lo, hi) ==
        determine_dynamic_single_resource_grant(lo, hi, get_allocated_resource_of_type(p, t),
                                                p.total[t])
      gated == min.buffer_mem_gated_per_slot
      remaining == p.total["CPU_BUFFER_POOL_MEM"]
                     - get_allocated_resource_of_type(p, "CPU_BUFFER_POOL_MEM")
      gate == calc_max_dependent_resource_grant_for_request(
                total_bytes(r), min.buffer_mem_for_given_slots,
                Least(remaining, max.buffer_mem_for_given_slots),
                min.cpu_slots, max.cpu_slots, r.max_bytes_per_kernel)
  IN Grant(IF gated THEN gate.slots ELSE Single("CPU_SLOTS", min.cpu_slots, max.cpu_slots),
           Single("GPU_SLOTS", min.gpu_slots, max.gpu_slots),
           Single(p.result.type, min.cpu_result_mem, max.cpu_result_mem),
           gated,
           IF gated THEN r.max_bytes_per_kernel ELSE 0,
           IF gated THEN gate.mem ELSE 0)

\* A gated grant has the memory of its slots, and slots between the least and the most.
dynamic_resource_grant_CHECK(min, max, g) ==
  g.buffer_mem_gated_per_slot =>
    /\ g.buffer_mem_for_given_slots = g.cpu_slots * g.buffer_mem_per_slot
    /\ g.cpu_slots \in min.cpu_slots .. max.cpu_slots

-----------------------------------------------------------------------------
\* The resource types a grant counts as a request of.
counted_types(p, g) ==
  (IF g.cpu_slots > 0 THEN {"CPU_SLOTS"} ELSE {})
    \cup (IF g.gpu_slots > 0 THEN {"GPU_SLOTS"} ELSE {})
    \cup (IF g.cpu_result_mem > 0 THEN {p.result.type} ELSE {})
\* Mutant: requests for chunks are not counted.
CountsGatedOnly(g, r) == g.buffer_mem_gated_per_slot
counts_buffer_pool(g, r) ==
  g.buffer_mem_gated_per_slot \/ (DOMAIN r.chunks # {} /\ total_bytes(r) > 0)
count_requests(p, g, r, n) ==
  [t \in Types |-> p.outstandingBy[t] + (IF t \in counted_types(p, g) THEN n ELSE 0)
                         + (IF t = BufferPool(r.device) /\ counts_buffer_pool(g, r)
                            THEN n ELSE 0)]

\* The slots and the result memory of a grant, by subtype.
slots_and_result_mem(p, g, s) ==
  (IF s = "CPU_SLOTS" THEN g.cpu_slots ELSE 0)
    + (IF s = "GPU_SLOTS" THEN g.gpu_slots ELSE 0)
    + (IF s = p.result.subtype THEN g.cpu_result_mem ELSE 0)

add_chunk_requests_to_allocated_pool(chunks, r) ==
  [c \in DOMAIN chunks \cup DOMAIN r.chunks |->
     IF c \notin DOMAIN r.chunks THEN chunks[c]
     ELSE IF c \notin DOMAIN chunks THEN [refs |-> 1, size |-> r.chunks[c]]
     ELSE [refs |-> chunks[c].refs + 1, size |-> Greatest(chunks[c].size, r.chunks[c])]]

\* Mutant: the last reference to a chunk is never given up.
KeepsTheLastReference(chunks, r) ==
  [c \in DOMAIN chunks |-> IF c \in DOMAIN r.chunks /\ chunks[c].refs > 1
                           THEN [chunks[c] EXCEPT !.refs = @ - 1] ELSE chunks[c]]

remove_chunk_requests_from_allocated_pool(chunks, r) ==
  [c \in {d \in DOMAIN chunks : d \in DOMAIN r.chunks => chunks[d].refs > 1} |->
     IF c \in DOMAIN r.chunks THEN [chunks[c] EXCEPT !.refs = @ - 1] ELSE chunks[c]]

Bytes(chunks) == SumFunction([c \in DOMAIN chunks |-> chunks[c].size])

\* The pool with the slots, result memory and chunks of a grant added (n = 1) or
\* returned (n = -1).
account(p, g, r, chunks, n) ==
  LET level == IF g.buffer_mem_gated_per_slot THEN "PAGEABLE_CPU_BUFFER_POOL_MEM"
               ELSE Pinned(r.device)
      delta == IF g.buffer_mem_gated_per_slot THEN n * g.buffer_mem_for_given_slots
               ELSE Bytes(chunks) - Bytes(p.chunks[r.device])
  IN [p EXCEPT !.allocated = [s \in Subtypes |-> @[s] + n * slots_and_result_mem(p, g, s)
                                                   + (IF s = level THEN delta ELSE 0)],
               !.outstanding = @ + n,
               !.outstandingBy = count_requests(p, g, r, n),
               !.chunks[r.device] = chunks]

allocate_resources(p, g, r) ==
  account(p, g, r, IF g.buffer_mem_gated_per_slot THEN p.chunks[r.device]
                   ELSE add_chunk_requests_to_allocated_pool(p.chunks[r.device], r), 1)

\* allocate_resources CHECKs that the request can be satisfied, and
\* add_chunk_requests_to_allocated_pool that the buffer pool is not overcommitted.
allocate_resources_CHECK(p, g, r) ==
  exceeds_max_grant(p, g) = "none" /\ can_currently_satisfy_request_impl(p, g, r)
add_chunk_requests_CHECK(p, g, r) ==
  LET q == allocate_resources(p, g, r)
  IN IF g.buffer_mem_gated_per_slot
     THEN get_allocated_resource_of_type(q, "CPU_BUFFER_POOL_MEM")
            <= q.total["CPU_BUFFER_POOL_MEM"]
     ELSE q.allocated[Pinned(r.device)] <= q.total[BufferPool(r.device)]

deallocate_resources(p, g, r) ==
  account(p, g, r, IF g.buffer_mem_gated_per_slot THEN p.chunks[r.device]
                   ELSE remove_chunk_requests_from_allocated_pool(p.chunks[r.device], r), -1)

deallocate_resources_CHECK(p, g, r) ==
  /\ g.cpu_slots <= p.allocated["CPU_SLOTS"]
  /\ g.gpu_slots <= p.allocated["GPU_SLOTS"]
  /\ g.cpu_result_mem <= get_allocated_resource_of_type(p, p.result.type)
  /\ IF g.buffer_mem_gated_per_slot
     THEN g.buffer_mem_for_given_slots <= p.allocated["PAGEABLE_CPU_BUFFER_POOL_MEM"]
     ELSE DOMAIN r.chunks \subseteq DOMAIN p.chunks[r.device]

\* set_resource and set_concurrent_resource_grant_policy: only on a pool without
\* outstanding requests (an exception otherwise); the limits per request follow.
set_resource(p, t, quantity) == [p EXCEPT !.total[t] = quantity]
set_concurrent_resource_grant_policy(p, t, policy) == [p EXCEPT !.policy[t] = policy]

\* sanity_check_requests_against_allocations: what is allocated and what is
\* outstanding agree.
sanity_check_requests_against_allocations(p) ==
  LET slotTypes == {"CPU_SLOTS", "GPU_SLOTS", p.result.type}
      sum == SumFunctionOnSet(p.outstandingBy, slotTypes)
  IN /\ p.outstanding <= sum
     /\ (sum > 0) = (p.outstanding > 0)
     /\ \A t \in slotTypes : p.outstandingBy[t] <= get_allocated_resource_of_type(p, t)
     /\ \A t \in slotTypes \cup {"CPU_BUFFER_POOL_MEM", "GPU_BUFFER_POOL_MEM"} :
          (p.outstandingBy[t] > 0) = (get_allocated_resource_of_type(p, t) > 0)
     /\ p.outstanding = 0 => \A d \in Devices : p.chunks[d] = <<>>

-----------------------------------------------------------------------------
(***************************************************************************)
(* The pool by itself: clients are granted what the pool determines for    *)
(* them, and return it.                                                    *)
(***************************************************************************)
poolVars == <<pool, held, aborted>>

\* The first CHECK that fails when a grant is determined and allocated.
failed_CHECK(p, e, g, r) ==
  CASE ~dynamic_resource_grant_CHECK(e.min, e.max, g) -> "determine_dynamic_resource_grant"
    [] ~allocate_resources_CHECK(p, g, r) -> "allocate_resources"
    [] ~add_chunk_requests_CHECK(p, g, r) -> "add_chunk_requests_to_allocated_pool"
    [] OTHER -> "none"

PoolInit ==
  /\ pool \in {generate_executor_resource_mgr(c) : c \in Configs}
  /\ held = <<>>
  /\ aborted = "none"

GrantTo(c, r) ==
  LET e == calc_min_max_resource_grants_for_request(pool, r)
      g == determine_dynamic_resource_grant(pool, e.min, e.max, r)
      failed == failed_CHECK(pool, e, g, r)
  IN /\ aborted = "none"
     /\ c \notin DOMAIN held
     /\ e.error = "none"
     /\ exceeds_max_grant(pool, e.min) = "none"
     /\ can_currently_satisfy_request_impl(pool, e.min, r)
     /\ aborted' = failed
     /\ IF failed = "none"
        THEN /\ pool' = allocate_resources(pool, g, r)
             /\ held' = [d \in DOMAIN held \cup {c} |->
                            IF d = c THEN [request |-> r, grant |-> g] ELSE held[d]]
        ELSE UNCHANGED <<pool, held>>

Return(c) ==
  LET h == held[c]
      ok == deallocate_resources_CHECK(pool, h.grant, h.request)
  IN /\ aborted = "none"
     /\ c \in DOMAIN held
     /\ aborted' = IF ok THEN "none" ELSE "deallocate_resources"
     /\ IF ok
        THEN /\ pool' = deallocate_resources(pool, h.grant, h.request)
             /\ held' = [d \in DOMAIN held \ {c} |-> held[d]]
        ELSE UNCHANGED <<pool, held>>

PoolNext == \E c \in Clients : Return(c) \/ \E r \in Requests : GrantTo(c, r)

PoolSpec == PoolInit /\ [][PoolNext]_poolVars

-----------------------------------------------------------------------------
(***************************************************************************)
(* Properties.                                                             *)
(***************************************************************************)
Holders(d) == {c \in DOMAIN held : ~held[c].grant.buffer_mem_gated_per_slot
                                     /\ held[c].request.device = d}

\* The books of the pool agree with the grants that are out: slots and result memory
\* are their sums, a chunk is pledged exactly while an ungated holder refers to it and
\* is as large as the largest of them asks for, and the pinned and pageable memory are
\* the chunks, the gated grants and the result memory (allocate_resources,
\* deallocate_resources and the functions for chunks they call).
PoolMatchesGrants ==
  LET Slots(s) == SumFunction([c \in DOMAIN held |->
                                 slots_and_result_mem(pool, held[c].grant, s)])
  IN /\ pool.outstanding = Cardinality(DOMAIN held)
     /\ \A d \in Devices :
          /\ \A k \in DOMAIN pool.chunks[d] :
               /\ pool.chunks[d][k].refs
                    = Cardinality({c \in Holders(d) : k \in DOMAIN held[c].request.chunks})
               /\ \A c \in Holders(d) : k \in DOMAIN held[c].request.chunks =>
                    held[c].request.chunks[k] <= pool.chunks[d][k].size
          /\ DOMAIN pool.chunks[d] = UNION {DOMAIN held[c].request.chunks : c \in Holders(d)}
          /\ pool.allocated[Pinned(d)] = Slots(Pinned(d)) + Bytes(pool.chunks[d])
     /\ \A s \in {"CPU_SLOTS", "GPU_SLOTS", "CPU_RESULT_MEM"} : pool.allocated[s] = Slots(s)
     /\ pool.allocated["PAGEABLE_CPU_BUFFER_POOL_MEM"]
          = SumFunction([c \in DOMAIN held |-> held[c].grant.buffer_mem_for_given_slots])

\* The buffer pools are never overcommitted, and a slot type or the result memory only
\* where the policy lets concurrent requests do so, or by one request alone
\* (can_currently_satisfy_request_impl, determine_dynamic_resource_grant).
NeverOvercommitted ==
  LET Users(t) == {c \in DOMAIN held : t \in counted_types(pool, held[c].grant)}
      Over(t) == get_allocated_resource_of_type(pool, t) > pool.total[t]
  IN /\ \A d \in Devices : ~Over(BufferPool(d))
     /\ \A t \in {"CPU_SLOTS", "GPU_SLOTS", "CPU_RESULT_MEM"} :
          Over(t) => \/ pool.policy[t].over = "ALLOW_CONCURRENT_REQUESTS"
                     \/ Cardinality(Users(t)) = 1

\* A request for a resource that is to run alone in the system does
\* (ALLOW_SINGLE_REQUEST_GLOBALLY in check_request_against_policy).
RunsAlone ==
  \A t \in {"CPU_SLOTS", "GPU_SLOTS"} :
    /\ pool.policy[t].under = "ALLOW_SINGLE_REQUEST_GLOBALLY"
    /\ \E c \in DOMAIN held : t \in counted_types(pool, held[c].grant)
    => Cardinality(DOMAIN held) = 1

\* A grant lies between the least and the most its request was promised: nobody runs
\* with less than it needs (determine_dynamic_resource_grant).
GrantsWithinBounds ==
  \A c \in DOMAIN held :
    LET e == calc_min_max_resource_grants_for_request(pool, held[c].request)
    IN \A f \in {"cpu_slots", "gpu_slots", "cpu_result_mem"} :
         held[c].grant[f] \in e.min[f] .. e.max[f]

\* A request that is accepted, and not refused when its turn comes, can be granted on an
\* empty pool: no request waits for ever in an idle system
\* (calc_min_max_resource_grants_for_request).
AcceptedIsServable ==
  pool.outstanding = 0 =>
    \A r \in Requests :
      LET e == calc_min_max_resource_grants_for_request(pool, r)
      IN e.error = "none" /\ exceeds_max_grant(pool, e.min) = "none"
         => /\ can_currently_satisfy_request_CHECK(pool, e.min, r)
            /\ can_currently_satisfy_request_impl(pool, e.min, r)

\* The sanity check the pool can make after a deallocation, which the build leaves off
\* (sanity_check_requests_against_allocations), would pass in every state.
SanityCheckHolds == sanity_check_requests_against_allocations(pool)

\* No CHECK of the pool fails: the server does not abort.
ChecksHold == aborted = "none"

\* Where queries may run concurrently on the CPU, one that needs only CPU slots, no
\* memory, and for which slots are free, can run.
CpuQueriesRunConcurrently ==
  /\ pool.policy["CPU_SLOTS"].under = "ALLOW_CONCURRENT_REQUESTS"
  /\ pool.allocated["CPU_SLOTS"] < pool.total["CPU_SLOTS"]
  /\ pool.allocated["GPU_SLOTS"] = 0
  => \A r \in Requests :
       LET e == calc_min_max_resource_grants_for_request(pool, r)
       IN /\ e.error = "none"
          /\ r.device = "CPU" /\ r.min_cpu_slots = 1
          /\ r.cpu_result_mem = 0 /\ DOMAIN r.chunks = {}
          => can_currently_satisfy_request_impl(pool, e.min, r)
=============================================================================
