--------------------- MODULE ExecutorResourcePoolProofs ---------------------
(***************************************************************************)
(* Proofs about ExecutorResourcePool, for every server configuration,      *)
(* every set of requests and every number of clients: the books of the     *)
(* pool agree with the grants that are out, and what follows from that.    *)
(***************************************************************************)
EXTENDS ExecutorResourcePoolBooksProofs

USE SMTT(60)

\* What a grant takes of the buffer pools: gated requests take none of their chunks.
BytesTaken(p, g, r, q) ==
  /\ \A d \in Devices :
       /\ Bytes(p.chunks[d]) \in Nat
       /\ d # r.device \/ g.buffer_mem_gated_per_slot => Bytes(q.chunks[d]) = Bytes(p.chunks[d])
  /\ ~g.buffer_mem_gated_per_slot =>
       /\ Bytes(q.chunks[r.device]) = Bytes(p.chunks[r.device]) + get_chunk_bytes_not_in_pool(p, r)
       /\ get_chunk_bytes_not_in_pool(p, r) \in Nat

\* allocate_resources takes that.
LEMMA GrantedBytes ==
  ASSUME NEW p, PoolType(p), NEW g, NEW r, RequestShape(r), GrantType(g, r),
         NEW q, PoolType(q), q = allocate_resources(p, g, r)
  PROVE  BytesTaken(p, g, r, q)
<1> DEFINE new == IF g.buffer_mem_gated_per_slot THEN p.chunks[r.device]
                  ELSE add_chunk_requests_to_allocated_pool(p.chunks[r.device], r)
<1>1. r.device \in Devices /\ \A d \in Devices : ChunksType(p.chunks[d]) /\ ChunksType(q.chunks[d])
  BY DEF RequestShape, PoolType
<1>2. \A d \in Devices : Bytes(p.chunks[d]) \in Nat
  BY <1>1, BytesNat
<1>3. q.chunks = [d \in Devices |-> IF d = r.device THEN new ELSE p.chunks[d]]
  <2>1. AccountOf(p, g, r, new, 1, q)
    BY AccountFields, ZenonT(60) DEF allocate_resources
  <2> QED BY <2>1, ZenonT(60) DEF AccountOf
<1>4. q.chunks[r.device] = new /\ \A d \in Devices : d # r.device => q.chunks[d] = p.chunks[d]
  BY <1>1, <1>3, ZenonT(60)
<1>5. CASE g.buffer_mem_gated_per_slot
  BY <1>1, <1>2, <1>4, <1>5, ZenonT(60) DEF BytesTaken
<1>6. CASE ~g.buffer_mem_gated_per_slot
  <2>1. q.chunks[r.device] = add_chunk_requests_to_allocated_pool(p.chunks[r.device], r)
    BY <1>4, <1>6, ZenonT(60)
  <2>2. /\ Bytes(q.chunks[r.device]) = Bytes(p.chunks[r.device]) + get_chunk_bytes_not_in_pool(p, r)
        /\ get_chunk_bytes_not_in_pool(p, r) \in Nat
    BY <1>1, <2>1, BytesAdded, ZenonT(60)
  <2> HIDE DEF new
  <2> QED BY <1>2, <1>4, <1>6, <2>2, ZenonT(60) DEF BytesTaken
<1> QED BY <1>5, <1>6

\* A return takes nothing more of the buffer pools.
LEMMA ReturnedBytes ==
  ASSUME NEW p, PoolType(p), NEW g, NEW r, RequestShape(r), GrantType(g, r),
         NEW q, PoolType(q), q = deallocate_resources(p, g, r)
  PROVE  \A d \in Devices : /\ Bytes(p.chunks[d]) \in Nat /\ Bytes(q.chunks[d]) \in Nat
                           /\ Bytes(q.chunks[d]) <= Bytes(p.chunks[d])
<1> DEFINE new == IF g.buffer_mem_gated_per_slot THEN p.chunks[r.device]
                  ELSE remove_chunk_requests_from_allocated_pool(p.chunks[r.device], r)
<1>1. r.device \in Devices /\ \A d \in Devices : ChunksType(p.chunks[d]) /\ ChunksType(q.chunks[d])
  BY DEF RequestShape, PoolType
<1>2. \A d \in Devices : Bytes(p.chunks[d]) \in Nat /\ Bytes(q.chunks[d]) \in Nat
  BY <1>1, BytesNat
<1>3. q.chunks = [d \in Devices |-> IF d = r.device THEN new ELSE p.chunks[d]]
  <2>1. AccountOf(p, g, r, new, -1, q)
    BY AccountFields, ZenonT(60) DEF deallocate_resources
  <2> QED BY <2>1, ZenonT(60) DEF AccountOf
<1>4. q.chunks[r.device] = new /\ \A d \in Devices : d # r.device => q.chunks[d] = p.chunks[d]
  BY <1>1, <1>3
<1>5. CASE g.buffer_mem_gated_per_slot
  BY <1>1, <1>2, <1>4, <1>5
<1>6. CASE ~g.buffer_mem_gated_per_slot
  <2>1. q.chunks[r.device] = remove_chunk_requests_from_allocated_pool(p.chunks[r.device], r)
    BY <1>4, <1>6
  <2>2. Bytes(q.chunks[r.device]) <= Bytes(p.chunks[r.device])
    BY <1>1, <2>1, BytesRemoved, ZenonT(60)
  <2> HIDE DEF new
  <2> QED BY <1>2, <1>4, <2>2
<1> QED BY <1>5, <1>6, ZenonT(60)

\* determine_dynamic_resource_grant stays within the bounds of an accepted request.
LEMMA Determined ==
  ASSUME NEW p, LimitsType(p), PoolType(p), NEW r, RequestType(r), Accepted(p, r),
         NEW e, e = calc_min_max_resource_grants_for_request(p, r),
         NEW g, g = determine_dynamic_resource_grant(p, e.min, e.max, r),
         dynamic_resource_grant_CHECK(e.min, e.max, g)
  PROVE  GrantOf(p, r, e, g)
<1> DEFINE S(t, lo, hi) == determine_dynamic_single_resource_grant(lo, hi, get_allocated_resource_of_type(p, t),
                                                                   p.total[t])
           gated == e.min.buffer_mem_gated_per_slot
<1>1. /\ ~gated => g.cpu_slots = S("CPU_SLOTS", e.min.cpu_slots, e.max.cpu_slots)
      /\ g.gpu_slots = S("GPU_SLOTS", e.min.gpu_slots, e.max.gpu_slots)
      /\ g.cpu_result_mem = S(p.result.type, e.min.cpu_result_mem, e.max.cpu_result_mem)
      /\ g.buffer_mem_gated_per_slot = gated
      /\ gated => g.buffer_mem_per_slot = r.max_bytes_per_kernel
      /\ ~gated => g.buffer_mem_for_given_slots = 0
      /\ DOMAIN g = {"cpu_slots", "gpu_slots", "cpu_result_mem", "buffer_mem_gated_per_slot",
                     "buffer_mem_per_slot", "buffer_mem_for_given_slots"}
  BY DEF determine_dynamic_resource_grant, Grant
<1>2. /\ e.min.cpu_slots = r.min_cpu_slots /\ e.min.gpu_slots = r.min_gpu_slots
      /\ e.min.cpu_result_mem = r.cpu_result_mem
      /\ e.max.gpu_slots = r.gpu_slots /\ e.max.cpu_result_mem = r.cpu_result_mem
      /\ gated \in BOOLEAN
      /\ gated <=> (total_bytes(r) > max_resource_grant_per_request(p, Pinned(r.device)))
      /\ gated => r.device = "CPU"
      /\ ~gated => e.max.cpu_slots \in Nat /\ r.min_cpu_slots <= e.max.cpu_slots
  BY Bounds DEF BoundsOf
<1>3. /\ r.min_cpu_slots \in Nat /\ r.gpu_slots \in Nat /\ r.min_gpu_slots = r.gpu_slots
      /\ r.cpu_result_mem \in Nat /\ r.device \in {"CPU", "GPU"}
      /\ r.device = "CPU" => r.min_cpu_slots = 1
      /\ r.device = "GPU" => r.gpu_slots > 0
      /\ r.max_bytes_per_kernel \in Nat /\ (total_bytes(r) > 0 => r.max_bytes_per_kernel > 0)
  BY DEF RequestType, Devices
<1>4. /\ p.result.type \in Types
      /\ \A t \in Types : p.total[t] \in Nat /\ get_allocated_resource_of_type(p, t) \in Int
  BY AllocatedInt DEF LimitsType, Separate, Pooled, Types
<1> HIDE DEF gated
<1>5. g.gpu_slots = r.gpu_slots
  <2> DEFINE a == get_allocated_resource_of_type(p, "GPU_SLOTS")
             t == p.total["GPU_SLOTS"]
  <2>1. "GPU_SLOTS" \in Types
    BY DEF Types
  <2>2. /\ g.gpu_slots = determine_dynamic_single_resource_grant(r.gpu_slots, r.gpu_slots, a, t)
        /\ a \in Int /\ t \in Nat /\ r.gpu_slots \in Nat
    BY <1>1, <1>2, <1>3, <1>4, <2>1, ZenonT(60)
  <2> HIDE DEF a, t
  <2>3. r.gpu_slots <= r.gpu_slots
    BY ONLY <2>2, SMTT(60)
  <2>4. g.gpu_slots \in r.gpu_slots .. r.gpu_slots
    BY <2>2, <2>3, SingleGrant, ZenonT(60)
  <2> QED BY ONLY <2>2, <2>4, SMTT(60)
<1>6. g.cpu_result_mem = r.cpu_result_mem
  <2> DEFINE a == get_allocated_resource_of_type(p, p.result.type)
             t == p.total[p.result.type]
  <2>0. /\ g.cpu_result_mem
             = determine_dynamic_single_resource_grant(r.cpu_result_mem, r.cpu_result_mem, a, t)
        /\ a \in Int /\ t \in Nat /\ r.cpu_result_mem \in Nat /\ r.cpu_result_mem <= r.cpu_result_mem
    BY <1>1, <1>2, <1>3, <1>4
  <2> HIDE DEF a, t
  <2>1. g.cpu_result_mem \in r.cpu_result_mem .. r.cpu_result_mem
    BY <2>0, SingleGrant, ZenonT(60)
  <2> QED BY <1>3, <2>1
<1>7. ASSUME ~gated
      PROVE  /\ g.cpu_slots \in e.min.cpu_slots .. e.max.cpu_slots
             /\ \/ g.cpu_slots = e.min.cpu_slots
                \/ g.cpu_slots + p.allocated["CPU_SLOTS"] <= p.total["CPU_SLOTS"]
  <2>1. "CPU_SLOTS" \in Types /\ get_allocated_resource_of_type(p, "CPU_SLOTS") = p.allocated["CPU_SLOTS"]
    BY DEF Types, get_allocated_resource_of_type
  <2>2. /\ e.min.cpu_slots \in Nat /\ e.max.cpu_slots \in Nat /\ e.min.cpu_slots <= e.max.cpu_slots
        /\ p.total["CPU_SLOTS"] \in Nat /\ p.allocated["CPU_SLOTS"] \in Int
        /\ g.cpu_slots = determine_dynamic_single_resource_grant(
                           e.min.cpu_slots, e.max.cpu_slots, p.allocated["CPU_SLOTS"],
                           p.total["CPU_SLOTS"])
    BY <1>1, <1>2, <1>3, <1>4, <1>7, <2>1, ZenonT(60)
  <2> QED BY ONLY <2>2, SingleGrant, SMTT(60)
<1>8. ASSUME gated
      PROVE  /\ g.cpu_slots \in e.min.cpu_slots .. e.max.cpu_slots
             /\ g.cpu_slots \in Nat /\ g.cpu_slots > 0
             /\ g.buffer_mem_for_given_slots = g.cpu_slots * g.buffer_mem_per_slot
             /\ g.buffer_mem_for_given_slots \in Nat /\ g.buffer_mem_for_given_slots > 0
  <2>1. /\ g.cpu_slots \in e.min.cpu_slots .. e.max.cpu_slots
        /\ g.buffer_mem_for_given_slots = g.cpu_slots * g.buffer_mem_per_slot
        /\ g.buffer_mem_per_slot = r.max_bytes_per_kernel
    BY <1>1, <1>8, ZenonT(60) DEF dynamic_resource_grant_CHECK
  <2>2. e.min.cpu_slots = 1
    BY <1>2, <1>3, <1>8, ZenonT(60)
  <2>3. g.cpu_slots \in Nat /\ g.cpu_slots > 0
    BY <2>1, <2>2
  <2>4. max_resource_grant_per_request(p, Pinned(r.device)) \in Nat
    BY <1>3, MaxGrant, Parts, ZenonT(60) DEF Pinned, Subtypes
  <2>5. total_bytes(r) \in Nat
    BY SumNat, ZenonT(60) DEF RequestType, total_bytes, SumFunction
  <2>6. r.max_bytes_per_kernel > 0
    BY ONLY <1>2, <1>3, <1>8, <2>4, <2>5, SMTT(60)
  <2> QED BY <1>3, <2>1, <2>3, <2>6
<1>9. /\ g.cpu_slots \in Nat
      /\ g.cpu_slots > 0 \/ g.gpu_slots > 0
      /\ g.cpu_slots \in e.min.cpu_slots .. e.max.cpu_slots
  BY ONLY <1>2, <1>3, <1>5, <1>7, <1>8, SMTT(60)
<1>10. GrantType(g, r)
  BY ONLY <1>1, <1>2, <1>3, <1>5, <1>6, <1>8, <1>9, SMTT(60) DEF GrantType
<1>11. \A f \in {"cpu_slots", "gpu_slots", "cpu_result_mem"} : g[f] \in e.min[f] .. e.max[f]
  BY ONLY <1>2, <1>3, <1>5, <1>6, <1>9, SMTT(60)
<1> QED BY <1>1, <1>5, <1>6, <1>7, <1>8, <1>9, <1>10, <1>11, ZenonT(60) DEF GrantOf, gated

-----------------------------------------------------------------------------
(***************************************************************************)
(* The steps of a pool p with the grants h, to q and k.                    *)
(***************************************************************************)
\* A grant that passes the CHECKs, and its return.
Granted(p, h, c, x, q, k) ==
  LET e == calc_min_max_resource_grants_for_request(p, x.request)
  IN /\ RequestType(x.request) /\ Accepted(p, x.request)
     /\ x.grant = determine_dynamic_resource_grant(p, e.min, e.max, x.request)
     /\ dynamic_resource_grant_CHECK(e.min, e.max, x.grant)
     /\ allocate_resources_CHECK(p, x.grant, x.request)
     /\ q = allocate_resources(p, x.grant, x.request)
     /\ Added(h, k, c, x)
Returned(p, h, c, q, k) ==
  /\ q = deallocate_resources(p, h[c].grant, h[c].request)
  /\ Dropped(h, k, c)

\* A grant is what its request was promised.
Promised(p, x) ==
  LET e == calc_min_max_resource_grants_for_request(p, x.request)
  IN /\ \A f \in {"cpu_slots", "gpu_slots", "cpu_result_mem"} : x.grant[f] \in e.min[f] .. e.max[f]
     /\ x.grant.cpu_slots > 0 \/ x.grant.gpu_slots > 0
     /\ x.grant.buffer_mem_gated_per_slot => x.grant.buffer_mem_for_given_slots > 0

\* Requests that run alone in the system do.
Alone(p) ==
  \A t \in {"CPU_SLOTS", "GPU_SLOTS"} :
    p.policy[t].under = "ALLOW_SINGLE_REQUEST_GLOBALLY" => p.outstanding <= 1

\* The invariant of a pool, whatever its configuration.
PoolInv(p, h) ==
  /\ LimitsType(p) /\ PoolType(p) /\ Books(p, h)
  /\ \A c \in DOMAIN h : Promised(p, h[c])
  /\ Alone(p)

\* The limits are part of what does not change.
LEMMA LimitsKept ==
  ASSUME NEW p, NEW q, SameLimits(p, q)
  PROVE  /\ LimitsType(p) => LimitsType(q)
         /\ \A x : Promised(q, x) <=> Promised(p, x)
<1>1. LimitsType(p) => LimitsType(q)
  BY DEF SameLimits, LimitsType
<1>2. ASSUME NEW x PROVE Promised(q, x) <=> Promised(p, x)
  <2>1. calc_min_max_resource_grants_for_request(q, x.request)
          = calc_min_max_resource_grants_for_request(p, x.request)
    BY SameBounds
  <2> QED BY <2>1, Zenon DEF Promised
<1> QED BY <1>1, <1>2, ZenonT(60)

\* A grant that passes the CHECKs is what was promised.
LEMMA GrantPromised ==
  ASSUME NEW p, LimitsType(p), PoolType(p), NEW h, NEW c, NEW x, NEW q, NEW k,
         Granted(p, h, c, x, q, k)
  PROVE  /\ RequestShape(x.request) /\ GrantType(x.grant, x.request) /\ Promised(p, x)
         /\ Added(h, k, c, x) /\ q = allocate_resources(p, x.grant, x.request)
         /\ allocate_resources_CHECK(p, x.grant, x.request)
<1> DEFINE e == calc_min_max_resource_grants_for_request(p, x.request)
<1>1. /\ RequestType(x.request) /\ Accepted(p, x.request)
      /\ x.grant = determine_dynamic_resource_grant(p, e.min, e.max, x.request)
      /\ dynamic_resource_grant_CHECK(e.min, e.max, x.grant)
      /\ allocate_resources_CHECK(p, x.grant, x.request)
      /\ q = allocate_resources(p, x.grant, x.request)
      /\ Added(h, k, c, x)
  BY Zenon DEF Granted
<1>2. GrantOf(p, x.request, e, x.grant)
  BY <1>1, Determined
<1>3. GrantType(x.grant, x.request)
  BY <1>2, Zenon DEF GrantOf
<1>4. Promised(p, x)
  BY <1>2, Zenon DEF GrantOf, Promised
<1>5. RequestShape(x.request)
  BY <1>1, Parts, ZenonT(60)
<1> QED BY <1>1, <1>3, <1>4, <1>5, ZenonT(60)

\* Where a policy has requests run alone, a grant is made only when nothing is out.
LEMMA GrantAlone ==
  ASSUME NEW p, NEW g, NEW r, allocate_resources_CHECK(p, g, r),
         NEW t \in {"CPU_SLOTS", "GPU_SLOTS"}, p.policy[t].under = "ALLOW_SINGLE_REQUEST_GLOBALLY"
  PROVE  p.outstanding = 0
<1>1. /\ check_request_against_policy(p, "CPU_SLOTS", g.cpu_slots)
      /\ check_request_against_policy(p, "GPU_SLOTS", g.gpu_slots)
  BY DEF allocate_resources_CHECK, can_currently_satisfy_request_impl,
         slots_and_result_mem_satisfiable
<1> QED BY <1>1, ZenonT(60) DEF check_request_against_policy, test_request_against_policy

\* A grant keeps the invariant.
LEMMA GrantedKeeps ==
  ASSUME NEW p, NEW h, PoolInv(p, h), NEW c, NEW x, NEW q, NEW k, Granted(p, h, c, x, q, k)
  PROVE  SameLimits(p, q) /\ PoolInv(q, k)
<1>1. LimitsType(p) /\ PoolType(p) /\ Books(p, h)
  BY DEF PoolInv
<1>2. /\ RequestShape(x.request) /\ GrantType(x.grant, x.request) /\ Promised(p, x)
      /\ Added(h, k, c, x) /\ q = allocate_resources(p, x.grant, x.request)
      /\ allocate_resources_CHECK(p, x.grant, x.request)
  BY <1>1, GrantPromised
<1>3. SameLimits(p, q) /\ PoolType(q) /\ Books(q, k)
  BY <1>1, <1>2, AllocateBooks
<1>4. LimitsType(q) /\ \A y : Promised(q, y) <=> Promised(p, y)
  BY <1>1, <1>3, LimitsKept, ZenonT(60)
<1>5. \A b \in DOMAIN k : Promised(q, k[b])
  BY <1>2, <1>4, Zenon DEF PoolInv, Added
<1>6. q.outstanding = p.outstanding + 1
  <2>1. IsFiniteSet(DOMAIN h) /\ p.outstanding = Cardinality(DOMAIN h)
        /\ q.outstanding = Cardinality(DOMAIN k)
    BY <1>1, <1>3, ZenonT(60) DEF Books, HeldType
  <2>2. DOMAIN k = DOMAIN h \cup {c} /\ c \notin DOMAIN h
    BY <1>2, ZenonT(60) DEF Added
  <2> QED BY <2>1, <2>2, FS_AddElement, ZenonT(60)
<1>7. Alone(q)
  BY ONLY <1>2, <1>3, <1>6, GrantAlone, SMTT(60) DEF Alone, SameLimits
<1> QED BY <1>3, <1>4, <1>5, <1>7, ZenonT(60) DEF PoolInv

\* A return keeps it.
LEMMA ReturnedKeeps ==
  ASSUME NEW p, NEW h, PoolInv(p, h), NEW c, NEW q, NEW k, Returned(p, h, c, q, k)
  PROVE  SameLimits(p, q) /\ PoolInv(q, k)
<1>1. LimitsType(p) /\ PoolType(p) /\ Books(p, h)
  BY DEF PoolInv
<1>2. Dropped(h, k, c) /\ q = deallocate_resources(p, h[c].grant, h[c].request)
  BY DEF Returned
<1>3. SameLimits(p, q) /\ PoolType(q) /\ Books(q, k)
  BY <1>1, <1>2, DeallocateBooks, ZenonT(60)
<1>4. LimitsType(q) /\ \A y : Promised(q, y) <=> Promised(p, y)
  BY <1>1, <1>3, LimitsKept, ZenonT(60)
<1>5. \A b \in DOMAIN k : Promised(q, k[b])
  BY <1>2, <1>4, Zenon DEF PoolInv, Dropped
<1>6. q.outstanding = p.outstanding - 1 /\ p.outstanding \in Nat
  <2>1. IsFiniteSet(DOMAIN h) /\ p.outstanding = Cardinality(DOMAIN h)
        /\ q.outstanding = Cardinality(DOMAIN k)
    BY <1>1, <1>3 DEF Books, HeldType
  <2>2. DOMAIN k = DOMAIN h \ {c} /\ c \in DOMAIN h
    BY <1>2 DEF Dropped
  <2> QED BY <2>1, <2>2, FS_RemoveElement, FS_CardinalityType, ZenonT(60)
<1>7. Alone(q)
  BY <1>3, <1>6 DEF Alone, SameLimits, PoolInv
<1> QED BY <1>3, <1>4, <1>5, <1>7, ZenonT(60) DEF PoolInv

\* A new pool, with no grants out, satisfies the invariant.
LEMMA NewInv ==
  ASSUME NEW c \in Configs, NEW p, p = generate_executor_resource_mgr(c),
         NEW h, DOMAIN h = {}
  PROVE  PoolInv(p, h) /\ (p.result = Separate <=> ~c.use_cpu_mem_pool_for_output_buffers)
BY NewBooks DEF PoolInv, Alone

\* What a grant has is in the books: deallocate_resources never fails a CHECK.
LEMMA ReturnPassesChecks ==
  ASSUME NEW p, NEW h, PoolInv(p, h), NEW c \in DOMAIN h, NEW x, x = h[c]
  PROVE  deallocate_resources_CHECK(p, x.grant, x.request)
<1>1. LimitsType(p) /\ PoolType(p) /\ Books(p, h) /\ HeldType(h)
  BY DEF PoolInv, Books
<1>2. RequestShape(x.request) /\ GrantType(x.grant, x.request)
  BY <1>1 DEF HeldType
<1>3. \A kind, s : /\ Sum(p, h, kind, s) \in Nat /\ Share(p, x, kind, s) \in Nat
                   /\ Share(p, x, kind, s) <= Sum(p, h, kind, s)
  BY <1>1, SumShares, ZenonT(60)
<1>4. \A d \in Devices : Bytes(p.chunks[d]) \in Nat
  BY <1>1, BytesNat, ZenonT(60) DEF PoolType
<1>5. \A s \in Subtypes : /\ p.allocated[s] = Sum(p, h, "slots", s) + Extra(p, h, s)
                          /\ Extra(p, h, s) \in Nat
  BY <1>1, <1>3, <1>4, ZenonT(60) DEF Books, Extra, Devices
<1>6. \A s \in Subtypes : p.allocated[s] \in Nat /\ Share(p, x, "slots", s) <= p.allocated[s]
  BY <1>3, <1>5
<1>7. \A s : Share(p, x, "slots", s) = slots_and_result_mem(p, x.grant, s)
  BY DEF Share
<1>8. /\ x.grant.cpu_slots \in Nat /\ x.grant.gpu_slots \in Nat /\ x.grant.cpu_result_mem \in Nat
  BY <1>2, ZenonT(60) DEF GrantType
<1>9. p.result \in {Separate, Pooled}
  BY <1>1, ZenonT(60) DEF LimitsType
<1>10. /\ slots_and_result_mem(p, x.grant, "CPU_SLOTS") = x.grant.cpu_slots
       /\ slots_and_result_mem(p, x.grant, "GPU_SLOTS") = x.grant.gpu_slots
       /\ slots_and_result_mem(p, x.grant, p.result.subtype) = x.grant.cpu_result_mem
  BY <1>8, <1>9 DEF slots_and_result_mem, Separate, Pooled
<1>11. /\ x.grant.cpu_slots <= p.allocated["CPU_SLOTS"]
       /\ x.grant.gpu_slots <= p.allocated["GPU_SLOTS"]
       /\ x.grant.cpu_result_mem <= p.allocated[p.result.subtype]
  <2>1. {"CPU_SLOTS", "GPU_SLOTS", p.result.subtype} \subseteq Subtypes
    BY <1>9 DEF Subtypes, Separate, Pooled
  <2> QED BY <1>6, <1>7, <1>10, <2>1, ZenonT(60)
<1>12. x.grant.cpu_result_mem <= get_allocated_resource_of_type(p, p.result.type)
  BY ONLY <1>6, <1>8, <1>9, <1>11, SMTT(60) DEF get_allocated_resource_of_type, Separate, Pooled, Subtypes
<1>13. x.grant.buffer_mem_for_given_slots <= p.allocated["PAGEABLE_CPU_BUFFER_POOL_MEM"]
  <2>1. Extra(p, h, "PAGEABLE_CPU_BUFFER_POOL_MEM") = Sum(p, h, "gated", "all")
    BY DEF Extra
  <2>2. Share(p, x, "gated", "all") = x.grant.buffer_mem_for_given_slots
    BY DEF Share
  <2>3. "PAGEABLE_CPU_BUFFER_POOL_MEM" \in Subtypes
    BY ZenonT(60) DEF Subtypes
  <2> QED BY ONLY <1>3, <1>5, <2>1, <2>2, <2>3, SMTT(60)
<1>14. ~x.grant.buffer_mem_gated_per_slot =>
         DOMAIN x.request.chunks \subseteq DOMAIN p.chunks[x.request.device]
  BY <1>1, <1>2, ZenonT(60) DEF Books, ChunksMatch, HoldersOf, RequestShape
<1> QED BY <1>11, <1>12, <1>13, <1>14, ZenonT(60) DEF deallocate_resources_CHECK


-----------------------------------------------------------------------------
(***************************************************************************)
(* A pool whose result memory is a resource of its own.                    *)
(***************************************************************************)
Users(p, h, t) == {c \in DOMAIN h : Share(p, h[c], "slots", t) > 0}

\* What is out of each resource, in a pool with its own result memory.
Committed(p, h) ==
  /\ \A t \in {"CPU_BUFFER_POOL_MEM", "GPU_BUFFER_POOL_MEM"} :
       get_allocated_resource_of_type(p, t) <= p.total[t]
  /\ \A t \in SlotTypes :
       p.allocated[t] > p.total[t] =>
         \/ p.policy[t].over = "ALLOW_CONCURRENT_REQUESTS"
         \/ \A a, b \in Users(p, h, t) : a = b

\* The accounts of such a pool.
LEMMA SeparateBooks ==
  ASSUME NEW p, NEW h, PoolInv(p, h), p.result = Separate
  PROVE  /\ \A t \in SlotTypes : /\ p.allocated[t] = Sum(p, h, "slots", t)
                                 /\ p.allocated[t] \in Nat /\ p.total[t] \in Nat
                                 /\ get_allocated_resource_of_type(p, t) = p.allocated[t]
         /\ p.allocated["PAGEABLE_CPU_BUFFER_POOL_MEM"] = Sum(p, h, "gated", "all")
         /\ Sum(p, h, "gated", "all") \in Nat
         /\ \A d \in Devices : /\ p.allocated[Pinned(d)] = Bytes(p.chunks[d])
                               /\ Bytes(p.chunks[d]) \in Nat /\ p.total[BufferPool(d)] \in Nat
         /\ get_allocated_resource_of_type(p, "CPU_BUFFER_POOL_MEM")
              = Bytes(p.chunks["CPU"]) + Sum(p, h, "gated", "all")
         /\ get_allocated_resource_of_type(p, "GPU_BUFFER_POOL_MEM") = Bytes(p.chunks["GPU"])
<1>1. LimitsType(p) /\ PoolType(p) /\ Books(p, h) /\ HeldType(h)
  BY DEF PoolInv, Books
<1>2. \A s \in Subtypes : p.allocated[s] = Sum(p, h, "slots", s) + Extra(p, h, s)
  BY <1>1, ZenonT(60) DEF Books
<1>3. \A kind, s : Sum(p, h, kind, s) \in Nat
  BY <1>1, SumShares, ZenonT(60)
<1>4. \A d \in Devices : Bytes(p.chunks[d]) \in Nat
  BY <1>1, BytesNat, ZenonT(60) DEF PoolType
<1>5. \A s \in {"PAGEABLE_CPU_BUFFER_POOL_MEM", "PINNED_CPU_BUFFER_POOL_MEM",
                "PINNED_GPU_BUFFER_POOL_MEM"} : Sum(p, h, "slots", s) = 0
  <2> SUFFICES ASSUME NEW s \in {"PAGEABLE_CPU_BUFFER_POOL_MEM", "PINNED_CPU_BUFFER_POOL_MEM",
                                 "PINNED_GPU_BUFFER_POOL_MEM"}
               PROVE  Sum(p, h, "slots", s) = 0
    OBVIOUS
  <2>1. \A c \in DOMAIN h : Share(p, h[c], "slots", s) = 0
    BY DEF Share, slots_and_result_mem, Separate
  <2> QED BY <1>1, <2>1, SumShares, ZenonT(60)
<1>6. \A t \in SlotTypes : p.allocated[t] = Sum(p, h, "slots", t) /\ p.allocated[t] \in Nat
  BY <1>2, <1>3 DEF Extra, SlotTypes, Subtypes
<1>7. p.total \in [Types -> Nat]
  BY <1>1 DEF LimitsType
<1>8. p.allocated["PAGEABLE_CPU_BUFFER_POOL_MEM"] = Sum(p, h, "gated", "all")
  BY ONLY <1>2, <1>3, <1>5, SMTT(60) DEF Extra, Subtypes
<1>9. \A d \in Devices : p.allocated[Pinned(d)] = Bytes(p.chunks[d])
  BY ONLY <1>2, <1>4, <1>5, SMTT(60) DEF Extra, Subtypes, Pinned, Devices
<1>10. \A t \in SlotTypes : p.total[t] \in Nat /\ get_allocated_resource_of_type(p, t) = p.allocated[t]
  BY <1>7 DEF SlotTypes, Types, get_allocated_resource_of_type
<1>11. \A d \in Devices : p.total[BufferPool(d)] \in Nat
  BY <1>7 DEF BufferPool, Types
<1>12. /\ get_allocated_resource_of_type(p, "CPU_BUFFER_POOL_MEM")
            = p.allocated[Pinned("CPU")] + p.allocated["PAGEABLE_CPU_BUFFER_POOL_MEM"]
       /\ get_allocated_resource_of_type(p, "GPU_BUFFER_POOL_MEM") = p.allocated[Pinned("GPU")]
  BY DEF get_allocated_resource_of_type, Pinned
<1>13. "CPU" \in Devices /\ "GPU" \in Devices
  BY DEF Devices
<1> QED BY <1>3, <1>4, <1>6, <1>8, <1>9, <1>10, <1>11, <1>12, <1>13, ZenonT(60)

\* Nothing is out where nobody is a user.
LEMMA NoUsers ==
  ASSUME NEW p, NEW h, HeldType(h), NEW t
  PROVE  /\ Users(p, h, t) = {} <=> Sum(p, h, "slots", t) = 0
         /\ Sum(p, h, "slots", t) \in Nat
<1>1. \A c \in DOMAIN h : Share(p, h[c], "slots", t) \in Nat
                            /\ Share(p, h[c], "slots", t) <= Sum(p, h, "slots", t)
  BY SumShares
<1>2. Sum(p, h, "slots", t) \in Nat
        /\ ((\A c \in DOMAIN h : Share(p, h[c], "slots", t) = 0) => Sum(p, h, "slots", t) = 0)
  BY SumShares
<1> QED BY <1>1, <1>2 DEF Users

\* Sharing depends on the limits only.
LEMMA SameShares ==
  ASSUME NEW p, NEW q, SameLimits(p, q)
  PROVE  \A x, kind, s : Share(q, x, kind, s) = Share(p, x, kind, s)
BY DEF SameLimits, Share, slots_and_result_mem, counted_types

\* A grant commits no more than there is, or than the policies allow.
LEMMA GrantedCommits ==
  ASSUME NEW p, NEW h, PoolInv(p, h), p.result = Separate, Committed(p, h),
         NEW c, NEW x, NEW q, NEW k, Granted(p, h, c, x, q, k)
  PROVE  Committed(q, k)
<1> DEFINE g == x.grant
           r == x.request
<1>1. LimitsType(p) /\ PoolType(p) /\ Books(p, h) /\ HeldType(h)
  BY DEF PoolInv, Books
<1>2. /\ RequestShape(r) /\ GrantType(g, r) /\ Added(h, k, c, x)
      /\ q = allocate_resources(p, g, r) /\ allocate_resources_CHECK(p, g, r)
  BY <1>1, GrantPromised, ZenonT(60)
<1>3. SameLimits(p, q) /\ PoolInv(q, k)
  BY GrantedKeeps
<1>4. q.result = Separate /\ q.total = p.total /\ q.policy = p.policy
  BY <1>3, ZenonT(60) DEF SameLimits
<1>5. /\ check_request_against_policy(p, "CPU_SLOTS", g.cpu_slots)
      /\ check_request_against_policy(p, "GPU_SLOTS", g.gpu_slots)
      /\ check_request_against_policy(p, "CPU_RESULT_MEM", g.cpu_result_mem)
      /\ can_currently_satisfy_chunk_request(p, g, r)
  BY <1>2 DEF allocate_resources_CHECK, can_currently_satisfy_request_impl,
              slots_and_result_mem_satisfiable, Separate
<1>6. /\ g.cpu_slots \in Nat /\ g.gpu_slots \in Nat /\ g.cpu_result_mem \in Nat
      /\ g.buffer_mem_gated_per_slot \in BOOLEAN /\ g.buffer_mem_for_given_slots \in Nat
      /\ g.buffer_mem_gated_per_slot => r.device = "CPU"
      /\ ~g.buffer_mem_gated_per_slot => g.buffer_mem_for_given_slots = 0
  BY <1>2, ZenonT(60) DEF GrantType
<1>7. \A t \in SlotTypes : /\ check_request_against_policy(p, t, Share(p, x, "slots", t))
                           /\ Share(p, x, "slots", t) \in Nat
  BY <1>5, <1>6 DEF SlotTypes, Share, slots_and_result_mem, Separate
<1>8. \A kind, s : Sum(q, k, kind, s) = Sum(p, h, kind, s) + Share(p, x, kind, s)
  BY <1>1, <1>2, <1>4, SumAdded
<1>9. ASSUME NEW t \in SlotTypes, q.allocated[t] > q.total[t],
             p.policy[t].over # "ALLOW_CONCURRENT_REQUESTS"
      PROVE  \A a, b \in Users(q, k, t) : a = b
  <2> DEFINE m == Share(p, x, "slots", t)
  <2>1. /\ p.allocated[t] = Sum(p, h, "slots", t) /\ p.allocated[t] \in Nat /\ p.total[t] \in Nat
        /\ get_allocated_resource_of_type(p, t) = p.allocated[t]
    BY SeparateBooks
  <2>2. q.allocated[t] = Sum(q, k, "slots", t)
    BY <1>3, <1>4, SeparateBooks, ZenonT(60)
  <2>3. q.allocated[t] = p.allocated[t] + m /\ m \in Nat
    BY <1>7, <1>8, <2>1, <2>2, ZenonT(60)
  <2>4. Users(q, k, t) = {b \in DOMAIN h : Share(p, h[b], "slots", t) > 0}
                           \cup (IF m > 0 THEN {c} ELSE {})
    <3>1. \A y : Share(q, y, "slots", t) = Share(p, y, "slots", t)
      BY <1>3, SameShares
    <3> QED BY ONLY <1>2, <3>1, SMTT(60) DEF Users, Added
  <2>5. Users(q, k, t) = Users(p, h, t) \cup (IF m > 0 THEN {c} ELSE {})
    BY <2>4, ZenonT(60) DEF Users
  <2>6. test_request_against_policy(p.policy[t].over, m, p.allocated[t], p.outstanding)
    <3>1. check_request_against_policy(p, t, m) /\ ~(m + p.allocated[t] <= p.total[t])
      <4> HIDE DEF m
      <4>1. q.allocated[t] > p.total[t]
        BY <1>4, <1>9, ZenonT(60)
      <4>2. ~(m + p.allocated[t] <= p.total[t])
        BY ONLY <2>1, <2>3, <4>1, SMTT(60)
      <4> QED BY <1>7, <4>2, ZenonT(60) DEF m
    <3> QED BY <2>1, <3>1, ZenonT(60) DEF check_request_against_policy
  <2>7. p.policy[t].over \in {"ALLOW_SINGLE_REQUEST", "ALLOW_SINGLE_REQUEST_GLOBALLY"}
    BY <1>1, <1>9 DEF LimitsType, OverPolicies, UnderPolicies, SlotTypes, Types, Separate
  <2>8. m = 0 \/ p.allocated[t] = 0 \/ p.outstanding = 0
    BY <2>6, <2>7, ZenonT(60) DEF test_request_against_policy
  <2> HIDE DEF m
  <2>9. CASE m = 0
    <3>1. p.allocated[t] > p.total[t] /\ Users(q, k, t) = Users(p, h, t)
      BY ONLY <1>4, <1>9, <2>1, <2>3, <2>5, <2>9, SMTT(60)
    <3> QED BY <1>9, <3>1, ZenonT(60) DEF Committed
  <2>10. CASE p.allocated[t] = 0
    BY <1>1, <2>1, <2>5, <2>10, NoUsers, ZenonT(60)
  <2>11. CASE p.outstanding = 0
    <3>1. DOMAIN h = {}
      BY <1>1, <2>11, FS_EmptySet, ZenonT(60) DEF Books, HeldType
    <3> QED BY <2>5, <3>1 DEF Users
  <2> QED BY <2>8, <2>9, <2>10, <2>11, ZenonT(60)
<1>10. \A t \in {"CPU_BUFFER_POOL_MEM", "GPU_BUFFER_POOL_MEM"} :
         get_allocated_resource_of_type(q, t) <= q.total[t]
  <2>1. /\ p.total["CPU_BUFFER_POOL_MEM"] \in Nat /\ p.total["GPU_BUFFER_POOL_MEM"] \in Nat
        /\ get_allocated_resource_of_type(p, "CPU_BUFFER_POOL_MEM") <= p.total["CPU_BUFFER_POOL_MEM"]
        /\ get_allocated_resource_of_type(p, "GPU_BUFFER_POOL_MEM") <= p.total["GPU_BUFFER_POOL_MEM"]
    BY SeparateBooks DEF Committed, Devices, BufferPool
  <2>2. BytesTaken(p, g, r, q)
    <3>1. PoolType(q)
      BY <1>3, ZenonT(60) DEF PoolInv
    <3> QED BY <1>1, <1>2, <3>1, GrantedBytes, ZenonT(60)
  <2>3. /\ r.device \in Devices
        /\ g.buffer_mem_gated_per_slot => g.cpu_slots * g.buffer_mem_per_slot = g.buffer_mem_for_given_slots
    BY <1>2, ZenonT(60) DEF RequestShape, Granted, dynamic_resource_grant_CHECK
  <2>4. IF g.buffer_mem_gated_per_slot
        THEN g.buffer_mem_for_given_slots + get_allocated_resource_of_type(p, "CPU_BUFFER_POOL_MEM")
               <= p.total["CPU_BUFFER_POOL_MEM"]
        ELSE get_chunk_bytes_not_in_pool(p, r) + get_allocated_resource_of_type(p, BufferPool(r.device))
               <= p.total[BufferPool(r.device)]
    BY <1>5, <1>6, <2>3, ZenonT(60) DEF can_currently_satisfy_chunk_request, BufferPool
  <2>5. /\ get_allocated_resource_of_type(p, "CPU_BUFFER_POOL_MEM")
             = Bytes(p.chunks["CPU"]) + Sum(p, h, "gated", "all")
        /\ get_allocated_resource_of_type(p, "GPU_BUFFER_POOL_MEM") = Bytes(p.chunks["GPU"])
        /\ Sum(p, h, "gated", "all") \in Nat
    BY SeparateBooks, ZenonT(60)
  <2>6. /\ get_allocated_resource_of_type(q, "CPU_BUFFER_POOL_MEM")
             = Bytes(q.chunks["CPU"]) + Sum(q, k, "gated", "all")
        /\ get_allocated_resource_of_type(q, "GPU_BUFFER_POOL_MEM") = Bytes(q.chunks["GPU"])
    BY <1>3, <1>4, SeparateBooks, ZenonT(60)
  <2>7. Sum(q, k, "gated", "all") = Sum(p, h, "gated", "all") + g.buffer_mem_for_given_slots
    BY <1>8, ZenonT(60) DEF Share
  <2> HIDE DEF g, r
  <2>8. CASE g.buffer_mem_gated_per_slot
    <3>1. Bytes(q.chunks["CPU"]) = Bytes(p.chunks["CPU"]) /\ Bytes(q.chunks["GPU"]) = Bytes(p.chunks["GPU"])
          /\ Bytes(p.chunks["CPU"]) \in Nat
      BY <2>2, <2>8, ZenonT(60) DEF BytesTaken, Devices
    <3> QED BY ONLY <1>4, <1>6, <2>1, <2>4, <2>5, <2>6, <2>7, <2>8, <3>1, SMTT(60)
  <2>9. CASE ~g.buffer_mem_gated_per_slot
    <3>1. /\ g.buffer_mem_for_given_slots = 0 /\ get_chunk_bytes_not_in_pool(p, r) \in Nat
          /\ Bytes(q.chunks[r.device]) = Bytes(p.chunks[r.device]) + get_chunk_bytes_not_in_pool(p, r)
          /\ \A d \in Devices : Bytes(p.chunks[d]) \in Nat
          /\ \A d \in Devices : d # r.device => Bytes(q.chunks[d]) = Bytes(p.chunks[d])
      BY <1>6, <2>2, <2>9, ZenonT(60) DEF BytesTaken
    <3>2. CASE r.device = "CPU"
      BY ONLY <1>4, <2>1, <2>4, <2>5, <2>6, <2>7, <2>9, <3>1, <3>2, SMTT(60) DEF Devices, BufferPool
    <3>3. CASE r.device = "GPU"
      BY ONLY <1>4, <2>1, <2>4, <2>5, <2>6, <2>7, <2>9, <3>1, <3>3, SMTT(60) DEF Devices, BufferPool
    <3> QED BY <2>3, <3>2, <3>3, ZenonT(60) DEF Devices
  <2> QED BY <2>8, <2>9, ZenonT(60)
<1> QED BY <1>4, <1>9, <1>10, ZenonT(60) DEF Committed

\* A return commits nothing more.
LEMMA ReturnedCommits ==
  ASSUME NEW p, NEW h, PoolInv(p, h), p.result = Separate, Committed(p, h),
         NEW c, NEW q, NEW k, Returned(p, h, c, q, k)
  PROVE  Committed(q, k)
<1> DEFINE x == h[c]
           g == x.grant
           r == x.request
<1>1. LimitsType(p) /\ PoolType(p) /\ Books(p, h) /\ HeldType(h)
  BY DEF PoolInv, Books
<1>2. Dropped(h, k, c) /\ q = deallocate_resources(p, g, r) /\ c \in DOMAIN h
  BY DEF Returned, Dropped
<1>3. SameLimits(p, q) /\ PoolInv(q, k)
  BY ReturnedKeeps
<1>4. q.result = Separate /\ q.total = p.total /\ q.policy = p.policy
  BY <1>3 DEF SameLimits
<1>5. RequestShape(r) /\ GrantType(g, r)
  BY <1>1, <1>2, ZenonT(60) DEF HeldType
<1>6. \A kind, s : /\ Sum(q, k, kind, s) = Sum(p, h, kind, s) - Share(p, x, kind, s)
                   /\ Sum(p, h, kind, s) \in Nat /\ Share(p, x, kind, s) \in Nat
  BY <1>1, <1>2, <1>4, SumDropped, SumShares
<1>7. ASSUME NEW t \in SlotTypes, q.allocated[t] > q.total[t],
             p.policy[t].over # "ALLOW_CONCURRENT_REQUESTS"
      PROVE  \A a, b \in Users(q, k, t) : a = b
  <2>1. p.allocated[t] = Sum(p, h, "slots", t) /\ p.allocated[t] \in Nat /\ p.total[t] \in Nat
    BY SeparateBooks
  <2>2. q.allocated[t] = Sum(q, k, "slots", t)
    BY <1>3, <1>4, SeparateBooks, ZenonT(60)
  <2>3. p.allocated[t] > p.total[t]
    BY ONLY <1>4, <1>6, <1>7, <2>1, <2>2, SMTT(60)
  <2>4. Users(q, k, t) \subseteq Users(p, h, t)
    <3>1. \A y : Share(q, y, "slots", t) = Share(p, y, "slots", t)
      BY <1>3, SameShares
    <3> QED BY <1>2, <3>1, ZenonT(60) DEF Users, Dropped
  <2> QED BY <1>7, <2>3, <2>4, ZenonT(60) DEF Committed
<1>8. \A t \in {"CPU_BUFFER_POOL_MEM", "GPU_BUFFER_POOL_MEM"} :
        get_allocated_resource_of_type(q, t) <= q.total[t]
  <2>1. \A d \in Devices : p.total[BufferPool(d)] \in Nat
    BY SeparateBooks
  <2>6. \A d \in Devices : /\ Bytes(p.chunks[d]) \in Nat /\ Bytes(q.chunks[d]) \in Nat
                           /\ Bytes(q.chunks[d]) <= Bytes(p.chunks[d])
    <3>1. PoolType(q)
      BY <1>3, ZenonT(60) DEF PoolInv
    <3> QED BY <1>1, <1>2, <1>5, <3>1, ReturnedBytes, ZenonT(60)
  <2>7. Sum(q, k, "gated", "all") <= Sum(p, h, "gated", "all") /\ Sum(q, k, "gated", "all") \in Int
        /\ Sum(p, h, "gated", "all") \in Nat
    BY <1>6
  <2>8. /\ get_allocated_resource_of_type(p, "CPU_BUFFER_POOL_MEM")
             = Bytes(p.chunks["CPU"]) + Sum(p, h, "gated", "all")
        /\ get_allocated_resource_of_type(p, "GPU_BUFFER_POOL_MEM") = Bytes(p.chunks["GPU"])
    BY SeparateBooks, ZenonT(60)
  <2>9. /\ get_allocated_resource_of_type(q, "CPU_BUFFER_POOL_MEM")
             = Bytes(q.chunks["CPU"]) + Sum(q, k, "gated", "all")
        /\ get_allocated_resource_of_type(q, "GPU_BUFFER_POOL_MEM") = Bytes(q.chunks["GPU"])
    BY <1>3, <1>4, SeparateBooks, ZenonT(60)
  <2>10. /\ get_allocated_resource_of_type(p, "CPU_BUFFER_POOL_MEM") <= p.total["CPU_BUFFER_POOL_MEM"]
         /\ get_allocated_resource_of_type(p, "GPU_BUFFER_POOL_MEM") <= p.total["GPU_BUFFER_POOL_MEM"]
    BY DEF Committed
  <2>11. /\ \A d \in {"CPU", "GPU"} : Bytes(q.chunks[d]) <= Bytes(p.chunks[d])
              /\ Bytes(q.chunks[d]) \in Nat /\ Bytes(p.chunks[d]) \in Nat
         /\ p.total["CPU_BUFFER_POOL_MEM"] \in Nat /\ p.total["GPU_BUFFER_POOL_MEM"] \in Nat
    BY <2>1, <2>6, ZenonT(60) DEF Devices, BufferPool
  <2>12. get_allocated_resource_of_type(q, "CPU_BUFFER_POOL_MEM") <= p.total["CPU_BUFFER_POOL_MEM"]
    BY ONLY <2>7, <2>8, <2>9, <2>10, <2>11, SMTT(60)
  <2>13. get_allocated_resource_of_type(q, "GPU_BUFFER_POOL_MEM") <= p.total["GPU_BUFFER_POOL_MEM"]
    BY ONLY <2>8, <2>9, <2>10, <2>11, SMTT(60)
  <2> QED BY <1>4, <2>12, <2>13, ZenonT(60)
<1> QED BY <1>4, <1>7, <1>8, ZenonT(60) DEF Committed

\* Nothing is out of a pool without outstanding requests.
LEMMA Idle ==
  ASSUME NEW p, NEW h, PoolInv(p, h), p.outstanding = 0
  PROVE  /\ DOMAIN h = {} /\ \A s \in Subtypes : p.allocated[s] = 0
         /\ \A d \in Devices : p.chunks[d] = <<>>
<1>1. LimitsType(p) /\ PoolType(p) /\ Books(p, h) /\ HeldType(h)
  BY DEF PoolInv, Books
<1>2. DOMAIN h = {}
  BY <1>1, FS_EmptySet, ZenonT(60) DEF Books, HeldType
<1>3. \A kind, s : Sum(p, h, kind, s) = 0
  BY <1>1, <1>2, SumShares, ZenonT(60)
<1>4. ASSUME NEW d \in Devices PROVE DOMAIN p.chunks[d] = {} /\ ChunksType(p.chunks[d])
  BY <1>1, <1>2 DEF Books, ChunksMatch, Refer, HoldersOf, PoolType
<1>5. \A d \in Devices : Bytes(p.chunks[d]) = 0
  BY <1>4, BytesNat, ZenonT(60)
<1>6. \A s \in Subtypes : p.allocated[s] = 0
  BY ONLY <1>1, <1>3, <1>5, SMTT(60) DEF Books, Extra, Devices
<1>7. ASSUME NEW d \in Devices PROVE p.chunks[d] = <<>>
  <2>1. p.chunks[d] \in [{} -> [refs : Int, size : Nat]]
    BY <1>4, ZenonT(60) DEF ChunksType
  <2> QED BY <2>1
<1> QED BY <1>2, <1>6, <1>7, ZenonT(60)


\* On an idle pool an accepted request can be granted.
LEMMA ServableWhenIdle ==
  ASSUME NEW p, NEW h, PoolInv(p, h), Nested(p), p.outstanding = 0,
         NEW r, RequestType(r), Accepted(p, r),
         NEW e, e = calc_min_max_resource_grants_for_request(p, r)
  PROVE  /\ can_currently_satisfy_request_CHECK(p, e.min, r)
         /\ can_currently_satisfy_request_impl(p, e.min, r)
<1> DEFINE gated == e.min.buffer_mem_gated_per_slot
           needed == IF gated THEN e.min.cpu_slots * e.min.buffer_mem_per_slot ELSE total_bytes(r)
<1>1. LimitsType(p) /\ PoolType(p)
  BY DEF PoolInv
<1>2. BoundsOf(p, r, e)
  BY <1>1, Bounds, ZenonT(60)
<1>3. /\ DOMAIN h = {} /\ \A s \in Subtypes : p.allocated[s] = 0
      /\ \A d \in Devices : p.chunks[d] = <<>>
  BY Idle, ZenonT(60)
<1>4. \A t \in Types : get_allocated_resource_of_type(p, t) = 0 /\ p.total[t] \in Nat
  BY <1>1, <1>3 DEF Types, Subtypes, get_allocated_resource_of_type, LimitsType
<1>5. /\ gated \in BOOLEAN /\ e.min.cpu_slots = r.min_cpu_slots
      /\ gated <=> (total_bytes(r) > max_resource_grant_per_request(p, Pinned(r.device)))
      /\ gated => r.device = "CPU" /\ e.min.buffer_mem_per_slot = r.max_bytes_per_kernel
  BY <1>2, ZenonT(60) DEF BoundsOf
<1>6. needed \in Nat /\ needed <= p.total[BufferPool(r.device)]
  <2>1. CASE gated
    <3>1. /\ r.device = "CPU" /\ r.max_bytes_per_kernel \in Nat
          /\ r.max_bytes_per_kernel <= p.total["CPU_BUFFER_POOL_MEM"]
      BY <1>1, <1>5, <2>1, GateFits, ZenonT(60)
    <3>2. needed = 1 * r.max_bytes_per_kernel
      BY <1>5, <2>1, <3>1, ZenonT(60) DEF RequestType
    <3> QED BY <3>1, <3>2 DEF BufferPool
  <2>2. CASE ~gated
    BY <1>1, <1>5, <2>2, UngatedFits, ZenonT(60)
  <2> QED BY <1>5, <2>1, <2>2, ZenonT(60)
<1>7. ASSUME NEW t \in {"CPU_SLOTS", "GPU_SLOTS", p.result.type}
      PROVE  /\ check_request_against_global_policy(p, t)
             /\ \A m \in Nat : check_request_against_policy(p, t, m)
  <2>1. t \in Types
    BY <1>1 DEF LimitsType, Types, Separate, Pooled
  <2>2. get_allocated_resource_of_type(p, t) = 0 /\ p.total[t] \in Nat
    BY <1>4, <2>1, ZenonT(60)
  <2>3. p.policy[t].under \in UnderPolicies /\ p.policy[t].over \in UnderPolicies
    BY <1>1, <2>1 DEF LimitsType, OverPolicies
  <2>4. \A m \in Nat, policy \in UnderPolicies : test_request_against_policy(policy, m, 0, 0)
    BY ZenonT(60) DEF test_request_against_policy, UnderPolicies
  <2>5. 0 <= p.total[t]
    BY ONLY <2>2, SMTT(60)
  <2>6. check_request_against_global_policy(p, t)
    BY <2>2, <2>5, ZenonT(60) DEF check_request_against_global_policy
  <2>7. \A m \in Nat : check_request_against_policy(p, t, m)
    BY <2>2, <2>3, <2>4, ZenonT(60) DEF check_request_against_policy
  <2> QED BY <2>6, <2>7
<1>8. e.min.cpu_slots \in Nat /\ e.min.gpu_slots \in Nat /\ e.min.cpu_result_mem \in Nat
  BY <1>2 DEF BoundsOf, RequestType
<1>9. slots_and_result_mem_satisfiable(p, e.min)
  BY <1>7, <1>8, ZenonT(60) DEF slots_and_result_mem_satisfiable
<1>10. can_currently_satisfy_request_CHECK(p, e.min, r)
  BY <1>6 DEF can_currently_satisfy_request_CHECK
<1>11. get_chunk_bytes_not_in_pool(p, r) = total_bytes(r)
  <2> DEFINE f == [c \in DOMAIN r.chunks |->
                    IF c \notin DOMAIN p.chunks[r.device] THEN r.chunks[c]
                    ELSE Greatest(r.chunks[c] - p.chunks[r.device][c].size, 0)]
  <2>1. get_chunk_bytes_not_in_pool(p, r) = SumFunction(f)
    BY ZenonT(60) DEF get_chunk_bytes_not_in_pool
  <2>2. DOMAIN p.chunks[r.device] = {}
    BY <1>3 DEF RequestType
  <2>3. DOMAIN f = DOMAIN r.chunks /\ \A c \in DOMAIN r.chunks : f[c] = r.chunks[c]
    BY <2>2, ZenonT(60)
  <2> HIDE DEF f
  <2>4. SumFunctionOnSet(f, DOMAIN r.chunks) = SumFunctionOnSet(r.chunks, DOMAIN r.chunks)
    BY <2>3, SumSame, ZenonT(60) DEF RequestType
  <2> QED BY <2>1, <2>3, <2>4, ZenonT(60) DEF total_bytes, SumFunction
<1>12. can_currently_satisfy_chunk_request(p, e.min, r)
  <2>1. get_allocated_resource_of_type(p, BufferPool(r.device)) = 0
        /\ p.total[BufferPool(r.device)] \in Nat
    BY <1>4 DEF BufferPool, Types
  <2> HIDE DEF gated
  <2>2. (IF gated THEN e.min.cpu_slots * e.min.buffer_mem_per_slot
         ELSE get_chunk_bytes_not_in_pool(p, r)) = needed
    BY <1>11, ZenonT(60)
  <2> HIDE DEF needed
  <2>3. needed + 0 <= p.total[BufferPool(r.device)]
    BY <1>6, <2>1
  <2> QED BY <2>1, <2>2, <2>3, ZenonT(60) DEF can_currently_satisfy_chunk_request, gated
<1> QED BY <1>9, <1>10, <1>12, ZenonT(60) DEF can_currently_satisfy_request_impl

\* The turn of a request that is not gated, and the books k with what it is to be granted.
UngatedTurn(p, h, r, e, g, c, x, k) ==
  /\ PoolInv(p, h) /\ p.result = Separate /\ Committed(p, h)
  /\ RequestType(r) /\ Accepted(p, r) /\ e = calc_min_max_resource_grants_for_request(p, r)
  /\ ~(total_bytes(r) > max_resource_grant_per_request(p, Pinned(r.device)))
  /\ can_currently_satisfy_request_impl(p, e.min, r)
  /\ g = determine_dynamic_resource_grant(p, e.min, e.max, r)
  /\ x.request = r /\ x.grant = g /\ Added(h, k, c, x)

\* A request that is not gated, and can be satisfied with the least it needs, can be with
\* what is determined for it: no CHECK fails when it is granted.
LEMMA UngatedPassesChecks ==
  ASSUME NEW p, NEW h, NEW r, NEW e, NEW g, NEW c, NEW x, NEW k,
         UngatedTurn(p, h, r, e, g, c, x, k)
  PROVE  failed_CHECK(p, e, g, r) = "none"
<1>0. RequestType(r) /\ p.result = Separate
  BY DEF UngatedTurn
<1>1. LimitsType(p) /\ PoolType(p)
  BY DEF UngatedTurn, PoolInv
<1>2. BoundsOf(p, r, e)
  BY <1>1, Bounds, ZenonT(60) DEF UngatedTurn
<1>3. ~e.min.buffer_mem_gated_per_slot
  BY <1>2, ZenonT(60) DEF BoundsOf, UngatedTurn
<1>4. ~g.buffer_mem_gated_per_slot
  BY <1>3, GatingKept DEF UngatedTurn
<1>5. dynamic_resource_grant_CHECK(e.min, e.max, g)
  BY <1>4 DEF dynamic_resource_grant_CHECK
<1>6. GrantOf(p, r, e, g)
  BY <1>1, <1>5, Determined, ZenonT(60) DEF UngatedTurn
<1>7. /\ g.cpu_slots \in Nat /\ g.gpu_slots = r.gpu_slots /\ g.cpu_result_mem = r.cpu_result_mem
      /\ g.cpu_slots \in e.min.cpu_slots .. e.max.cpu_slots
      /\ \/ g.cpu_slots = e.min.cpu_slots
         \/ g.cpu_slots + p.allocated["CPU_SLOTS"] <= p.total["CPU_SLOTS"]
  BY <1>4, <1>6, ZenonT(60) DEF GrantOf, GrantType
<1>8. /\ e.min.cpu_slots = r.min_cpu_slots /\ e.min.gpu_slots = r.gpu_slots
      /\ e.min.cpu_result_mem = r.cpu_result_mem
      /\ e.max.cpu_slots \in Nat /\ e.max.cpu_slots <= r.cpu_slots
      /\ e.max.cpu_slots <= max_resource_grant_per_request(p, "CPU_SLOTS")
      /\ r.gpu_slots <= max_resource_grant_per_request(p, "GPU_SLOTS")
      /\ r.cpu_result_mem <= max_resource_grant_per_request(p, p.result.subtype)
  BY <1>0, <1>2, <1>3, ZenonT(60) DEF BoundsOf, RequestType
<1>9. /\ max_resource_grant_per_request(p, "CPU_SLOTS") \in Nat
      /\ max_resource_grant_per_request(p, "GPU_SLOTS") \in Nat
      /\ max_resource_grant_per_request(p, p.result.subtype) \in Nat
  BY <1>0, <1>1, LimitsNat, ZenonT(60)
<1>10. r.cpu_slots \in Nat /\ r.gpu_slots \in Nat /\ r.cpu_result_mem \in Nat
       /\ r.min_cpu_slots \in Nat /\ (r.min_cpu_slots = 0 => r.cpu_slots = 0)
  BY <1>0 DEF RequestType, Devices
<1>11. exceeds_max_grant(p, g) = "none"
  BY ONLY <1>7, <1>8, <1>9, <1>10, SMTT(60) DEF exceeds_max_grant
<1>12. slots_and_result_mem_satisfiable(p, e.min) /\ can_currently_satisfy_chunk_request(p, e.min, r)
  BY DEF can_currently_satisfy_request_impl, UngatedTurn
<1>13. check_request_against_policy(p, "CPU_SLOTS", g.cpu_slots)
  <2>1. check_request_against_policy(p, "CPU_SLOTS", e.min.cpu_slots)
    BY <1>0, <1>12, ZenonT(60) DEF slots_and_result_mem_satisfiable
  <2>2. CASE g.cpu_slots = e.min.cpu_slots
    BY <2>1, <2>2, ZenonT(60)
  <2>3. CASE g.cpu_slots # e.min.cpu_slots
    <3>1. e.min.cpu_slots # 0 /\ g.cpu_slots + p.allocated["CPU_SLOTS"] <= p.total["CPU_SLOTS"]
      BY <1>7, <1>8, <1>10, <2>3
    <3>2. test_request_against_policy(p.policy["CPU_SLOTS"].under, e.min.cpu_slots,
                                      p.allocated["CPU_SLOTS"], p.outstanding)
      BY <2>1, ZenonT(60) DEF check_request_against_policy, get_allocated_resource_of_type
    <3>3. p.policy["CPU_SLOTS"].under \in UnderPolicies
      BY <1>1 DEF LimitsType, Types
    <3>4. test_request_against_policy(p.policy["CPU_SLOTS"].under, g.cpu_slots,
                                      p.allocated["CPU_SLOTS"], p.outstanding)
      BY <3>1, <3>2, <3>3, ZenonT(60) DEF test_request_against_policy, UnderPolicies
    <3> QED BY <3>1, <3>4, ZenonT(60) DEF check_request_against_policy, get_allocated_resource_of_type
  <2> QED BY <2>2, <2>3, ZenonT(60)
<1>14. slots_and_result_mem_satisfiable(p, g)
  BY <1>7, <1>8, <1>12, <1>13, ZenonT(60) DEF slots_and_result_mem_satisfiable
<1>15. can_currently_satisfy_chunk_request(p, g, r)
  BY <1>3, <1>4, <1>12, ZenonT(60) DEF can_currently_satisfy_chunk_request
<1>16. allocate_resources_CHECK(p, g, r)
  BY <1>11, <1>14, <1>15, ZenonT(60) DEF allocate_resources_CHECK, can_currently_satisfy_request_impl
<1>17. add_chunk_requests_CHECK(p, g, r)
  <2> DEFINE q == allocate_resources(p, g, r)
  <2> HIDE DEF q
  <2>1. Granted(p, h, c, x, q, k)
    BY <1>5, <1>16, ZenonT(60) DEF Granted, q, UngatedTurn
  <2>2. Committed(q, k) /\ PoolInv(q, k) /\ q.result = Separate
    BY <2>1, GrantedCommits, GrantedKeeps, ZenonT(60) DEF SameLimits, UngatedTurn
  <2>3. /\ \A d \in Devices : q.allocated[Pinned(d)] = Bytes(q.chunks[d])
                                /\ Bytes(q.chunks[d]) \in Nat /\ q.total[BufferPool(d)] \in Nat
        /\ get_allocated_resource_of_type(q, "CPU_BUFFER_POOL_MEM")
             = Bytes(q.chunks["CPU"]) + Sum(q, k, "gated", "all")
        /\ get_allocated_resource_of_type(q, "GPU_BUFFER_POOL_MEM") = Bytes(q.chunks["GPU"])
        /\ Sum(q, k, "gated", "all") \in Nat
    BY <2>2, SeparateBooks, ZenonT(60)
  <2>4. /\ get_allocated_resource_of_type(q, "CPU_BUFFER_POOL_MEM") <= q.total["CPU_BUFFER_POOL_MEM"]
        /\ get_allocated_resource_of_type(q, "GPU_BUFFER_POOL_MEM") <= q.total["GPU_BUFFER_POOL_MEM"]
    BY <2>2, ZenonT(60) DEF Committed
  <2>5. \A d \in Devices : q.allocated[Pinned(d)] <= q.total[BufferPool(d)]
    BY <2>3, <2>4 DEF Devices, BufferPool
  <2>6. q.allocated[Pinned(r.device)] <= q.total[BufferPool(r.device)]
    BY <1>0, <2>5, ZenonT(60) DEF RequestType
  <2> QED BY <1>4, <2>6, ZenonT(60) DEF add_chunk_requests_CHECK, q
<1> QED BY <1>5, <1>16, <1>17, ZenonT(60) DEF failed_CHECK

\* The requests counted for slots and result memory are at least the holders.
LEMMA CountsCover ==
  ASSUME NEW p, NEW h, PoolInv(p, h), p.result = Separate
  PROVE  /\ Cardinality(DOMAIN h) <= Sum(p, h, "count", "CPU_SLOTS") + Sum(p, h, "count", "GPU_SLOTS")
                                       + Sum(p, h, "count", "CPU_RESULT_MEM")
         /\ \A t \in SlotTypes : /\ Sum(p, h, "count", t) <= Sum(p, h, "slots", t)
                                 /\ Sum(p, h, "count", t) > 0 <=> Sum(p, h, "slots", t) > 0
<1> DEFINE N(t) == Shares(p, h, "count", t)
           a == [c \in DOMAIN h |-> N("CPU_SLOTS")[c] + N("GPU_SLOTS")[c]]
           b == [c \in DOMAIN h |-> a[c] + N("CPU_RESULT_MEM")[c]]
<1>1. HeldType(h) /\ IsFiniteSet(DOMAIN h)
  BY DEF PoolInv, Books, HeldType
<1>2. \A t : \A c \in DOMAIN h : N(t)[c] = Share(p, h[c], "count", t) /\ N(t)[c] \in Nat
  BY <1>1, SumShares DEF Shares
<1>3. \A t : Sum(p, h, "count", t) = SumFunctionOnSet(N(t), DOMAIN h)
  BY DEF Sum, SumFunction, Shares
<1>4. ASSUME NEW c \in DOMAIN h, NEW t \in SlotTypes
      PROVE  /\ Share(p, h[c], "count", t) <= Share(p, h[c], "slots", t)
             /\ Share(p, h[c], "slots", t) > 0 => Share(p, h[c], "count", t) > 0
             /\ Share(p, h[c], "count", t) = IF Share(p, h[c], "slots", t) > 0 THEN 1 ELSE 0
  <2>1. GrantType(h[c].grant, h[c].request)
    BY <1>1 DEF HeldType
  <2>2. /\ h[c].grant.cpu_slots \in Nat /\ h[c].grant.gpu_slots \in Nat
        /\ h[c].grant.cpu_result_mem \in Nat
    BY <2>1 DEF GrantType
  <2>3. Share(p, h[c], "slots", t) = slots_and_result_mem(p, h[c].grant, t)
    BY DEF Share
  <2>4. Share(p, h[c], "count", t) = IF t \in counted_types(p, h[c].grant) THEN 1 ELSE 0
    <3>1. t # BufferPool(h[c].request.device)
      BY ZenonT(60) DEF SlotTypes, BufferPool
    <3> QED BY <3>1 DEF Share
  <2>5. t \in counted_types(p, h[c].grant) <=> slots_and_result_mem(p, h[c].grant, t) > 0
    BY <2>2 DEF SlotTypes, counted_types, slots_and_result_mem, Separate
  <2>6. slots_and_result_mem(p, h[c].grant, t) \in Nat
    BY <2>2 DEF slots_and_result_mem
  <2> QED BY ONLY <2>3, <2>4, <2>5, <2>6, SMTT(60)
<1>5. ASSUME NEW t \in SlotTypes
      PROVE  /\ Sum(p, h, "count", t) <= Sum(p, h, "slots", t)
             /\ Sum(p, h, "count", t) > 0 <=> Sum(p, h, "slots", t) > 0
  <2>1. \A kind : /\ Sum(p, h, kind, t) \in Nat
                  /\ \A c \in DOMAIN h : Share(p, h[c], kind, t) \in Nat
                                           /\ Share(p, h[c], kind, t) <= Sum(p, h, kind, t)
                  /\ (\A c \in DOMAIN h : Share(p, h[c], kind, t) = 0) => Sum(p, h, kind, t) = 0
    BY <1>1, SumShares, ZenonT(60)
  <2>0. \A c \in DOMAIN h : /\ Share(p, h[c], "slots", t) \in Nat /\ Share(p, h[c], "count", t) \in Nat
                            /\ Share(p, h[c], "count", t) <= Share(p, h[c], "slots", t)
                            /\ Share(p, h[c], "slots", t) > 0 => Share(p, h[c], "count", t) > 0
    <3>1. \A c \in DOMAIN h : Share(p, h[c], "slots", t) \in Nat /\ Share(p, h[c], "count", t) \in Nat
      BY <2>1, ZenonT(60)
    <3> QED BY <1>4, <3>1, ZenonT(60)
  <2>2. Sum(p, h, "count", t) <= Sum(p, h, "slots", t)
    <3> DEFINE u == Shares(p, h, "slots", t)
               v == Shares(p, h, "count", t)
    <3>1. \A c \in DOMAIN h : v[c] \in Int /\ u[c] \in Int /\ v[c] <= u[c]
      BY <2>0 DEF Shares
    <3>2. Sum(p, h, "slots", t) = SumFunctionOnSet(u, DOMAIN h)
          /\ Sum(p, h, "count", t) = SumFunctionOnSet(v, DOMAIN h)
      BY DEF Sum, SumFunction, Shares
    <3> HIDE DEF u, v
    <3> QED BY <1>1, <3>1, <3>2, SumMonotonic, ZenonT(60)
  <2>3. ASSUME Sum(p, h, "slots", t) > 0 PROVE Sum(p, h, "count", t) > 0
    <3>1. PICK c \in DOMAIN h : Share(p, h[c], "slots", t) # 0
      BY <2>1, <2>3
    <3>2. Share(p, h[c], "count", t) > 0
      BY ONLY <2>0, <3>1, SMTT(60)
    <3> QED BY <2>1, <3>2
  <2> QED BY <2>1, <2>2, <2>3
<1>6. \A c \in DOMAIN h : N("CPU_SLOTS")[c] + N("GPU_SLOTS")[c] >= 1
  <2> SUFFICES ASSUME NEW c \in DOMAIN h PROVE N("CPU_SLOTS")[c] + N("GPU_SLOTS")[c] >= 1
    BY ZenonT(60)
  <2>1. h[c].grant.cpu_slots > 0 \/ h[c].grant.gpu_slots > 0
    BY DEF PoolInv, Promised
  <2>2. GrantType(h[c].grant, h[c].request)
    BY <1>1 DEF HeldType
  <2>3. Share(p, h[c], "slots", "CPU_SLOTS") > 0 \/ Share(p, h[c], "slots", "GPU_SLOTS") > 0
    BY <2>1, <2>2 DEF Share, slots_and_result_mem, GrantType, Separate
  <2>4. Share(p, h[c], "count", "CPU_SLOTS") > 0 \/ Share(p, h[c], "count", "GPU_SLOTS") > 0
    BY <1>4, <2>3, ZenonT(60) DEF SlotTypes
  <2> QED BY <1>2, <2>4
<1> HIDE DEF N
<1>7. /\ \A c \in DOMAIN h : a[c] = N("CPU_SLOTS")[c] + N("GPU_SLOTS")[c] /\ a[c] \in Int
      /\ \A c \in DOMAIN h : b[c] = a[c] + N("CPU_RESULT_MEM")[c] /\ b[c] \in Int /\ b[c] >= 1
  BY ONLY <1>2, <1>6, SMTT(60)
<1> HIDE DEF a, b
<1>8. SumFunctionOnSet(a, DOMAIN h)
        = SumFunctionOnSet(N("CPU_SLOTS"), DOMAIN h) + SumFunctionOnSet(N("GPU_SLOTS"), DOMAIN h)
  <2>1. \A c \in DOMAIN h : /\ N("CPU_SLOTS")[c] \in Int /\ N("GPU_SLOTS")[c] \in Int
                            /\ a[c] = N("CPU_SLOTS")[c] + N("GPU_SLOTS")[c]
    BY <1>2, <1>7, NatsAreInts, ZenonT(60)
  <2> QED BY ONLY <1>1, <2>1, SumPlus, ZenonT(60)
<1>9. SumFunctionOnSet(b, DOMAIN h)
        = SumFunctionOnSet(a, DOMAIN h) + SumFunctionOnSet(N("CPU_RESULT_MEM"), DOMAIN h)
  <2>1. \A c \in DOMAIN h : /\ a[c] \in Int /\ N("CPU_RESULT_MEM")[c] \in Int
                            /\ b[c] = a[c] + N("CPU_RESULT_MEM")[c]
    BY <1>2, <1>7, NatsAreInts, ZenonT(60)
  <2> QED BY ONLY <1>1, <2>1, SumPlus, ZenonT(60)
<1>10. Cardinality(DOMAIN h) <= SumFunctionOnSet(b, DOMAIN h)
  BY <1>1, <1>7, SumAtLeast, ZenonT(60)
<1>11. Cardinality(DOMAIN h) <= Sum(p, h, "count", "CPU_SLOTS") + Sum(p, h, "count", "GPU_SLOTS")
                                 + Sum(p, h, "count", "CPU_RESULT_MEM")
  BY ONLY <1>3, <1>8, <1>9, <1>10, SMTT(60)
<1> QED BY <1>5, <1>11, ZenonT(60)

\* No holder asks for a chunk without bytes.
PositiveChunks(h) ==
  \A c \in DOMAIN h : \A m \in DOMAIN h[c].request.chunks : h[c].request.chunks[m] > 0

\* A request is counted for a buffer pool exactly while there is memory of it out.
LEMMA BufferCounts ==
  ASSUME NEW p, NEW h, PoolInv(p, h), p.result = Separate, PositiveChunks(h), NEW d \in Devices
  PROVE  /\ Sum(p, h, "count", BufferPool(d)) > 0
              <=> get_allocated_resource_of_type(p, BufferPool(d)) > 0
<1> DEFINE Holder(c) == h[c].request.device = d /\ counts_buffer_pool(h[c].grant, h[c].request)
           n == Sum(p, h, "count", BufferPool(d))
           out == get_allocated_resource_of_type(p, BufferPool(d))
<1>1. PoolType(p) /\ Books(p, h) /\ HeldType(h)
  BY DEF PoolInv, Books
<1>2. \A c \in DOMAIN h : RequestShape(h[c].request) /\ GrantType(h[c].grant, h[c].request)
  BY <1>1, ZenonT(60) DEF HeldType
<1>3. \A c \in DOMAIN h : h[c].request.device \in Devices
  BY <1>2, ZenonT(60) DEF RequestShape
<1>4. /\ n \in Nat
      /\ \A c \in DOMAIN h : Share(p, h[c], "count", BufferPool(d)) \in Nat
                               /\ Share(p, h[c], "count", BufferPool(d)) <= n
      /\ (\A c \in DOMAIN h : Share(p, h[c], "count", BufferPool(d)) = 0) => n = 0
  BY <1>1, SumShares, ZenonT(60)
<1>5. \A c \in DOMAIN h : Share(p, h[c], "count", BufferPool(d)) = IF Holder(c) THEN 1 ELSE 0
  <2> SUFFICES ASSUME NEW c \in DOMAIN h
               PROVE  Share(p, h[c], "count", BufferPool(d)) = IF Holder(c) THEN 1 ELSE 0
    OBVIOUS
  <2>1. BufferPool(d) \notin counted_types(p, h[c].grant)
    BY DEF BufferPool, counted_types, Separate
  <2>2. BufferPool(d) = BufferPool(h[c].request.device) <=> h[c].request.device = d
    BY <1>3 DEF BufferPool, Devices
  <2> QED BY ONLY <2>1, <2>2, SMTT(60) DEF Share
<1> HIDE DEF n
<1>6. n > 0 <=> \E c \in DOMAIN h : Holder(c)
  <2> HIDE DEF Holder
  <2>1. ASSUME n > 0 PROVE \E c \in DOMAIN h : Holder(c)
    BY ONLY <1>4, <1>5, <2>1, SMTT(60)
  <2>2. ASSUME NEW c \in DOMAIN h, Holder(c) PROVE n > 0
    <3>1. Share(p, h[c], "count", BufferPool(d)) = 1
      BY <1>5, <2>2, ZenonT(60)
    <3> QED BY <1>4, <3>1
  <2> QED BY <2>1, <2>2, ZenonT(60)
<1>7. ChunksType(p.chunks[d]) /\ ChunksMatch(p.chunks[d], h, d)
  BY <1>1 DEF PoolType, Books
<1>8. /\ Bytes(p.chunks[d]) \in Nat
      /\ \A m \in DOMAIN p.chunks[d] : p.chunks[d][m].size <= Bytes(p.chunks[d])
                                         /\ p.chunks[d][m].size \in Nat
      /\ DOMAIN p.chunks[d] = {} => Bytes(p.chunks[d]) = 0
  BY <1>7, BytesNat, ZenonT(60) DEF ChunksType
<1>9. /\ Sum(p, h, "gated", "all") \in Nat
      /\ \A c \in DOMAIN h : h[c].grant.buffer_mem_for_given_slots \in Nat
                               /\ h[c].grant.buffer_mem_for_given_slots <= Sum(p, h, "gated", "all")
      /\ (\A c \in DOMAIN h : h[c].grant.buffer_mem_for_given_slots = 0)
           => Sum(p, h, "gated", "all") = 0
  <2>1. \A c \in DOMAIN h : Share(p, h[c], "gated", "all") = h[c].grant.buffer_mem_for_given_slots
    BY DEF Share
  <2>2. /\ Sum(p, h, "gated", "all") \in Nat
        /\ \A c \in DOMAIN h : Share(p, h[c], "gated", "all") \in Nat
                               /\ Share(p, h[c], "gated", "all") <= Sum(p, h, "gated", "all")
        /\ (\A c \in DOMAIN h : Share(p, h[c], "gated", "all") = 0) => Sum(p, h, "gated", "all") = 0
    BY <1>1, SumShares, ZenonT(60)
  <2> QED BY <2>1, <2>2, ZenonT(60)
<1>10. out = Bytes(p.chunks[d]) + (IF d = "CPU" THEN Sum(p, h, "gated", "all") ELSE 0)
  BY <1>8, SeparateBooks DEF BufferPool, Devices
<1>11. \A c \in DOMAIN h :
         /\ h[c].grant.buffer_mem_gated_per_slot \in BOOLEAN
         /\ h[c].grant.buffer_mem_gated_per_slot =>
              h[c].request.device = "CPU" /\ h[c].grant.buffer_mem_for_given_slots > 0
         /\ ~h[c].grant.buffer_mem_gated_per_slot => h[c].grant.buffer_mem_for_given_slots = 0
  BY <1>2, ZenonT(60) DEF GrantType, PoolInv, Promised
<1>12. \A c \in DOMAIN h :
         /\ total_bytes(h[c].request) \in Nat
         /\ \A m \in DOMAIN h[c].request.chunks : h[c].request.chunks[m] \in Nat
                                 /\ h[c].request.chunks[m] <= total_bytes(h[c].request)
         /\ (\A m \in DOMAIN h[c].request.chunks : h[c].request.chunks[m] = 0)
              => total_bytes(h[c].request) = 0
  BY <1>2, SumNat, ZenonT(60) DEF RequestShape, total_bytes, SumFunction
<1> HIDE DEF out
<1>13. ASSUME NEW c \in DOMAIN h, Holder(c) PROVE out > 0
  <2>1. CASE h[c].grant.buffer_mem_gated_per_slot
    <3>1. d = "CPU" /\ Sum(p, h, "gated", "all") > 0
      <4>1. /\ d = "CPU" /\ h[c].grant.buffer_mem_for_given_slots > 0
            /\ h[c].grant.buffer_mem_for_given_slots \in Nat
            /\ h[c].grant.buffer_mem_for_given_slots <= Sum(p, h, "gated", "all")
        BY <1>9, <1>11, <1>13, <2>1, ZenonT(60)
      <4> QED BY <1>9, <4>1, Compare, ZenonT(60)
    <3> QED BY <1>8, <1>9, <1>10, <3>1, PositiveSum, ZenonT(60)
  <2>2. CASE ~h[c].grant.buffer_mem_gated_per_slot
    <3>1. total_bytes(h[c].request) > 0 /\ h[c].request.device = d
      BY <1>13, <2>2, ZenonT(60) DEF counts_buffer_pool
    <3>2. PICK m \in DOMAIN h[c].request.chunks : h[c].request.chunks[m] # 0
      BY <1>12, <3>1
    <3>3. c \in HoldersOf(h, d)
      BY <2>2, <3>1, ZenonT(60) DEF HoldersOf
    <3>4. m \in DOMAIN p.chunks[d] /\ c \in Refer(h, d, m)
      BY <1>7, <3>2, <3>3, ZenonT(60) DEF ChunksMatch, Refer
    <3>5. h[c].request.chunks[m] <= p.chunks[d][m].size
      BY <1>7, <3>4, ZenonT(60) DEF ChunksMatch
    <3>6. Bytes(p.chunks[d]) > 0
      <4>1. /\ h[c].request.chunks[m] \in Nat /\ h[c].request.chunks[m] # 0
            /\ p.chunks[d][m].size \in Nat /\ p.chunks[d][m].size <= Bytes(p.chunks[d])
            /\ h[c].request.chunks[m] <= p.chunks[d][m].size
            /\ Bytes(p.chunks[d]) \in Nat
        BY <1>8, <1>12, <1>13, <3>2, <3>4, <3>5, ZenonT(60)
      <4>2. p.chunks[d][m].size # 0
        BY ONLY <4>1, Compare, ZenonT(60)
      <4> QED BY ONLY <4>1, <4>2, Compare, ZenonT(60)
    <3> QED
      <4>1. CASE d = "CPU"
        BY <1>8, <1>9, <1>10, <3>6, <4>1, PositiveSum, ZenonT(60)
      <4>2. CASE d # "CPU"
        BY <1>8, <1>10, <3>6, <4>2, PositiveSum, ZenonT(60)
      <4> QED BY <4>1, <4>2
  <2> QED BY <1>11, <2>1, <2>2, ZenonT(60)
<1>14. ASSUME out > 0 PROVE \E c \in DOMAIN h : Holder(c)
  <2>1. Bytes(p.chunks[d]) # 0 \/ (d = "CPU" /\ Sum(p, h, "gated", "all") # 0)
    <3>1. CASE d = "CPU"
      BY <1>8, <1>9, <1>10, <1>14, <3>1, PositiveSum, ZenonT(60)
    <3>2. CASE d # "CPU"
      BY <1>8, <1>10, <1>14, <3>2, PositiveSum, Compare, ZenonT(60)
    <3> QED BY <3>1, <3>2
  <2>2. CASE d = "CPU" /\ Sum(p, h, "gated", "all") # 0
    <3>1. PICK c \in DOMAIN h : h[c].grant.buffer_mem_for_given_slots # 0
      BY <1>9, <2>2, ZenonT(60)
    <3>2. h[c].grant.buffer_mem_gated_per_slot /\ h[c].request.device = "CPU"
      BY <1>11, <3>1, ZenonT(60)
    <3> QED BY <2>2, <3>2, ZenonT(60) DEF counts_buffer_pool
  <2>3. CASE Bytes(p.chunks[d]) # 0
    <3>1. PICK m : m \in DOMAIN p.chunks[d]
      BY <1>8, <2>3, ZenonT(60)
    <3>2. PICK c : c \in Refer(h, d, m)
      BY <1>7, <3>1, ZenonT(60) DEF ChunksMatch
    <3>3. c \in DOMAIN h /\ h[c].request.device = d /\ m \in DOMAIN h[c].request.chunks
      BY <3>2 DEF Refer, HoldersOf
    <3>4. h[c].request.chunks[m] > 0
      BY <3>3, ZenonT(60) DEF PositiveChunks
    <3>5. DOMAIN h[c].request.chunks # {} /\ total_bytes(h[c].request) > 0
      <4>1. /\ total_bytes(h[c].request) \in Nat /\ h[c].request.chunks[m] \in Nat
            /\ h[c].request.chunks[m] <= total_bytes(h[c].request)
        BY <1>12, <3>3, ZenonT(60)
      <4>2. total_bytes(h[c].request) > 0
        BY <3>4, <4>1, Compare, ZenonT(60)
      <4> QED BY <3>3, <4>2, ZenonT(60)
    <3> QED BY <3>3, <3>5, ZenonT(60) DEF counts_buffer_pool
  <2> QED BY <2>1, <2>2, <2>3, ZenonT(60)
<1> QED BY <1>6, <1>13, <1>14, ZenonT(60) DEF n, out

\* What is allocated and what is outstanding agree.
LEMMA Sane ==
  ASSUME NEW p, NEW h, PoolInv(p, h), p.result = Separate, PositiveChunks(h)
  PROVE  sanity_check_requests_against_allocations(p)
<1> DEFINE slotTypes == {"CPU_SLOTS", "GPU_SLOTS", p.result.type}
           sum == SumFunctionOnSet(p.outstandingBy, slotTypes)
<1>1. PoolType(p) /\ Books(p, h) /\ HeldType(h)
  BY ZenonT(60) DEF PoolInv, Books
<1>2. slotTypes = {"CPU_SLOTS", "GPU_SLOTS", "CPU_RESULT_MEM"} /\ slotTypes = SlotTypes
  BY DEF Separate, SlotTypes
<1>3. \A t \in Types : p.outstandingBy[t] = Sum(p, h, "count", t) /\ p.outstandingBy[t] \in Nat
  BY <1>1, SumShares DEF Books
<1>4. {"CPU_SLOTS", "GPU_SLOTS", "CPU_RESULT_MEM", "CPU_BUFFER_POOL_MEM",
       "GPU_BUFFER_POOL_MEM"} = Types
  BY ZenonT(60) DEF Types
<1>5. sum = Sum(p, h, "count", "CPU_SLOTS") + Sum(p, h, "count", "GPU_SLOTS")
              + Sum(p, h, "count", "CPU_RESULT_MEM")
  <2> DEFINE by == p.outstandingBy
  <2>1. \A t \in SlotTypes : by[t] \in Int
    BY <1>3, <1>4 DEF SlotTypes
  <2>2. /\ by["CPU_SLOTS"] = Sum(p, h, "count", "CPU_SLOTS")
        /\ by["GPU_SLOTS"] = Sum(p, h, "count", "GPU_SLOTS")
        /\ by["CPU_RESULT_MEM"] = Sum(p, h, "count", "CPU_RESULT_MEM")
    BY <1>3, <1>4
  <2> HIDE DEF by, slotTypes
  <2>3. SumFunctionOnSet(by, slotTypes) = by["CPU_SLOTS"] + by["GPU_SLOTS"] + by["CPU_RESULT_MEM"]
    BY <1>2, <2>1, SumSlotTypes, ZenonT(60)
  <2> QED BY <2>2, <2>3, ZenonT(60) DEF by
<1>6. /\ p.outstanding = Cardinality(DOMAIN h) /\ p.outstanding \in Nat
      /\ p.outstanding <= Sum(p, h, "count", "CPU_SLOTS") + Sum(p, h, "count", "GPU_SLOTS")
                            + Sum(p, h, "count", "CPU_RESULT_MEM")
  <2>1. p.outstanding = Cardinality(DOMAIN h) /\ IsFiniteSet(DOMAIN h)
    BY <1>1 DEF Books, HeldType
  <2> QED BY <2>1, CountsCover, FS_CardinalityType, ZenonT(60)
<1>7. \A t : Sum(p, h, "count", t) \in Nat /\ (DOMAIN h = {} => Sum(p, h, "count", t) = 0)
  BY <1>1, SumShares, ZenonT(60)
<1>8. p.outstanding = 0 => DOMAIN h = {} /\ \A d \in Devices : p.chunks[d] = <<>>
  BY Idle, ZenonT(60)
<1>9. \A t \in SlotTypes : p.outstandingBy[t] <= get_allocated_resource_of_type(p, t)
                             /\ ((p.outstandingBy[t] > 0) <=> (get_allocated_resource_of_type(p, t) > 0))
  <2>1. \A t \in SlotTypes : get_allocated_resource_of_type(p, t) = Sum(p, h, "slots", t)
    BY SeparateBooks, ZenonT(60)
  <2>2. \A t \in SlotTypes : p.outstandingBy[t] = Sum(p, h, "count", t)
    BY <1>3, <1>4, ZenonT(60) DEF SlotTypes
  <2>3. \A t \in SlotTypes : /\ Sum(p, h, "count", t) <= Sum(p, h, "slots", t)
                             /\ Sum(p, h, "count", t) > 0 <=> Sum(p, h, "slots", t) > 0
    BY CountsCover, ZenonT(60)
  <2> QED BY <2>1, <2>2, <2>3, ZenonT(60)
<1>10. \A t \in {"CPU_BUFFER_POOL_MEM", "GPU_BUFFER_POOL_MEM"} :
         (p.outstandingBy[t] > 0) <=> (get_allocated_resource_of_type(p, t) > 0)
  <2>1. \A d \in Devices : Sum(p, h, "count", BufferPool(d)) > 0
                             <=> get_allocated_resource_of_type(p, BufferPool(d)) > 0
    BY BufferCounts, ZenonT(60)
  <2>2. BufferPool("CPU") = "CPU_BUFFER_POOL_MEM" /\ BufferPool("GPU") = "GPU_BUFFER_POOL_MEM"
        /\ "CPU" \in Devices /\ "GPU" \in Devices
    BY ZenonT(60) DEF BufferPool, Devices
  <2> QED BY <1>3, <1>4, <2>1, <2>2, ZenonT(60)
<1> HIDE DEF sum
<1>11. p.outstanding <= sum /\ ((sum > 0) <=> (p.outstanding > 0))
  BY ONLY <1>5, <1>6, <1>7, <1>8, SMTT(60)
<1>12. \A t \in slotTypes \cup {"CPU_BUFFER_POOL_MEM", "GPU_BUFFER_POOL_MEM"} :
         (p.outstandingBy[t] > 0) <=> (get_allocated_resource_of_type(p, t) > 0)
  BY <1>2, <1>9, <1>10, ZenonT(60)
<1>13. \A t \in slotTypes : p.outstandingBy[t] <= get_allocated_resource_of_type(p, t)
  BY <1>2, <1>9, ZenonT(60)
<1> HIDE DEF slotTypes
<1> QED BY ONLY <1>8, <1>11, <1>12, <1>13, SMTT(60) DEF sanity_check_requests_against_allocations, sum, slotTypes

-----------------------------------------------------------------------------
(***************************************************************************)
(* The pool by itself.                                                     *)
(***************************************************************************)
\* Result memory is a resource of its own in every configuration.
SeparateResults == \A c \in Configs : ~c.use_cpu_mem_pool_for_output_buffers
\* The limits for one request are nested in every configuration.
NestedLimits == \A c \in Configs : Nested(generate_executor_resource_mgr(c))
\* Every chunk a request names has bytes.
ChunksHaveBytes == \A r \in Requests : \A m \in DOMAIN r.chunks : r.chunks[m] > 0
\* No request for the CPU needs more than one may have pinned.
NoneGated ==
  \A c \in Configs, r \in Requests :
    r.device = "CPU" =>
      total_bytes(r) <= max_resource_grant_per_request(generate_executor_resource_mgr(c),
                                                       "PINNED_CPU_BUFFER_POOL_MEM")

\* The inductive invariant: the limits are those of a configuration, and the books balance.
IInv ==
  /\ \E c \in Configs : SameLimits(generate_executor_resource_mgr(c), pool)
  /\ PoolInv(pool, held)
  /\ \A c \in DOMAIN held : held[c].request \in Requests

\* A step of the pool: a grant, a return, or a CHECK that fails and leaves it as it is.
LEMMA PoolSteps ==
  ASSUME IInv, [PoolNext]_poolVars
  PROVE  \/ pool' = pool /\ held' = held
         \/ \E c, x : x.request \in Requests /\ Granted(pool, held, c, x, pool', held')
         \/ \E c : Returned(pool, held, c, pool', held')
<1>1. ASSUME NEW c \in Clients, NEW r \in Requests, GrantTo(c, r)
      PROVE  \/ pool' = pool /\ held' = held
             \/ \E b, x : x.request \in Requests /\ Granted(pool, held, b, x, pool', held')
  <2> DEFINE e == calc_min_max_resource_grants_for_request(pool, r)
             g == determine_dynamic_resource_grant(pool, e.min, e.max, r)
             failed == failed_CHECK(pool, e, g, r)
             x == [request |-> r, grant |-> g]
  <2>1. /\ c \notin DOMAIN held /\ e.error = "none" /\ exceeds_max_grant(pool, e.min) = "none"
        /\ IF failed = "none"
           THEN pool' = allocate_resources(pool, g, r) /\ held' = [d \in DOMAIN held \cup {c} |-> IF d = c THEN x ELSE held[d]]
           ELSE pool' = pool /\ held' = held
    BY <1>1, Zenon DEF GrantTo
  <2>2. CASE failed # "none"
    BY <2>1, <2>2, ZenonT(60)
  <2>3. CASE failed = "none"
    <3>1. pool' = allocate_resources(pool, g, r) /\ held' = [d \in DOMAIN held \cup {c} |-> IF d = c THEN x ELSE held[d]]
      BY <2>1, <2>3, ZenonT(60)
    <3>2. dynamic_resource_grant_CHECK(e.min, e.max, g) /\ allocate_resources_CHECK(pool, g, r)
      <4> HIDE DEF e, g
      <4> QED BY <2>3, ZenonT(60) DEF failed_CHECK
    <3>3. Accepted(pool, r) /\ RequestType(r)
      BY <2>1, RequestsAssumption, ZenonT(60) DEF Accepted
    <3>4. x.request = r /\ x.grant = g
      BY ZenonT(60)
    <3>5. Added(held, held', c, x)
      <4> HIDE DEF x
      <4> QED BY <2>1, <3>1 DEF Added
    <3> HIDE DEF x
    <3>6. Granted(pool, held, c, x, pool', held')
      BY <3>1, <3>2, <3>3, <3>4, <3>5, Zenon DEF Granted
    <3> QED BY <3>4, <3>6, ZenonT(60)
  <2> QED BY <2>2, <2>3, ZenonT(60)
<1>2. ASSUME NEW c \in Clients, Return(c)
      PROVE  \/ pool' = pool /\ held' = held
             \/ Returned(pool, held, c, pool', held')
  <2>1. CASE deallocate_resources_CHECK(pool, held[c].grant, held[c].request)
    <3>1. /\ c \in DOMAIN held
          /\ pool' = deallocate_resources(pool, held[c].grant, held[c].request)
          /\ held' = [d \in DOMAIN held \ {c} |-> held[d]]
      BY <1>2, <2>1, Zenon DEF Return
    <3>2. Dropped(held, held', c)
      BY <3>1 DEF Dropped
    <3> QED BY <3>1, <3>2, ZenonT(60) DEF Returned
  <2>2. CASE ~deallocate_resources_CHECK(pool, held[c].grant, held[c].request)
    BY <1>2, <2>2, Zenon DEF Return
  <2> QED BY <2>1, <2>2, ZenonT(60)
<1>3. CASE UNCHANGED poolVars
  BY <1>3 DEF poolVars
<1> QED BY <1>1, <1>2, <1>3, ZenonT(60) DEF PoolNext

\* The pool keeps its invariant.
LEMMA InvInit ==
  ASSUME PoolInit
  PROVE  IInv /\ (SeparateResults => pool.result = Separate /\ Committed(pool, held))
<1>1. PICK c \in Configs : pool = generate_executor_resource_mgr(c)
  BY DEF PoolInit
<1>2. DOMAIN held = {}
  BY DEF PoolInit
<1>3. PoolInv(pool, held) /\ (pool.result = Separate <=> ~c.use_cpu_mem_pool_for_output_buffers)
  BY <1>1, <1>2, NewInv, ZenonT(60)
<1>4. SameLimits(generate_executor_resource_mgr(c), pool)
  BY <1>1 DEF SameLimits
<1>5. IInv
  BY <1>2, <1>3, <1>4, ZenonT(60) DEF IInv
<1>6. ASSUME SeparateResults PROVE pool.result = Separate /\ Committed(pool, held)
  <2>1. pool.result = Separate
    BY <1>3, <1>6, ZenonT(60) DEF SeparateResults
  <2>2. \A s \in Subtypes : pool.allocated[s] = 0
    <3>1. pool.allocated = [s \in Subtypes |-> 0]
      BY <1>1, NewPool, ZenonT(60)
    <3> QED BY <3>1
  <2>3. \A t \in Types : get_allocated_resource_of_type(pool, t) = 0 /\ pool.total[t] \in Nat
    BY <1>3, <2>2 DEF get_allocated_resource_of_type, Types, Subtypes, PoolInv, LimitsType
  <2>4. \A t \in SlotTypes : pool.allocated[t] = 0 /\ pool.total[t] \in Nat
    BY <2>2, <2>3, ZenonT(60) DEF SlotTypes, Types, Subtypes
  <2> QED BY ONLY <2>1, <2>3, <2>4, SMTT(60) DEF Committed, Types
<1> QED BY <1>5, <1>6, ZenonT(60)

\* Every step of the pool keeps the invariant and, where results have memory of their
\* own, what is committed.
LEMMA InvNext ==
  ASSUME IInv, [PoolNext]_poolVars
  PROVE  /\ IInv'
         /\ pool.result = Separate /\ Committed(pool, held) =>
              pool'.result = Separate /\ Committed(pool', held')
<1>1. PoolInv(pool, held)
  BY DEF IInv
<1>2. CASE pool' = pool /\ held' = held
  BY <1>2 DEF IInv
<1>3. ASSUME NEW c, NEW x, x.request \in Requests, Granted(pool, held, c, x, pool', held')
      PROVE  /\ IInv'
             /\ pool.result = Separate /\ Committed(pool, held) =>
                  pool'.result = Separate /\ Committed(pool', held')
  <2>1. SameLimits(pool, pool') /\ PoolInv(pool', held')
    BY <1>1, <1>3, GrantedKeeps, ZenonT(60)
  <2>2. Added(held, held', c, x)
    BY <1>3, ZenonT(60) DEF Granted
  <2>3. IInv'
    BY <1>3, <2>1, <2>2, ZenonT(60) DEF IInv, Added, SameLimits
  <2>4. pool.result = Separate /\ Committed(pool, held) => Committed(pool', held')
    BY <1>1, <1>3, GrantedCommits, ZenonT(60)
  <2> QED BY <2>1, <2>3, <2>4, ZenonT(60) DEF SameLimits
<1>4. ASSUME NEW c, Returned(pool, held, c, pool', held')
      PROVE  /\ IInv'
             /\ pool.result = Separate /\ Committed(pool, held) =>
                  pool'.result = Separate /\ Committed(pool', held')
  <2>1. SameLimits(pool, pool') /\ PoolInv(pool', held')
    BY <1>1, <1>4, ReturnedKeeps, ZenonT(60)
  <2>2. Dropped(held, held', c)
    BY <1>4, ZenonT(60) DEF Returned
  <2>3. IInv'
    BY <2>1, <2>2, ZenonT(60) DEF IInv, Dropped, SameLimits
  <2>4. pool.result = Separate /\ Committed(pool, held) => Committed(pool', held')
    BY <1>1, <1>4, ReturnedCommits, ZenonT(60)
  <2> QED BY <2>1, <2>3, <2>4, ZenonT(60) DEF SameLimits
<1> QED BY <1>2, <1>3, <1>4, PoolSteps, ZenonT(60)

\* The invariant holds in every state.
LEMMA Invariant ==
  PoolSpec => []IInv
<1>1. PoolInit => IInv
  BY InvInit, ZenonT(60)
<1>2. IInv /\ [PoolNext]_poolVars => IInv'
  BY InvNext
<1> QED BY <1>1, <1>2, PTL DEF PoolSpec

\* Where results have memory of their own, both are invariant.
LEMMA SeparateInvariant ==
  ASSUME SeparateResults
  PROVE  PoolSpec => [](IInv /\ pool.result = Separate /\ Committed(pool, held))
<1> DEFINE J == IInv /\ pool.result = Separate /\ Committed(pool, held)
<1>1. PoolInit => J
  BY InvInit, ZenonT(60)
<1>2. J /\ [PoolNext]_poolVars => J'
  BY InvNext
<1> QED BY <1>1, <1>2, PTL DEF PoolSpec

\* The books of the pool agree with the grants that are out, whatever the configuration
\* and the requests (allocate_resources, deallocate_resources).
THEOREM BooksBalance ==
  PoolSpec => []PoolMatchesGrants
<1>1. IInv => PoolMatchesGrants
  <2> SUFFICES ASSUME IInv PROVE PoolMatchesGrants
    OBVIOUS
  <2>1. PoolType(pool) /\ Books(pool, held) /\ HeldType(held)
    BY ZenonT(60) DEF IInv, PoolInv, Books
  <2>2. \A s : SumFunction([c \in DOMAIN held |-> slots_and_result_mem(pool, held[c].grant, s)])
                 = Sum(pool, held, "slots", s)
    <3> SUFFICES ASSUME NEW s
                 PROVE  SumFunction([c \in DOMAIN held |->
                                       slots_and_result_mem(pool, held[c].grant, s)])
                          = Sum(pool, held, "slots", s)
      OBVIOUS
    <3>1. [c \in DOMAIN held |-> slots_and_result_mem(pool, held[c].grant, s)]
            = Shares(pool, held, "slots", s)
      BY DEF Shares, Share
    <3> QED BY <3>1, ZenonT(60) DEF Sum
  <2>3. SumFunction([c \in DOMAIN held |-> held[c].grant.buffer_mem_for_given_slots])
          = Sum(pool, held, "gated", "all")
    <3>1. [c \in DOMAIN held |-> held[c].grant.buffer_mem_for_given_slots]
            = Shares(pool, held, "gated", "all")
      BY DEF Shares, Share
    <3> QED BY <3>1, ZenonT(60) DEF Sum
  <2>4. \A kind, s : Sum(pool, held, kind, s) \in Nat
    BY <2>1, SumShares, ZenonT(60)
  <2>5. \A s \in Subtypes : pool.allocated[s] = Sum(pool, held, "slots", s) + Extra(pool, held, s)
    BY <2>1, ZenonT(60) DEF Books
  <2>6. \A d \in Devices : pool.allocated[Pinned(d)] = Sum(pool, held, "slots", Pinned(d))
                                                         + Bytes(pool.chunks[d])
    BY <2>5 DEF Extra, Pinned, Devices, Subtypes
  <2>7. \A s \in {"CPU_SLOTS", "GPU_SLOTS", "CPU_RESULT_MEM"} :
          pool.allocated[s] = Sum(pool, held, "slots", s)
    BY <2>4, <2>5 DEF Extra, Subtypes
  <2>8. pool.allocated["PAGEABLE_CPU_BUFFER_POOL_MEM"] = Sum(pool, held, "gated", "all")
    <3>1. pool.result \in {Separate, Pooled}
      BY DEF IInv, PoolInv, LimitsType
    <3>2. \A c \in DOMAIN held : Share(pool, held[c], "slots", "PAGEABLE_CPU_BUFFER_POOL_MEM") = 0
      BY <3>1 DEF Share, slots_and_result_mem, Separate, Pooled
    <3>3. Sum(pool, held, "slots", "PAGEABLE_CPU_BUFFER_POOL_MEM") = 0
      BY <2>1, <3>2, SumShares, ZenonT(60)
    <3>4. Extra(pool, held, "PAGEABLE_CPU_BUFFER_POOL_MEM") = Sum(pool, held, "gated", "all")
      BY ONLY SMTT(60) DEF Extra
    <3>5. "PAGEABLE_CPU_BUFFER_POOL_MEM" \in Subtypes
      BY ZenonT(60) DEF Subtypes
    <3>6. /\ pool.allocated["PAGEABLE_CPU_BUFFER_POOL_MEM"] = 0 + Sum(pool, held, "gated", "all")
          /\ Sum(pool, held, "gated", "all") \in Nat
      BY ONLY <2>4, <2>5, <3>3, <3>4, <3>5, ZenonT(60)
    <3> QED BY ONLY <3>6, PositiveSum, ZenonT(60)
  <2>9. ASSUME NEW d \in Devices
        PROVE  /\ \A k \in DOMAIN pool.chunks[d] :
                    /\ pool.chunks[d][k].refs
                         = Cardinality({c \in Holders(d) : k \in DOMAIN held[c].request.chunks})
                    /\ \A c \in Holders(d) : k \in DOMAIN held[c].request.chunks =>
                         held[c].request.chunks[k] <= pool.chunks[d][k].size
               /\ DOMAIN pool.chunks[d] = UNION {DOMAIN held[c].request.chunks : c \in Holders(d)}
    <3>1. ChunksMatch(pool.chunks[d], held, d)
      BY <2>1, ZenonT(60) DEF Books
    <3>2. Holders(d) = HoldersOf(held, d)
      BY DEF Holders, HoldersOf
    <3>3. \A k : {c \in Holders(d) : k \in DOMAIN held[c].request.chunks} = Refer(held, d, k)
      BY <3>2, ZenonT(60) DEF Refer
    <3>4. \A k \in DOMAIN pool.chunks[d] :
            /\ Refer(held, d, k) # {}
            /\ pool.chunks[d][k].refs = Cardinality(Refer(held, d, k))
            /\ \A c \in Refer(held, d, k) : held[c].request.chunks[k] <= pool.chunks[d][k].size
      BY <3>1, ZenonT(60) DEF ChunksMatch
    <3>5. \A c \in Holders(d) : DOMAIN held[c].request.chunks \subseteq DOMAIN pool.chunks[d]
      BY <3>1, <3>2, ZenonT(60) DEF ChunksMatch
    <3>6. \A k, c : c \in Refer(held, d, k) <=> c \in Holders(d) /\ k \in DOMAIN held[c].request.chunks
      BY <3>2 DEF Refer
    <3>7. DOMAIN pool.chunks[d] = UNION {DOMAIN held[c].request.chunks : c \in Holders(d)}
      BY <3>4, <3>5, <3>6, ZenonT(60)
    <3> QED BY <3>3, <3>4, <3>6, <3>7, ZenonT(60)
  <2>10. pool.outstanding = Cardinality(DOMAIN held)
    BY <2>1, ZenonT(60) DEF Books
  <2> QED BY <2>2, <2>3, <2>6, <2>7, <2>8, <2>9, <2>10, Zenon DEF PoolMatchesGrants
<1> QED BY <1>1, Invariant, PTL

\* A grant lies between the least and the most its request was promised, whatever else is
\* out (determine_dynamic_resource_grant).
THEOREM GrantsAsPromised ==
  PoolSpec => []GrantsWithinBounds
<1>1. IInv => GrantsWithinBounds
  BY Zenon DEF IInv, PoolInv, Promised, GrantsWithinBounds
<1> QED BY <1>1, Invariant, PTL

\* A request for slots that are to be used alone in the system is the only one that holds
\* anything (ALLOW_SINGLE_REQUEST_GLOBALLY in test_request_against_policy).
THEOREM ExclusiveRequests ==
  PoolSpec => []RunsAlone
<1>1. IInv => RunsAlone
  <2> SUFFICES ASSUME IInv, NEW t \in {"CPU_SLOTS", "GPU_SLOTS"},
                      pool.policy[t].under = "ALLOW_SINGLE_REQUEST_GLOBALLY", DOMAIN held # {}
               PROVE  Cardinality(DOMAIN held) = 1
    BY DEF RunsAlone
  <2>1. /\ pool.outstanding <= 1 /\ pool.outstanding = Cardinality(DOMAIN held)
        /\ IsFiniteSet(DOMAIN held)
    BY ZenonT(60) DEF IInv, PoolInv, Alone, Books, HeldType
  <2>2. Cardinality(DOMAIN held) \in Nat /\ Cardinality(DOMAIN held) # 0
    BY <2>1, FS_CardinalityType, FS_EmptySet, ZenonT(60)
  <2> QED BY ONLY <2>1, <2>2, SMTT(60)
<1> QED BY <1>1, Invariant, PTL

\* With result memory of its own, the pool is never overcommitted: the buffer pools at all,
\* slots and result memory otherwise than the policies allow
\* (can_currently_satisfy_request_impl, determine_dynamic_resource_grant).
THEOREM PoolNotOvercommitted ==
  ASSUME SeparateResults
  PROVE  PoolSpec => []NeverOvercommitted
<1>1. IInv /\ pool.result = Separate /\ Committed(pool, held) => NeverOvercommitted
  <2> SUFFICES ASSUME IInv, pool.result = Separate, Committed(pool, held) PROVE NeverOvercommitted
    OBVIOUS
  <2>1. PoolInv(pool, held) /\ HeldType(held)
    BY ZenonT(60) DEF IInv, PoolInv, Books
  <2>2. \A t \in SlotTypes : /\ pool.allocated[t] = Sum(pool, held, "slots", t)
                             /\ pool.allocated[t] \in Nat /\ pool.total[t] \in Nat
                             /\ get_allocated_resource_of_type(pool, t) = pool.allocated[t]
    BY <2>1, SeparateBooks, ZenonT(60)
  <2>3. \A d \in Devices : /\ get_allocated_resource_of_type(pool, BufferPool(d)) \in Int
                           /\ pool.total[BufferPool(d)] \in Nat
    <3>1. PoolType(pool) /\ LimitsType(pool)
      BY <2>1, ZenonT(60) DEF PoolInv
    <3>2. \A d \in Devices : BufferPool(d) \in Types
      BY ZenonT(60) DEF BufferPool, Types
    <3> QED BY <3>1, <3>2, AllocatedInt, ZenonT(60) DEF LimitsType
  <2>4. \A d \in Devices : ~(get_allocated_resource_of_type(pool, BufferPool(d))
                               > pool.total[BufferPool(d)])
    BY <2>3 DEF Committed, BufferPool
  <2>5. ASSUME NEW t \in SlotTypes, pool.allocated[t] > pool.total[t],
               pool.policy[t].over # "ALLOW_CONCURRENT_REQUESTS"
        PROVE  Cardinality({c \in DOMAIN held : t \in counted_types(pool, held[c].grant)}) = 1
    <3>1. Users(pool, held, t) = {c \in DOMAIN held : t \in counted_types(pool, held[c].grant)}
      <4>1. ASSUME NEW c \in DOMAIN held
            PROVE  Share(pool, held[c], "slots", t) > 0 <=> t \in counted_types(pool, held[c].grant)
        <5>1. /\ held[c].grant.cpu_slots \in Nat /\ held[c].grant.gpu_slots \in Nat
              /\ held[c].grant.cpu_result_mem \in Nat
          BY <2>1, ZenonT(60) DEF HeldType, GrantType
        <5> QED BY <5>1 DEF Share, slots_and_result_mem, counted_types, Separate, SlotTypes
      <4> QED BY <4>1 DEF Users
    <3>2. Users(pool, held, t) # {}
      BY ONLY <2>1, <2>2, <2>5, NoUsers, SMTT(60)
    <3>3. PICK c \in Users(pool, held, t) : TRUE
      BY <3>2, ZenonT(60)
    <3>4. Users(pool, held, t) = {c}
      BY <2>5, <3>3 DEF Committed
    <3> QED BY <3>1, <3>4, FS_Singleton, ZenonT(60)
  <2>6. \A t \in SlotTypes :
          get_allocated_resource_of_type(pool, t) > pool.total[t] =>
            \/ pool.policy[t].over = "ALLOW_CONCURRENT_REQUESTS"
            \/ Cardinality({c \in DOMAIN held : t \in counted_types(pool, held[c].grant)}) = 1
    BY <2>2, <2>5
  <2> QED BY <2>4, <2>6, Zenon DEF NeverOvercommitted, SlotTypes
<1> QED BY <1>1, SeparateInvariant, PTL

\* With nested limits, a request that is accepted can be granted on an idle pool: it does
\* not wait for ever (calc_min_max_resource_grants_for_request).
THEOREM AcceptedRequestsFit ==
  ASSUME NestedLimits
  PROVE  PoolSpec => []AcceptedIsServable
<1>1. IInv => AcceptedIsServable
  <2> SUFFICES ASSUME IInv, pool.outstanding = 0, NEW r \in Requests, Accepted(pool, r),
                      NEW e, e = calc_min_max_resource_grants_for_request(pool, r)
               PROVE  /\ can_currently_satisfy_request_CHECK(pool, e.min, r)
                      /\ can_currently_satisfy_request_impl(pool, e.min, r)
    BY Zenon DEF AcceptedIsServable, Accepted
  <2>1. PICK c \in Configs : SameLimits(generate_executor_resource_mgr(c), pool)
    BY DEF IInv
  <2>2. Nested(generate_executor_resource_mgr(c))
    BY DEF NestedLimits
  <2>3. Nested(pool)
    <3> DEFINE p == generate_executor_resource_mgr(c)
    <3> HIDE DEF p
    <3>1. SameLimits(p, pool) /\ Nested(p)
      BY <2>1, <2>2, ZenonT(60) DEF p
    <3>2. \A s : max_resource_grant_per_request(pool, s) = max_resource_grant_per_request(p, s)
      BY <3>1 DEF SameLimits, max_resource_grant_per_request
    <3> QED BY <3>1, <3>2, ZenonT(60) DEF Nested, SameLimits
  <2>4. PoolInv(pool, held) /\ RequestType(r)
    BY RequestsAssumption DEF IInv
  <2> QED BY <2>3, <2>4, ServableWhenIdle, ZenonT(60)
<1> QED BY <1>1, Invariant, PTL

\* With result memory of its own and chunks that have bytes, the sanity check would pass
\* in every state (sanity_check_requests_against_allocations).
THEOREM AllocationsAreSane ==
  ASSUME SeparateResults, ChunksHaveBytes
  PROVE  PoolSpec => []SanityCheckHolds
<1>1. IInv /\ pool.result = Separate /\ Committed(pool, held) => SanityCheckHolds
  BY Sane DEF IInv, SanityCheckHolds, PositiveChunks, ChunksHaveBytes
<1> QED BY <1>1, SeparateInvariant, PTL

\* With result memory of its own, and no request gated per slot, no CHECK of the pool
\* fails: what is determined for a request that can be satisfied can be allocated, and
\* returned (allocate_resources, add_chunk_requests_to_allocated_pool,
\* deallocate_resources).
THEOREM PoolPassesChecks ==
  ASSUME SeparateResults, NoneGated
  PROVE  PoolSpec => []ChecksHold
<1> DEFINE J == IInv /\ pool.result = Separate /\ Committed(pool, held)
<1>1. PoolInit => ChecksHold
  BY DEF PoolInit, ChecksHold
<1>2. J /\ ChecksHold /\ [PoolNext]_poolVars => ChecksHold'
  <2> SUFFICES ASSUME J, ChecksHold, [PoolNext]_poolVars PROVE ChecksHold'
    OBVIOUS
  <2>1. PoolInv(pool, held) /\ LimitsType(pool)
    BY DEF IInv, PoolInv
  <2>2. ASSUME NEW c \in Clients, NEW r \in Requests, GrantTo(c, r) PROVE aborted' = "none"
    <3> DEFINE e == calc_min_max_resource_grants_for_request(pool, r)
               g == determine_dynamic_resource_grant(pool, e.min, e.max, r)
               x == [request |-> r, grant |-> g]
               k == [d \in DOMAIN held \cup {c} |-> IF d = c THEN x ELSE held[d]]
    <3>1. /\ c \notin DOMAIN held /\ e.error = "none" /\ exceeds_max_grant(pool, e.min) = "none"
          /\ can_currently_satisfy_request_impl(pool, e.min, r)
          /\ aborted' = failed_CHECK(pool, e, g, r)
      BY <2>2, Zenon DEF GrantTo
    <3>2. Accepted(pool, r) /\ RequestType(r)
      BY <3>1, RequestsAssumption, ZenonT(60) DEF Accepted
    <3>3. x.request = r /\ x.grant = g
      BY ZenonT(60)
    <3>4. Added(held, k, c, x)
      <4> HIDE DEF x
      <4> QED BY <3>1, ZenonT(60) DEF Added
    <3> HIDE DEF e, g, x, k
    <3>5. BoundsOf(pool, r, e)
      BY <2>1, <3>2, Bounds, ZenonT(60) DEF e
    <3>6. ~(total_bytes(r) > max_resource_grant_per_request(pool, Pinned(r.device)))
      <4>1. PICK b \in Configs : SameLimits(generate_executor_resource_mgr(b), pool)
        BY ZenonT(60) DEF IInv
      <4>2. max_resource_grant_per_request(pool, "PINNED_CPU_BUFFER_POOL_MEM")
              = max_resource_grant_per_request(generate_executor_resource_mgr(b),
                                               "PINNED_CPU_BUFFER_POOL_MEM")
        BY <4>1 DEF SameLimits, max_resource_grant_per_request
      <4>3. r.device = "CPU" =>
              total_bytes(r) <= max_resource_grant_per_request(pool, "PINNED_CPU_BUFFER_POOL_MEM")
        BY <4>2, ZenonT(60) DEF NoneGated
      <4>4. total_bytes(r) \in Nat
        BY <3>2, SumNat, ZenonT(60) DEF RequestType, total_bytes, SumFunction
      <4>5. max_resource_grant_per_request(pool, "PINNED_CPU_BUFFER_POOL_MEM") \in Nat
        BY <2>1, MaxGrant, Parts, ZenonT(60) DEF Subtypes
      <4>6. (total_bytes(r) > max_resource_grant_per_request(pool, Pinned(r.device))) =>
              r.device = "CPU"
        BY <3>5 DEF BoundsOf
      <4>7. Pinned("CPU") = "PINNED_CPU_BUFFER_POOL_MEM"
        BY ZenonT(60) DEF Pinned
      <4> QED BY <4>3, <4>4, <4>5, <4>6, <4>7, Compare, ZenonT(60)
    <3>7. failed_CHECK(pool, e, g, r) = "none"
      <4>1. UngatedTurn(pool, held, r, e, g, c, x, k)
        BY <2>1, <3>1, <3>2, <3>3, <3>4, <3>6, ZenonT(60) DEF UngatedTurn, e, g
      <4> QED BY <4>1, UngatedPassesChecks, ZenonT(60)
    <3> QED BY <3>1, <3>7, ZenonT(60)
  <2>3. ASSUME NEW c \in Clients, Return(c) PROVE aborted' = "none"
    <3>1. /\ c \in DOMAIN held
          /\ aborted' = IF deallocate_resources_CHECK(pool, held[c].grant, held[c].request)
                        THEN "none" ELSE "deallocate_resources"
      BY <2>3, Zenon DEF Return
    <3>2. deallocate_resources_CHECK(pool, held[c].grant, held[c].request)
      BY <2>1, <3>1, ReturnPassesChecks, ZenonT(60)
    <3> QED BY <3>1, <3>2
  <2>4. CASE UNCHANGED poolVars
    BY <2>4 DEF poolVars, ChecksHold
  <2> QED BY <2>2, <2>3, <2>4, ZenonT(60) DEF PoolNext, ChecksHold
<1> QED BY <1>1, <1>2, SeparateInvariant, PTL DEF PoolSpec
=============================================================================
