----------------------- MODULE MCExecutorResourcePool -----------------------
(***************************************************************************)
(* Instances of ExecutorResourcePool for TLC.                              *)
(***************************************************************************)
EXTENDS ExecutorResourcePool, TLC

CONSTANTS q1, q2, q3

ThreeClients == {q1, q2, q3}
TwoClients == {q1, q2}
ClientSymmetry == Permutations(Clients)

Ratio(n, d) == [num |-> n, den |-> d]

\* Four CPU slots, two GPUs, and small memories; the ratios for pinned and pageable
\* memory are those of Executor::init_resource_mgr.
Config(pooled, cpu, gpu, cpuOver, memOver, slotsRatio) ==
  [use_cpu_mem_pool_for_output_buffers |-> pooled,
   allow_cpu_kernel_concurrency |-> cpu,
   allow_cpu_gpu_kernel_concurrency |-> gpu,
   allow_cpu_slot_oversubscription_concurrency |-> cpuOver,
   allow_cpu_result_mem_oversubscription_concurrency |-> memOver,
   max_num_gpu_per_query |-> 1,
   total |-> [t \in Types |->
                CASE t = "CPU_SLOTS" -> 4 [] t = "GPU_SLOTS" -> 2 [] t = "CPU_RESULT_MEM" -> 5
                  [] t = "CPU_BUFFER_POOL_MEM" -> 5 [] t = "GPU_BUFFER_POOL_MEM" -> 2],
   ratio |-> [s \in {"CPU_SLOTS", "CPU_RESULT_MEM", "PINNED_CPU_BUFFER_POOL_MEM",
                     "PAGEABLE_CPU_BUFFER_POOL_MEM"} |->
                CASE s = "CPU_SLOTS" -> slotsRatio
                  [] s = "CPU_RESULT_MEM" -> Ratio(4, 5)
                  [] s = "PINNED_CPU_BUFFER_POOL_MEM" -> Ratio(1, 1)
                  [] s = "PAGEABLE_CPU_BUFFER_POOL_MEM" -> Ratio(1, 2)]]

\* Every combination of the concurrency options, with result memory of its own.
SeparateResultMem ==
  {c \in {Config(FALSE, cpu, gpu, cpuOver, memOver, ratio) :
            cpu \in BOOLEAN, gpu \in BOOLEAN, cpuOver \in BOOLEAN, memOver \in BOOLEAN,
            ratio \in {Ratio(1, 2), Ratio(3, 2)}} : ValidConfig(c)}
CpuOversubscription == {c \in SeparateResultMem : c.allow_cpu_slot_oversubscription_concurrency}
Production == {Config(TRUE, TRUE, TRUE, FALSE, FALSE, Ratio(9, 10))}
ProductionSeparate == {Config(FALSE, TRUE, TRUE, FALSE, FALSE, Ratio(9, 10))}
CpuOnlyConcurrency == {Config(FALSE, TRUE, FALSE, FALSE, FALSE, Ratio(1, 2))}

\* Queries with one column: a kernel reads one chunk.
Cpu(slots, mem, reusable, chunks, kernel) ==
  gen_resource_request_info("CPU", slots, mem, reusable, chunks, kernel)
Gpu(slots, mem, chunks, kernel) ==
  gen_resource_request_info("GPU", slots, mem, FALSE, chunks, kernel)

NoChunks == <<>>
Ungated ==
  {Cpu(1, 0, FALSE, NoChunks, 0), Cpu(3, 1, TRUE, NoChunks, 0), Cpu(5, 1, TRUE, NoChunks, 0),
   Cpu(2, 2, FALSE, "a" :> 1, 1), Cpu(1, 0, FALSE, "a" :> 3, 3),
   Cpu(2, 0, FALSE, "a" :> 1 @@ "b" :> 2, 2), Gpu(1, 1, "a" :> 1, 1),
   Gpu(2, 0, "a" :> 1 @@ "b" :> 1, 1), Gpu(3, 0, NoChunks, 0),
   Gpu(1, 0, "a" :> 3, 3)}
\* More chunks than the buffer pool holds: the memory is gated by the number of slots.
Gated == {Cpu(4, 0, FALSE, [k \in {"a", "b", "c", "d", "e", "f"} |-> 1], 1),
          Cpu(3, 0, FALSE, [k \in {"a", "b", "c"} |-> 2], 2)}
Mixed == Gated \cup {Cpu(1, 0, FALSE, "a" :> 1, 1), Cpu(3, 1, TRUE, "a" :> 1 @@ "b" :> 2, 2),
                     Cpu(3, 0, FALSE, NoChunks, 0), Cpu(2, 2, FALSE, NoChunks, 0),
                     Gpu(1, 1, "a" :> 1, 1)}
\* Gated requests that are granted all of their slots or none.
Ordinary == Ungated \cup {Cpu(3, 0, FALSE, [k \in {"a", "b", "c"} |-> 2], 2),
                          Cpu(1, 0, FALSE, [k \in {"a", "b", "c", "d", "e", "f"} |-> 1], 1)}
WithResultMem == {Cpu(2, 1, FALSE, "a" :> 2 @@ "b" :> 2, 2), Cpu(1, 1, FALSE, "a" :> 1, 1)}
SmallCpu == {Cpu(1, 0, FALSE, NoChunks, 0)}
=============================================================================
