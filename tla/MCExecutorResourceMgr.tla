------------------------ MODULE MCExecutorResourceMgr ------------------------
(***************************************************************************)
(* Instances of ExecutorResourceMgr for TLC.                               *)
(***************************************************************************)
EXTENDS ExecutorResourceMgr, MCExecutorResourcePool

CONSTANTS a1, a2

OneAdmin == {a1}
TwoAdmins == {a1, a2}
NoAdmins == {}
Clears == [a \in Admins |-> "clear_memory"]
Sets == [a \in Admins |-> "settings"]
ClearsAndStops == [a \in Admins |-> IF a = a1 THEN "clear_memory" ELSE "stop"]
Stops == [a \in Admins |-> "stop"]

OneTimed == {q1}
NoTimed == {}
UntimedSymmetry == Permutations(Clients \ TimedClients)

MoreSlots == {[type |-> "CPU_SLOTS", quantity |-> 2], [type |-> "CPU_SLOTS", quantity |-> 6]}
SmallerPool == {[type |-> "CPU_BUFFER_POOL_MEM", quantity |-> 1]}
OneAtATime == {[type |-> "CPU_SLOTS",
                policy |-> [under |-> "ALLOW_SINGLE_REQUEST", over |-> "DISALLOW_REQUESTS"]]}
NoTotals == {}
NoPolicies == {}

\* A small query, a wide one, one whose result memory only fits with fewer slots, and
\* one for a GPU.
Small == Cpu(1, 0, FALSE, "a" :> 1, 1)
Wide == Cpu(4, 1, FALSE, NoChunks, 0)
Shrinks == Cpu(6, 1, TRUE, NoChunks, 0)
OnGpu == Gpu(2, 0, "a" :> 1, 1)

Workload == {Small, Wide, Shrinks, OnGpu}
CpuWorkload == {Small, Wide}
LargeChunks == {Cpu(1, 0, FALSE, "a" :> 2, 2)}
ShrinkWorkload == {Shrinks}
LiveWorkload == {Small, Shrinks}
=============================================================================
