---------------------------- MODULE MCBufferMgr ----------------------------
(***************************************************************************)
(* Instances of BufferMgr: threads are alike, and so are chunks.           *)
(***************************************************************************)
EXTENDS BufferMgr, TLC

Symmetric == Permutations(Threads) \cup Permutations(Chunks)
=============================================================================
