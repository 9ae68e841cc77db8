------------------------------ MODULE MCFileMgr ------------------------------
(* Small instances of FileMgr: row values that are interchangeable. *)
EXTENDS FileMgr, TLC

CONSTANTS v1, v2

OneVal == {v1}
TwoVals == {v1, v2}
ValsSymmetry == Permutations(TwoVals)

\* Rollback limits: -1 is uncapped.
Uncapped == {-1}
==============================================================================
