-------------------------- MODULE MCFileCompaction --------------------------
(* Small instances of FileCompaction. *)
EXTENDS FileCompaction, TLC
=============================================================================
