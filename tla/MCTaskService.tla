---------------------------- MODULE MCTaskService ----------------------------
(***************************************************************************)
(* Small instances of TaskService for TLC.                                 *)
(***************************************************************************)
EXTENDS TaskService, TLC

CONSTANTS t1, t2, c1, c2, c3

\* Callers are interchangeable, and so are tasks.
Interchangeable == Permutations(Callers) \cup Permutations(Tasks)
=============================================================================
