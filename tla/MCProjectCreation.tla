-------------------------- MODULE MCProjectCreation --------------------------
(***************************************************************************)
(* Small instances of ProjectCreation for TLC.                             *)
(***************************************************************************)
EXTENDS ProjectCreation, TLC

CONSTANTS n1, n2, n3, r1, r2, r3

\* Requests are interchangeable, and so are names that are not raced.
Interchangeable == Permutations(Requests) \cup Permutations(Names \ RacedNames)
=============================================================================
