----------------------------- MODULE MCExecution -----------------------------
(***************************************************************************)
(* Small instances of Execution for TLC.                                   *)
(***************************************************************************)
EXTENDS ExecutionInvariant, TLC

CONSTANTS a1, a2, t1, t2, t3, r1, r2, r3

\* All tasks on one agent, and two tasks sharing one of two agents.
OneAgent == [t \in Tasks |-> a1]
SharedAgent == [t \in Tasks |-> IF t = t3 THEN a2 ELSE a1]

AllQueued == [t \in Tasks |-> "QUEUED"]

\* Requests are interchangeable, and so are tasks that start alike on one agent.
RequestSymmetry == Permutations(Requests)
TaskSymmetry == Permutations(Requests) \cup Permutations(Tasks)
=============================================================================
