--------------------------- MODULE TaskLifecycle ----------------------------
(***************************************************************************)
(* What the task engine promises, whoever calls it and however the calls   *)
(* interleave: a task changes state one legal edge at a time, and a task   *)
(* that reached a terminal state stays there ("The transition table is the *)
(* single source of truth", app/task_states.py:7).  TaskService and        *)
(* Execution implement this specification.                                 *)
(***************************************************************************)
EXTENDS TaskStates

CONSTANTS Tasks,          \* the task rows
          InitialStatus   \* [Tasks -> TaskState], where observation starts

VARIABLE status

Init == status = InitialStatus

Move(t, new) ==
  /\ ValidTransition(status[t], new)
  /\ status' = [status EXCEPT ![t] = new]

Next == \E t \in Tasks, new \in TaskState : Move(t, new)

Spec == Init /\ [][Next]_status
=============================================================================
