----------------------------- MODULE TaskStates -----------------------------
(***************************************************************************)
(* The deterministic task state machine (app/task_states.py): the ten task *)
(* states, the terminal ones, the table of legal transitions and the guard *)
(* every status change passes through.                                     *)
(***************************************************************************)

TaskState == {"CREATED", "PLANNED", "QUEUED", "RUNNING", "WAITING_FOR_AGENT",
              "WAITING_FOR_REVIEW", "WAITING_FOR_APPROVAL",
              "COMPLETED", "FAILED", "CANCELLED"}

TerminalStates == {"COMPLETED", "FAILED", "CANCELLED"}

(***************************************************************************)
(* The edges of TASK_TRANSITIONS as a set of pairs.  A terminal state has  *)
(* no outgoing edge; RUNNING is entered from QUEUED and re-entered from    *)
(* the two waiting states WAITING_FOR_AGENT and WAITING_FOR_APPROVAL.      *)
(***************************************************************************)
TaskTransitions ==
  ({"CREATED"}              \X {"PLANNED", "CANCELLED"}) \cup
  ({"PLANNED"}              \X {"QUEUED", "CANCELLED"}) \cup
  ({"QUEUED"}               \X {"RUNNING", "CANCELLED"}) \cup
  ({"RUNNING"}              \X {"WAITING_FOR_AGENT", "FAILED", "CANCELLED"}) \cup
  ({"WAITING_FOR_AGENT"}    \X {"RUNNING", "WAITING_FOR_REVIEW", "FAILED", "CANCELLED"}) \cup
  ({"WAITING_FOR_REVIEW"}   \X {"COMPLETED", "WAITING_FOR_APPROVAL", "FAILED", "CANCELLED"}) \cup
  ({"WAITING_FOR_APPROVAL"} \X {"RUNNING", "FAILED", "CANCELLED"})

AllowedTransitions(current) ==
  {new \in TaskState : <<current, new>> \in TaskTransitions}

\* validate_transition: moving to the state the task is already in is illegal too.
ValidTransition(current, new) ==
  /\ current # new
  /\ new \in AllowedTransitions(current)
=============================================================================
