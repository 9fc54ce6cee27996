--------------------------- MODULE AdapterContract ---------------------------
(***************************************************************************)
(* What ExecutionService relies on when it calls an adapter (app/adapters/ *)
(* base.py, app/agent_contracts.py), for one conversation.  start_task     *)
(* returns a handle only for a conversation that exists; when it raises, a *)
(* conversation may exist all the same.  get_status says "completed" only  *)
(* when the provider finished the work, and "failed" only when the         *)
(* provider broke it off or lost its sandbox; it may raise at any time.    *)
(* Execution models its calls to the provider with exactly these outcomes. *)
(***************************************************************************)

VARIABLES
  exists,    \* the provider has a conversation for the task
  finished,  \* the provider finished the work
  broken,    \* the provider broke the work off, or lost its sandbox
  call,      \* the call of start_task
  answers    \* the states that calls of get_status have returned

Init ==
  /\ exists = FALSE /\ finished = FALSE /\ broken = FALSE
  /\ call = "none"
  /\ answers = {}

\* The provider works on its own account.  Work ends once, in one of two ways,
\* but the sandbox may be lost whatever the work came to.
Provider ==
  /\ call # "none"
  /\ exists => exists'
  /\ finished => finished'
  /\ broken => broken'
  /\ finished' \/ broken' => exists'
  /\ UNCHANGED <<call, answers>>

Call ==
  /\ call = "none"
  /\ call' = "calling"
  /\ UNCHANGED <<exists, finished, broken, answers>>

Return ==
  /\ call = "calling"
  /\ exists
  /\ call' = "handle"
  /\ UNCHANGED <<exists, finished, broken, answers>>

Raise ==
  /\ call \in {"none", "calling"}
  /\ call' = "raised"
  /\ UNCHANGED <<exists, finished, broken, answers>>

Answer(state) ==
  /\ call = "handle"
  /\ state = "completed" => finished
  /\ state = "failed" => broken
  /\ answers' = answers \cup {state}
  /\ UNCHANGED <<exists, finished, broken, call>>

Next ==
  \/ Provider \/ Call \/ Return \/ Raise
  \/ \E state \in {"running", "completed", "failed", "unknown"} : Answer(state)

Spec == Init /\ [][Next]_<<exists, finished, broken, call, answers>>
=============================================================================
