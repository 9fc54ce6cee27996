--------------------------- MODULE Execution_proofs ---------------------------
(***************************************************************************)
(* Theorems about Execution, for every set of tasks, agents and requests,  *)
(* both lock scopes and every combination of faults, that ask little of    *)
(* the clients or nothing at all.                                          *)
(***************************************************************************)
EXTENDS ExecutionInvariant, TLAPS

-----------------------------------------------------------------------------
(* Every step is a step of one request, the passing of time, or a crash.    *)

\* The steps of a request, one disjunct for each action.
RequestStep(r) ==
  \/ \E t \in Tasks : BeginExecute(r, t)
  \/ \E t \in Tasks : BeginRefresh(r, t)
  \/ \E t \in Tasks : BeginCancel(r, t)
  \/ \E t \in Tasks, new \in ServiceTargets : BeginTransition(r, t, new)
  \/ CheckAgent(r) \/ RejectExecute(r) \/ StartTask(r) \/ Reload(r)
  \/ ClaimAgent(r) \/ FailUnclaimed(r)
  \/ ProviderStarts(r) \/ ProviderFails(r) \/ ProviderRaises(r)
  \/ RecordHandle(r) \/ FailStart(r)
  \/ PollProvider(r) \/ PollRaises(r) \/ StorePoll(r)
  \/ CompleteExecution(r) \/ FailExecution(r) \/ ReleaseAgent(r)
  \/ Transition(r) \/ LockTimeout(r)

\* Next is one of: a step of a request, a task growing old, a crash.
LEMMA NextSplits ==
  ASSUME Next
  PROVE  \/ \E r \in Requests : RequestStep(r)
         \/ \E t \in Tasks : PatienceRunsOut(t)
         \/ Crash
BY DEF Next, Begin, Step, ExecuteStep, RefreshStep, RequestStep

\* A won transition keeps the row well typed and sets its status.
LEMMA MovedRow ==
  ASSUME NEW row \in TaskRow, NEW new \in TaskState
  PROVE  /\ Moved(row, new) \in TaskRow
         /\ Moved(row, new).status = new
         /\ Moved(row, new).reference = row.reference
         /\ Moved(row, new).execution = row.execution
         /\ Moved(row, new).result = row.result
BY DEF Moved, TaskRow, Started

\* The states the transitions of the execution service end in are task states.
LEMMA StatesAreTaskStates ==
  /\ {"RUNNING", "WAITING_FOR_AGENT", "WAITING_FOR_REVIEW", "FAILED", "CANCELLED",
      "QUEUED", "PLANNED", "COMPLETED", "CREATED"} \subseteq TaskState
  /\ NotStarted \subseteq TaskState
BY DEF TaskState, NotStarted

\* The idle request record is well typed.
LEMMA IdleRequest == Idle \in Request /\ Idle.pc = "idle"
BY ExecutionAssumption, StatesAreTaskStates
   DEF Idle, Request, PC, ExecutionState, ReportedState, References

-----------------------------------------------------------------------------
(* Type correctness.                                                        *)

\* The initial state is well typed, and every request is idle.
LEMMA TypeInit == Init => TypeInv
<1>1. 0 \in References
  BY ExecutionAssumption DEF References
<1>2. QED
  BY <1>1, ExecutionAssumption, StatesAreTaskStates, IdleRequest
     DEF Init, TypeInv, TypeOK, BusyHasTask, TaskRow, AgentStatus, ExecutionState,
         Started, At

\* A request record that BusyHasTask allows.
WellPlaced(x) ==
  x.pc # "idle" => /\ x.task \in Tasks
                   /\ x.pc # "transition" => AgentOf[x.task] \in Agents
                   /\ x.pc = "store" => x.polled \in {"running", "unknown"}

\* Writing one request record leaves the others alone and keeps requests well placed.
LEMMA OneRequestWritten ==
  ASSUME TypeInv, NEW r \in Requests, NEW x \in Request, WellPlaced(x),
         req' = [req EXCEPT ![r] = x]
  PROVE  /\ req' \in [Requests -> Request]
         /\ BusyHasTask'
         /\ req'[r] = x
         /\ \A q \in Requests \ {r} : req'[q] = req[q]
<1>1. req' \in [Requests -> Request] /\ req'[r] = x
      /\ \A q \in Requests \ {r} : req'[q] = req[q]
  BY DEF TypeInv, TypeOK
<1>2. QED
  BY <1>1 DEF TypeInv, BusyHasTask, At, AgentFor, WellPlaced

\* What a request that moves on to point p writes.
LEMMA GotoWrites ==
  ASSUME TypeInv, NEW r \in Requests, NEW p \in PC \ {"idle", "transition", "store"},
         ~At(r, "idle"), ~At(r, "transition"), Goto(r, p)
  PROVE  /\ req' \in [Requests -> Request]
         /\ BusyHasTask'
         /\ req'[r] = [req[r] EXCEPT !.pc = p]
         /\ \A q \in Requests \ {r} : req'[q] = req[q]
<1> DEFINE x == [req[r] EXCEPT !.pc = p]
<1>1. x \in Request /\ x.pc = p /\ x.task = req[r].task
  BY DEF TypeInv, TypeOK, Request
<1>2. WellPlaced(x)
  BY <1>1 DEF TypeInv, BusyHasTask, At, AgentFor, WellPlaced
<1>3. req' = [req EXCEPT ![r] = x]
  BY DEF Goto, TypeInv, TypeOK
<1>4. QED
  BY <1>1, <1>2, <1>3, OneRequestWritten

\* What a request that returns writes.
LEMMA ReturnWrites ==
  ASSUME TypeInv, NEW r \in Requests, Return(r)
  PROVE  /\ req' \in [Requests -> Request]
         /\ BusyHasTask'
         /\ req'[r] = Idle
         /\ \A q \in Requests \ {r} : req'[q] = req[q]
BY OneRequestWritten, IdleRequest DEF Return, WellPlaced

\* Writing one task row leaves the others alone.
LEMMA OneRowWritten ==
  ASSUME TypeInv, NEW t \in Tasks, NEW row \in TaskRow,
         task' = [task EXCEPT ![t] = row]
  PROVE  /\ task' \in [Tasks -> TaskRow]
         /\ task'[t] = row
         /\ \A u \in Tasks \ {t} : task'[u] = task[u]
BY DEF TypeInv, TypeOK

\* Writing one agent row leaves the others alone.
LEMMA OneAgentWritten ==
  ASSUME TypeInv, NEW a \in Agents, NEW s \in AgentStatus,
         agent' = [agent EXCEPT ![a] = s]
  PROVE  /\ agent' \in [Agents -> AgentStatus]
         /\ agent'[a] = s
         /\ \A b \in Agents \ {a} : agent'[b] = agent[b]
BY DEF TypeInv, TypeOK

-----------------------------------------------------------------------------
(* What each action that writes more than a point does to the row of its    *)
(* request's task.                                                          *)

\* The task and the agent of a request that executes or refreshes.
LEMMA RequestTask ==
  ASSUME TypeInv, NEW r \in Requests, ~At(r, "idle")
  PROVE  /\ req[r] \in Request
         /\ req[r].task \in Tasks
         /\ Row(r) \in TaskRow
         /\ ~At(r, "transition") => AgentFor(r) \in Agents
BY DEF TypeInv, TypeOK, BusyHasTask, Row

\* Recording a handle keeps the row well typed and sets its reference.
LEMMA HandleRow ==
  ASSUME NEW row \in TaskRow, NEW r, req[r] \in Request
  PROVE  /\ WithHandle(row, r) \in TaskRow
         /\ WithHandle(row, r).status = row.status
         /\ WithHandle(row, r).reference = req[r].handle
         /\ WithHandle(row, r).result = row.result
BY DEF WithHandle, Flushed, TaskRow, Request, ExecutionState

\* Recording a result keeps the row well typed, its status and its reference.
LEMMA ResultRow ==
  ASSUME NEW row \in TaskRow, NEW r, req[r] \in Request
  PROVE  /\ WithResult(row, r) \in TaskRow
         /\ WithResult(row, r).status = row.status
         /\ WithResult(row, r).reference = row.reference
BY DEF WithResult, Flushed, TaskRow, Request, ExecutionState

\* The effect of a won transition on the rows.
LEMMA StatusWritten ==
  ASSUME TypeInv, NEW r \in Requests, ~At(r, "idle"), NEW new \in TaskState,
         task' = [task EXCEPT ![req[r].task] = Moved(@, new)]
  PROVE  /\ task' \in [Tasks -> TaskRow]
         /\ task'[req[r].task] = Moved(Row(r), new)
         /\ \A u \in Tasks \ {req[r].task} : task'[u] = task[u]
<1>1. Moved(Row(r), new) \in TaskRow
  BY RequestTask, MovedRow
<1>2. task' = [task EXCEPT ![req[r].task] = Moved(Row(r), new)]
  BY RequestTask DEF Row, TypeInv, TypeOK
<1>3. QED
  BY <1>1, <1>2, RequestTask, OneRowWritten

\* The effect of recording a handle, with and without the transition.
LEMMA HandleWritten ==
  ASSUME TypeInv, NEW r \in Requests, ~At(r, "idle"),
         \/ task' = [task EXCEPT ![req[r].task] = Moved(WithHandle(@, r), "WAITING_FOR_AGENT")]
         \/ task' = [task EXCEPT ![req[r].task] = WithHandle(@, r)]
  PROVE  /\ task' \in [Tasks -> TaskRow]
         /\ task'[req[r].task] \in {Moved(WithHandle(Row(r), r), "WAITING_FOR_AGENT"),
                                    WithHandle(Row(r), r)}
         /\ \A u \in Tasks \ {req[r].task} : task'[u] = task[u]
<1>1. /\ Moved(WithHandle(Row(r), r), "WAITING_FOR_AGENT") \in TaskRow
      /\ WithHandle(Row(r), r) \in TaskRow
  BY RequestTask, HandleRow, MovedRow, StatesAreTaskStates
<1>2. \/ task' = [task EXCEPT ![req[r].task] = Moved(WithHandle(Row(r), r), "WAITING_FOR_AGENT")]
      \/ task' = [task EXCEPT ![req[r].task] = WithHandle(Row(r), r)]
  BY RequestTask DEF Row, TypeInv, TypeOK
<1>3. QED
  BY <1>1, <1>2, RequestTask, OneRowWritten

\* The effect of recording a result, with and without the transition.
LEMMA ResultWritten ==
  ASSUME TypeInv, NEW r \in Requests, ~At(r, "idle"),
         \/ task' = [task EXCEPT ![req[r].task] = Moved(WithResult(@, r), "WAITING_FOR_REVIEW")]
         \/ task' = [task EXCEPT ![req[r].task] = WithResult(@, r)]
  PROVE  /\ task' \in [Tasks -> TaskRow]
         /\ task'[req[r].task] \in {Moved(WithResult(Row(r), r), "WAITING_FOR_REVIEW"),
                                    WithResult(Row(r), r)}
         /\ \A u \in Tasks \ {req[r].task} : task'[u] = task[u]
<1>1. /\ Moved(WithResult(Row(r), r), "WAITING_FOR_REVIEW") \in TaskRow
      /\ WithResult(Row(r), r) \in TaskRow
  BY RequestTask, ResultRow, MovedRow, StatesAreTaskStates
<1>2. \/ task' = [task EXCEPT ![req[r].task] = Moved(WithResult(Row(r), r), "WAITING_FOR_REVIEW")]
      \/ task' = [task EXCEPT ![req[r].task] = WithResult(Row(r), r)]
  BY RequestTask DEF Row, TypeInv, TypeOK
<1>3. QED
  BY <1>1, <1>2, RequestTask, OneRowWritten

\* The effect of storing a poll: the row keeps its status and its reference.
LEMMA PollWritten ==
  ASSUME TypeInv, NEW r \in Requests, StorePoll(r)
  PROVE  /\ task' \in [Tasks -> TaskRow]
         /\ task'[req[r].task].status = Row(r).status
         /\ task'[req[r].task].reference = Row(r).reference
         /\ \A u \in Tasks \ {req[r].task} : task'[u] = task[u]
<1> DEFINE row == [Row(r) EXCEPT !.execution = Flushed(@, req[r].loaded, req[r].polled)]
<1>1. req[r].polled \in ExecutionState
  BY DEF StorePoll, At, TypeInv, BusyHasTask, ExecutionState
<1>2. row \in TaskRow /\ row.status = Row(r).status /\ row.reference = Row(r).reference
  BY <1>1, RequestTask DEF StorePoll, At, Flushed, TaskRow
<1>3. task' = [task EXCEPT ![req[r].task] = row]
  BY RequestTask DEF StorePoll, At, Row, TypeInv, TypeOK
<1>4. QED
  BY <1>2, <1>3, RequestTask, OneRowWritten DEF StorePoll, At

-----------------------------------------------------------------------------
(* Type correctness.                                                        *)

\* Every point a request moves to inside a call.
LEMMA Points ==
  {"check_agent", "claim_task", "reload", "claim_agent", "claim_lost", "calling",
   "record", "start_failed", "poll", "complete", "fail", "release"}
     \subseteq PC \ {"idle", "transition", "store"}
BY DEF PC, Starting, Polling, ClaimHeld

\* Each step of a request keeps every variable well typed and every request placed.
LEMMA TypeStep ==
  ASSUME TypeInv, NEW r \in Requests, RequestStep(r)
  PROVE  TypeInv'
<1> USE ExecutionAssumption, StatesAreTaskStates, IdleRequest, Points
<1> SUFFICES TypeOK' /\ BusyHasTask'
  BY DEF TypeInv
<1>1. CASE \E t \in Tasks : BeginExecute(r, t)
  <2> PICK t \in Tasks : BeginExecute(r, t)
    BY <1>1
  <2> DEFINE x == [Idle EXCEPT !.pc = "check_agent", !.task = t, !.seen = task[t].status]
  <2>1. x \in Request /\ WellPlaced(x)
    BY DEF BeginExecute, WellPlaced, TypeInv, TypeOK, Request, Idle, TaskRow
  <2> QED
    BY <2>1, OneRequestWritten DEF BeginExecute, TypeInv, TypeOK
<1>2. CASE \E t \in Tasks : BeginRefresh(r, t)
  <2> PICK t \in Tasks : BeginRefresh(r, t)
    BY <1>2
  <2> DEFINE x == [Idle EXCEPT !.pc = "poll", !.task = t, !.seen = task[t].status,
                               !.loaded = task[t].execution, !.handle = task[t].reference]
  <2>1. x \in Request /\ WellPlaced(x)
    BY DEF BeginRefresh, WellPlaced, TypeInv, TypeOK, Request, Idle, TaskRow
  <2> QED
    BY <2>1, OneRequestWritten DEF BeginRefresh, TypeInv, TypeOK
<1>3. CASE \E t \in Tasks : BeginCancel(r, t)
  <2> PICK t \in Tasks : BeginCancel(r, t)
    BY <1>3
  <2> DEFINE x == [Idle EXCEPT !.pc = "transition", !.task = t, !.seen = task[t].status,
                               !.target = "CANCELLED"]
  <2>1. x \in Request /\ WellPlaced(x)
    BY DEF WellPlaced, TypeInv, TypeOK, Request, Idle, TaskRow, PC
  <2> QED
    BY <2>1, OneRequestWritten DEF BeginCancel, TypeInv, TypeOK
<1>4. CASE \E t \in Tasks, new \in ServiceTargets : BeginTransition(r, t, new)
  <2> PICK t \in Tasks, new \in ServiceTargets : BeginTransition(r, t, new)
    BY <1>4
  <2> DEFINE x == [Idle EXCEPT !.pc = "transition", !.task = t, !.seen = task[t].status,
                               !.target = new]
  <2>1. x \in Request /\ WellPlaced(x)
    BY DEF WellPlaced, TypeInv, TypeOK, Request, Idle, TaskRow, PC
  <2> QED
    BY <2>1, OneRequestWritten DEF BeginTransition, TypeInv, TypeOK
<1>5. CASE CheckAgent(r)
  BY <1>5, GotoWrites DEF CheckAgent, At, TypeInv, TypeOK
<1>6. CASE RejectExecute(r) \/ PollRaises(r) \/ LockTimeout(r)
  BY <1>6, ReturnWrites DEF RejectExecute, PollRaises, LockTimeout, TypeInv, TypeOK
<1>7. CASE StartTask(r)
  <2> USE <1>7, RequestTask DEF StartTask, At
  <2>1. CASE Goto(r, "reload") /\ task' = [task EXCEPT ![req[r].task] = Moved(@, "RUNNING")]
    BY <2>1, GotoWrites, StatusWritten DEF TypeInv, TypeOK
  <2>2. CASE Return(r) /\ UNCHANGED task
    BY <2>2, ReturnWrites DEF TypeInv, TypeOK
  <2> QED
    BY <2>1, <2>2
<1>8. CASE Reload(r)
  <2> DEFINE x == [req[r] EXCEPT !.pc = "claim_agent", !.seen = Row(r).status,
                                 !.loaded = Row(r).execution]
  <2>1. x \in Request /\ WellPlaced(x)
    BY <1>8, RequestTask DEF Reload, At, AgentFor, WellPlaced, Request, TaskRow
  <2>2. req' = [req EXCEPT ![r] = x]
    BY <1>8 DEF Reload, TypeInv, TypeOK
  <2> QED
    BY <1>8, <2>1, <2>2, OneRequestWritten DEF Reload, TypeInv, TypeOK
<1>9. CASE ClaimAgent(r)
  BY <1>9, GotoWrites DEF ClaimAgent, At, TypeInv, TypeOK
<1>10. CASE FailUnclaimed(r)
  BY <1>10, ReturnWrites, StatusWritten DEF FailUnclaimed, At, TypeInv, TypeOK
<1>11. CASE ProviderStarts(r)
  <2> DEFINE x == [req[r] EXCEPT !.pc = "record", !.handle = conversations[req[r].task] + 1]
  <2>0. conversations[req[r].task] + 1 \in References
    BY <1>11, RequestTask DEF ProviderStarts, At, TypeInv, TypeOK, References
  <2>1. x \in Request /\ WellPlaced(x)
    BY <1>11, <2>0, RequestTask DEF ProviderStarts, At, AgentFor, WellPlaced, Request
  <2>2. req' = [req EXCEPT ![r] = x]
    BY <1>11 DEF ProviderStarts, TypeInv, TypeOK
  <2> QED
    BY <1>11, <2>0, <2>1, <2>2, OneRequestWritten DEF ProviderStarts, TypeInv, TypeOK
<1>12. CASE ProviderFails(r) \/ ProviderRaises(r)
  <2>1. conversations' \in [Tasks -> References]
    BY <1>12, RequestTask DEF ProviderFails, ProviderRaises, At, TypeInv, TypeOK, References
  <2> QED
    BY <1>12, <2>1, GotoWrites, ReturnWrites
       DEF ProviderFails, ProviderRaises, At, TypeInv, TypeOK
<1>13. CASE RecordHandle(r)
  <2> USE <1>13, RequestTask DEF RecordHandle, At
  <2>1. agent' \in [Agents -> AgentStatus]
    BY OneAgentWritten DEF AgentStatus, TypeInv, TypeOK
  <2>2. task' \in [Tasks -> TaskRow]
    BY HandleWritten
  <2>3. req' \in [Requests -> Request] /\ BusyHasTask'
    BY GotoWrites, ReturnWrites
  <2> QED
    BY <2>1, <2>2, <2>3 DEF TypeInv, TypeOK
<1>14. CASE FailStart(r)
  <2> USE <1>14, RequestTask DEF FailStart, At
  <2>1. agent' \in [Agents -> AgentStatus]
    BY OneAgentWritten DEF AgentStatus, TypeInv, TypeOK
  <2>2. task' \in [Tasks -> TaskRow]
    BY StatusWritten DEF TypeInv, TypeOK
  <2>3. req' \in [Requests -> Request] /\ BusyHasTask'
    BY GotoWrites
  <2> QED
    BY <2>1, <2>2, <2>3 DEF TypeInv, TypeOK
<1>15. CASE PollProvider(r)
  <2>1. CASE \E p \in {"complete", "fail"} : Goto(r, p)
    BY <1>15, <2>1, GotoWrites DEF PollProvider, At, TypeInv, TypeOK
  <2>2. CASE \E p \in {"fail", "store"}, state \in {"failed", "running", "unknown"} :
               /\ req' = [req EXCEPT ![r].pc = p, ![r].polled = state]
               /\ p = "store" => state # "failed"
    <3> PICK p \in {"fail", "store"}, state \in {"failed", "running", "unknown"} :
               /\ req' = [req EXCEPT ![r].pc = p, ![r].polled = state]
               /\ p = "store" => state # "failed"
      BY <2>2
    <3> DEFINE x == [req[r] EXCEPT !.pc = p, !.polled = state]
    <3>1. x \in Request /\ WellPlaced(x)
      BY <1>15, RequestTask DEF PollProvider, At, AgentFor, WellPlaced, Request, PC,
                                Polling, ReportedState, ExecutionState
    <3>2. req' = [req EXCEPT ![r] = x]
      BY DEF TypeInv, TypeOK
    <3> QED
      BY <1>15, <3>1, <3>2, OneRequestWritten DEF PollProvider, TypeInv, TypeOK
  <2> QED
    BY <1>15, <2>1, <2>2 DEF PollProvider
<1>16. CASE StorePoll(r)
  <2>1. req' \in [Requests -> Request] /\ BusyHasTask'
    BY <1>16, ReturnWrites DEF StorePoll
  <2> QED
    BY <1>16, <2>1, PollWritten DEF StorePoll, TypeInv, TypeOK
<1>17. CASE CompleteExecution(r)
  <2> USE <1>17, RequestTask DEF CompleteExecution, At
  <2>1. task' \in [Tasks -> TaskRow]
    BY ResultWritten
  <2>2. req' \in [Requests -> Request] /\ BusyHasTask'
    BY GotoWrites, ReturnWrites
  <2> QED
    BY <2>1, <2>2 DEF TypeInv, TypeOK
<1>18. CASE FailExecution(r)
  <2> USE <1>18, RequestTask DEF FailExecution, At
  <2>1. task' \in [Tasks -> TaskRow]
    BY StatusWritten DEF TypeInv, TypeOK
  <2>2. req' \in [Requests -> Request] /\ BusyHasTask'
    BY GotoWrites
  <2> QED
    BY <2>1, <2>2 DEF TypeInv, TypeOK
<1>19. CASE ReleaseAgent(r)
  <2>1. agent' \in [Agents -> AgentStatus]
    BY <1>19, RequestTask, OneAgentWritten DEF ReleaseAgent, At, AgentStatus
  <2> QED
    BY <1>19, <2>1, ReturnWrites DEF ReleaseAgent, TypeInv, TypeOK
<1>20. CASE Transition(r)
  <2> USE <1>20, RequestTask DEF Transition, At
  <2>1. task' \in [Tasks -> TaskRow]
    BY StatusWritten DEF Request, TypeInv, TypeOK
  <2> QED
    BY <2>1, ReturnWrites DEF TypeInv, TypeOK
<1> QED
  BY <1>1, <1>2, <1>3, <1>4, <1>5, <1>6, <1>7, <1>8, <1>9, <1>10, <1>11, <1>12, <1>13,
     <1>14, <1>15, <1>16, <1>17, <1>18, <1>19, <1>20 DEF RequestStep

\* Time and crashes keep the types too.
LEMMA TypeEnvironment ==
  ASSUME TypeInv, (\E t \in Tasks : PatienceRunsOut(t)) \/ Crash
  PROVE  TypeInv'
<1>1. CASE \E t \in Tasks : PatienceRunsOut(t)
  <2> PICK t \in Tasks : PatienceRunsOut(t)
    BY <1>1
  <2>1. task' \in [Tasks -> TaskRow]
    BY DEF PatienceRunsOut, TypeInv, TypeOK, TaskRow, Started
  <2> QED
    BY <2>1 DEF PatienceRunsOut, TypeInv, TypeOK, BusyHasTask, At, AgentFor
<1>2. CASE Crash
  BY <1>2, IdleRequest DEF Crash, TypeInv, TypeOK, BusyHasTask, At
<1> QED
  BY <1>1, <1>2

\* Nothing about the types changes in a stuttering step.
LEMMA TypeStutter ==
  ASSUME TypeInv, UNCHANGED vars
  PROVE  TypeInv'
BY DEF vars, TypeInv, TypeOK, BusyHasTask, At, AgentFor

\* TypeInv is inductive.
LEMMA TypeInductive == TypeInv /\ [Next]_vars => TypeInv'
BY NextSplits, TypeStep, TypeEnvironment, TypeStutter

\* Every reachable state is well typed, whatever the clients do and whatever fails.
THEOREM TypeCorrect == Spec => []TypeOK
<1>1. TypeInv => TypeOK
  BY DEF TypeInv
<1>2. QED
  BY <1>1, TypeInit, TypeInductive, PTL DEF Spec

-----------------------------------------------------------------------------
(* The status column follows the lifecycle.                                 *)

\* The lifecycle uses the same table.
LEMMA SameTable ==
  /\ Lifecycle!TaskState = TaskState
  /\ \A s, new : ValidTransition(s, new) => Lifecycle!ValidTransition(s, new)
<1>1. Lifecycle!TaskState = TaskState
  BY DEF Lifecycle!TaskState, TaskState
<1>2. Lifecycle!TaskTransitions = TaskTransitions
  BY DEF Lifecycle!TaskTransitions, TaskTransitions
<1>3. QED
  BY <1>1, <1>2 DEF Lifecycle!ValidTransition, ValidTransition,
                    Lifecycle!AllowedTransitions, AllowedTransitions

\* The refinement mapping.
StatusOf == [t \in Tasks |-> task[t].status]

\* A legal move of the row of r's task is a step of the lifecycle.
LEMMA MoveIsLegal ==
  ASSUME TypeInv, NEW r \in Requests, ~At(r, "idle"), NEW new \in TaskState,
         ValidTransition(Row(r).status, new),
         task'[req[r].task].status = new,
         \A u \in Tasks \ {req[r].task} : task'[u] = task[u]
  PROVE  Lifecycle!Next
<1>1. StatusOf' = [StatusOf EXCEPT ![req[r].task] = new]
  BY RequestTask DEF StatusOf
<1>2. Lifecycle!ValidTransition(StatusOf[req[r].task], new)
  BY RequestTask, SameTable DEF Row, StatusOf
<1>3. QED
  BY <1>1, <1>2, RequestTask, SameTable DEF Lifecycle!Next, Lifecycle!Move, StatusOf

\* A step that changes no status is a stuttering step of the lifecycle.
LEMMA NoMove ==
  ASSUME \A t \in Tasks : task'[t].status = task[t].status
  PROVE  UNCHANGED StatusOf
BY DEF StatusOf

\* The transitions the execution service makes are legal from the state the
\* compare-and-swap found.
LEMMA ServiceMoves ==
  /\ ValidTransition("RUNNING", "WAITING_FOR_AGENT")
  /\ ValidTransition("WAITING_FOR_AGENT", "WAITING_FOR_REVIEW")
  /\ ValidTransition("WAITING_FOR_AGENT", "FAILED")
BY DEF ValidTransition, AllowedTransitions, TaskTransitions, TaskState

\* The copies stay valid.
LEMMA CopiesStep ==
  ASSUME TypeInv, CopiesAreValid, NEW r \in Requests, RequestStep(r)
  PROVE  CopiesAreValid'
<1> DEFINE Valid(x) ==
      /\ x.pc \in Polling => x.seen = "WAITING_FOR_AGENT"
      /\ x.pc = "transition" => ValidTransition(x.seen, x.target)
<1>1. /\ \A q \in Requests \ {r} : req'[q] = req[q]
      /\ Valid(req'[r])
  <2> USE DEF TypeInv, TypeOK, CopiesAreValid, Valid, At, Polling, Idle, Request
  <2>0. CASE \E t \in Tasks : BeginExecute(r, t)
    BY <2>0 DEF BeginExecute
  <2>1. CASE \E t \in Tasks : BeginRefresh(r, t)
    BY <2>1 DEF BeginRefresh, InFlight
  <2>4. CASE \E t \in Tasks : BeginCancel(r, t)
    BY <2>4 DEF BeginCancel
  <2>2. CASE \E t \in Tasks, new \in ServiceTargets : BeginTransition(r, t, new)
    BY <2>2 DEF BeginTransition
  <2>3. CASE ~(\E t \in Tasks : BeginExecute(r, t) \/ BeginRefresh(r, t) \/ BeginCancel(r, t)
                \/ \E new \in ServiceTargets : BeginTransition(r, t, new))
    BY <2>3 DEF RequestStep, CheckAgent, RejectExecute, StartTask, Reload, ClaimAgent,
       FailUnclaimed, ProviderStarts, ProviderFails, ProviderRaises, RecordHandle,
       FailStart, PollProvider, PollRaises, StorePoll, CompleteExecution,
       FailExecution, ReleaseAgent, Transition, LockTimeout, Goto, Return
  <2> QED
    BY <2>0, <2>1, <2>2, <2>3, <2>4
<1>2. QED
  BY <1>1 DEF CopiesAreValid, Valid, At

\* A transition that is valid for the request's copy and wins its compare-and-swap.
LEMMA WonTransition ==
  ASSUME TypeInv, NEW r \in Requests, ~At(r, "idle"), NEW new \in TaskState,
         ValidTransition(req[r].seen, new), CasWins(r),
         task' = [task EXCEPT ![req[r].task] = Moved(@, new)]
  PROVE  Lifecycle!Next
<1>0. Moved(Row(r), new).status = new
  BY RequestTask, MovedRow
<1>1. task'[req[r].task].status = new
      /\ \A u \in Tasks \ {req[r].task} : task'[u] = task[u]
  BY <1>0, StatusWritten
<1>2. ValidTransition(Row(r).status, new)
  BY DEF CasWins
<1>3. QED
  BY <1>1, <1>2, MoveIsLegal

\* Each step of a request moves at most one task, along a legal edge.
LEMMA StepFollowsLifecycle ==
  ASSUME TypeInv, CopiesAreValid, NEW r \in Requests, RequestStep(r)
  PROVE  Lifecycle!Next \/ UNCHANGED StatusOf
<1> USE StatesAreTaskStates
<1>1. CASE UNCHANGED task
  BY <1>1, NoMove
<1>2. CASE StartTask(r)
  BY <1>1, <1>2, WonTransition DEF StartTask, At
<1>3. CASE FailUnclaimed(r)
  BY <1>1, <1>3, WonTransition DEF FailUnclaimed, At
<1>4. CASE FailStart(r)
  BY <1>1, <1>4, WonTransition DEF FailStart, At
<1>5. CASE FailExecution(r)
  <2>1. ~At(r, "idle") /\ ValidTransition(req[r].seen, "FAILED")
    BY <1>5, ServiceMoves DEF FailExecution, At, CopiesAreValid, Polling
  <2> QED
    BY <1>1, <1>5, <2>1, WonTransition DEF FailExecution
<1>6. CASE Transition(r)
  <2>1. ~At(r, "idle") /\ ValidTransition(req[r].seen, req[r].target)
        /\ req[r].target \in TaskState
    BY <1>6, RequestTask DEF Transition, At, CopiesAreValid, Request
  <2> QED
    BY <1>1, <1>6, <2>1, WonTransition DEF Transition
<1>7. CASE StorePoll(r)
  <2>1. \A t \in Tasks : task'[t].status = task[t].status
    BY <1>7, PollWritten DEF Row
  <2> QED
    BY <2>1, NoMove
<1>8. CASE CompleteExecution(r)
  <2>1. ~At(r, "idle") /\ req[r].seen = "WAITING_FOR_AGENT"
    BY <1>8 DEF CompleteExecution, At, CopiesAreValid, Polling
  <2>2. /\ Row(r) \in TaskRow /\ req[r] \in Request
        /\ WithResult(Row(r), r) \in TaskRow
        /\ WithResult(Row(r), r).status = Row(r).status
        /\ Moved(WithResult(Row(r), r), "WAITING_FOR_REVIEW").status = "WAITING_FOR_REVIEW"
    BY <2>1, RequestTask, ResultRow, MovedRow
  <2>3. CASE CasWins(r)
    <3>1. task' = [task EXCEPT ![req[r].task] =
                      Moved(WithResult(Row(r), r), "WAITING_FOR_REVIEW")]
      BY <1>8, <2>3 DEF CompleteExecution, Row
    <3>2. task'[req[r].task].status = "WAITING_FOR_REVIEW"
          /\ \A u \in Tasks \ {req[r].task} : task'[u] = task[u]
      BY <2>1, <2>2, <3>1, RequestTask DEF TypeInv, TypeOK
    <3> QED
      BY <2>1, <2>3, <3>2, ServiceMoves, MoveIsLegal DEF CasWins
  <2>4. CASE ~CasWins(r)
    <3>1. task' = [task EXCEPT ![req[r].task] = WithResult(Row(r), r)]
      BY <1>8, <2>4 DEF CompleteExecution, Row
    <3>2. \A t \in Tasks : task'[t].status = task[t].status
      BY <2>1, <2>2, <3>1, RequestTask DEF Row, TypeInv, TypeOK
    <3> QED
      BY <3>2, NoMove
  <2> QED
    BY <2>3, <2>4
<1>9. CASE RecordHandle(r)
  <2>1. ~At(r, "idle")
    BY <1>9 DEF RecordHandle, At
  <2>2. /\ Row(r) \in TaskRow /\ req[r] \in Request
        /\ WithHandle(Row(r), r) \in TaskRow
        /\ WithHandle(Row(r), r).status = Row(r).status
        /\ Moved(WithHandle(Row(r), r), "WAITING_FOR_AGENT").status = "WAITING_FOR_AGENT"
    BY <2>1, RequestTask, HandleRow, MovedRow
  <2>3. CASE ValidTransition(req[r].seen, "WAITING_FOR_AGENT") /\ CasWins(r)
    <3>1. task' = [task EXCEPT ![req[r].task] =
                      Moved(WithHandle(Row(r), r), "WAITING_FOR_AGENT")]
      BY <1>9, <2>3 DEF RecordHandle, Row
    <3>2. task'[req[r].task].status = "WAITING_FOR_AGENT"
          /\ \A u \in Tasks \ {req[r].task} : task'[u] = task[u]
      BY <2>1, <2>2, <3>1, RequestTask DEF TypeInv, TypeOK
    <3> QED
      BY <2>1, <2>3, <3>2, MoveIsLegal DEF CasWins
  <2>4. CASE ~(ValidTransition(req[r].seen, "WAITING_FOR_AGENT") /\ CasWins(r))
    <3>1. task' = [task EXCEPT ![req[r].task] = WithHandle(Row(r), r)]
      BY <1>9, <2>4 DEF RecordHandle, Row
    <3>2. \A t \in Tasks : task'[t].status = task[t].status
      BY <2>1, <2>2, <3>1, RequestTask DEF Row, TypeInv, TypeOK
    <3> QED
      BY <3>2, NoMove
  <2> QED
    BY <2>3, <2>4
<1> QED
  BY <1>1, <1>2, <1>3, <1>4, <1>5, <1>6, <1>7, <1>8, <1>9
     DEF RequestStep, BeginExecute, BeginRefresh, BeginCancel, BeginTransition,
         CheckAgent, RejectExecute, Reload, ClaimAgent, ProviderStarts, ProviderFails,
         ProviderRaises, PollProvider, PollRaises, ReleaseAgent, LockTimeout

\* The environment moves no task, and invalidates no copy.
LEMMA EnvironmentFollowsLifecycle ==
  ASSUME TypeInv, CopiesAreValid,
         (\E t \in Tasks : PatienceRunsOut(t)) \/ Crash \/ UNCHANGED vars
  PROVE  UNCHANGED StatusOf /\ CopiesAreValid'
<1>1. CASE \E t \in Tasks : PatienceRunsOut(t)
  <2> PICK t \in Tasks : PatienceRunsOut(t)
    BY <1>1
  <2>1. \A u \in Tasks : task'[u].status = task[u].status
    BY DEF PatienceRunsOut, TypeInv, TypeOK, TaskRow
  <2> QED
    BY <2>1, NoMove DEF PatienceRunsOut, CopiesAreValid, At
<1>2. CASE Crash
  BY <1>2, NoMove DEF Crash, CopiesAreValid, At, Idle, Polling
<1>3. CASE UNCHANGED vars
  BY <1>3, NoMove DEF vars, CopiesAreValid, At
<1> QED
  BY <1>1, <1>2, <1>3

\* The status column implements the task lifecycle: no interleaving of requests,
\* in-process callers, lock timeouts and crashes takes a task along an illegal
\* edge or out of a terminal state.
THEOREM ImplementsLifecycle == Spec => FollowsLifecycle
<1>1. Init => TypeInv /\ CopiesAreValid /\ Lifecycle!Init
  <2>1. Init => CopiesAreValid
    BY DEF Init, CopiesAreValid, At, Idle, Polling
  <2>2. Init => Lifecycle!Init
    BY ExecutionAssumption DEF Init, Lifecycle!Init
  <2> QED
    BY <2>1, <2>2, TypeInit
<1>2. TypeInv /\ CopiesAreValid /\ [Next]_vars
        => TypeInv' /\ CopiesAreValid' /\ (Lifecycle!Next \/ UNCHANGED StatusOf)
  BY NextSplits, TypeInductive, CopiesStep, StepFollowsLifecycle, EnvironmentFollowsLifecycle
<1>3. QED
  BY <1>1, <1>2, PTL DEF Spec, FollowsLifecycle, Lifecycle!Spec, StatusOf

-----------------------------------------------------------------------------
(* Starts.  OnlyExecuteWaits is all that is asked of the clients: requests  *)
(* refresh one task at the same time, cancel tasks that are RUNNING, lose   *)
(* locks and die as they like.                                              *)

\* The transitions that lead into RUNNING, into WAITING_FOR_AGENT, out of RUNNING.
LEMMA RunningEdges ==
  /\ \A s : ValidTransition(s, "RUNNING") => s \notin {"RUNNING"} \cup TerminalStates
  /\ \A s : ValidTransition(s, "WAITING_FOR_AGENT") => s = "RUNNING"
  /\ \A s, new : ValidTransition(s, new) =>
       /\ s \notin TerminalStates
       /\ s = "RUNNING" => new \in {"WAITING_FOR_AGENT"} \cup TerminalStates
  /\ ValidTransition("RUNNING", "FAILED")
BY DEF ValidTransition, AllowedTransitions, TaskTransitions, TaskState, TerminalStates

\* A step of a request leaves the other requests alone.
LEMMA OthersStay ==
  ASSUME TypeInv, NEW r \in Requests, RequestStep(r)
  PROVE  \A q \in Requests \ {r} : req'[q] = req[q]
BY DEF TypeInv, TypeOK, RequestStep, BeginExecute, BeginRefresh, BeginCancel,
   BeginTransition, CheckAgent, RejectExecute, StartTask, Reload, ClaimAgent, FailUnclaimed,
   ProviderStarts, ProviderFails, ProviderRaises, RecordHandle, FailStart, PollProvider,
   PollRaises, StorePoll, CompleteExecution, FailExecution, ReleaseAgent, Transition,
   LockTimeout, Goto, Return

\* The transitions asked for stay those a caller makes.
LEMMA AskedStep ==
  ASSUME TypeInv, TransitionsAreAsked, NEW r \in Requests, RequestStep(r)
  PROVE  TransitionsAreAsked'
<1>1. req'[r].pc = "transition" => req'[r].target \in ServiceTargets \cup {"CANCELLED"}
  <2> USE DEF TypeInv, TypeOK, TransitionsAreAsked, At, Idle, Request
  <2>0. CASE \E t \in Tasks : BeginExecute(r, t)
    BY <2>0 DEF BeginExecute
  <2>1. CASE \E t \in Tasks : BeginCancel(r, t)
    BY <2>1 DEF BeginCancel
  <2>4. CASE \E t \in Tasks : BeginRefresh(r, t)
    BY <2>4 DEF BeginRefresh
  <2>2. CASE \E t \in Tasks, new \in ServiceTargets : BeginTransition(r, t, new)
    BY <2>2 DEF BeginTransition
  <2>3. CASE ~(\E t \in Tasks : BeginExecute(r, t) \/ BeginRefresh(r, t) \/ BeginCancel(r, t)
                \/ \E new \in ServiceTargets : BeginTransition(r, t, new))
    BY <2>3 DEF RequestStep, CheckAgent, RejectExecute, StartTask, Reload, ClaimAgent,
       FailUnclaimed, ProviderStarts, ProviderFails, ProviderRaises, RecordHandle,
       FailStart, PollProvider, PollRaises, StorePoll, CompleteExecution,
       FailExecution, ReleaseAgent, Transition, LockTimeout, Goto, Return
  <2> QED
    BY <2>0, <2>1, <2>2, <2>3, <2>4
<1>2. QED
  BY <1>1, OthersStay DEF TransitionsAreAsked, At

\* r wins its compare-and-swap and starts task t.
Begins(r, t) ==
  /\ At(r, "claim_task") /\ req'[r].pc = "reload" /\ req'[r].task = t
  /\ task[t].status \notin {"RUNNING"} \cup TerminalStates
  /\ task'[t].status = "RUNNING"

\* r records its handle, and task t waits for the agent.
Records(r, t) ==
  /\ At(r, "record") /\ req'[r] = Idle
  /\ task[t].status = "RUNNING"
  /\ task'[t].status = "WAITING_FOR_AGENT"
  /\ task'[t].reference = req[r].handle

\* Task t ends.
Ends(t) == task'[t].status \in TerminalStates

\* Task t is not being started, before and after.
MovesElsewhere(t) ==
  /\ task[t].status \notin {"RUNNING"} \cup TerminalStates
  /\ task'[t].status \in ServiceTargets \cup {"CANCELLED", "WAITING_FOR_REVIEW"}

\* A transition that r validated against its copy.
LEMMA WonStatus ==
  ASSUME TypeInv, NEW r \in Requests, ~At(r, "idle"), NEW new \in TaskState,
         NEW t \in Tasks, task'[t].status # task[t].status,
         \/ UNCHANGED task
         \/ CasWins(r) /\ task' = [task EXCEPT ![req[r].task] = Moved(@, new)]
  PROVE  t = req[r].task /\ task[t].status = req[r].seen /\ task'[t].status = new
<1>1. CasWins(r) /\ task' = [task EXCEPT ![req[r].task] = Moved(@, new)]
  OBVIOUS
<1>2. /\ task'[req[r].task] = Moved(Row(r), new)
      /\ \A u \in Tasks \ {req[r].task} : task'[u] = task[u]
  BY <1>1, StatusWritten
<1>3. Moved(Row(r), new).status = new
  BY RequestTask, MovedRow
<1>4. QED
  BY <1>1, <1>2, <1>3 DEF CasWins, Row

\* How one step of a request may change a status.
LEMMA StatusMoves ==
  ASSUME TypeInv, CopiesAreValid, TransitionsAreAsked, OnlyExecuteWaits,
         NEW r \in Requests, RequestStep(r), NEW t \in Tasks, task'[t].status # task[t].status
  PROVE  t = req[r].task /\ (Begins(r, t) \/ Records(r, t) \/ Ends(t) \/ MovesElsewhere(t))
<1> USE StatesAreTaskStates, Points, RunningEdges
<1>1. CASE StartTask(r)
  <2>1. ~At(r, "idle") /\ ~At(r, "transition") /\ At(r, "claim_task")
    BY <1>1 DEF StartTask, At
  <2>2. /\ ValidTransition(req[r].seen, "RUNNING") /\ CasWins(r) /\ Goto(r, "reload")
        /\ task' = [task EXCEPT ![req[r].task] = Moved(@, "RUNNING")]
    BY <1>1 DEF StartTask
  <2>3. t = req[r].task /\ task[t].status = req[r].seen /\ task'[t].status = "RUNNING"
    BY <2>1, <2>2, WonStatus
  <2>4. req'[r] = [req[r] EXCEPT !.pc = "reload"]
    BY <2>1, <2>2, GotoWrites
  <2>5. req'[r].pc = "reload" /\ req'[r].task = req[r].task
    BY <2>1, <2>4, RequestTask DEF Request
  <2> QED
    BY <2>1, <2>2, <2>3, <2>5 DEF Begins
<1>2. CASE FailUnclaimed(r) \/ FailStart(r) \/ FailExecution(r)
  <2>1. ~At(r, "idle")
    BY <1>2 DEF FailUnclaimed, FailStart, FailExecution, At
  <2>2. t = req[r].task /\ task'[t].status = "FAILED"
    BY <1>2, <2>1, WonStatus DEF FailUnclaimed, FailStart, FailExecution
  <2> QED
    BY <2>2 DEF Ends, TerminalStates
<1>3. CASE Transition(r)
  <2>1. /\ ~At(r, "idle") /\ At(r, "transition") /\ req[r].target \in TaskState
        /\ ValidTransition(req[r].seen, req[r].target)
    BY <1>3, RequestTask DEF Transition, At, Request, CopiesAreValid
  <2>2. t = req[r].task /\ task[t].status = req[r].seen /\ task'[t].status = req[r].target
    BY <1>3, <2>1, WonStatus DEF Transition
  <2>3. req[r].target \in ServiceTargets \cup {"CANCELLED"} /\ req[r].target # "WAITING_FOR_AGENT"
    BY <2>1 DEF TransitionsAreAsked, OnlyExecuteWaits
  <2> QED
    BY <2>1, <2>2, <2>3 DEF Ends, MovesElsewhere
<1>4. CASE StorePoll(r)
  BY <1>4, PollWritten DEF Row
<1>5. CASE CompleteExecution(r)
  <2>1. ~At(r, "idle") /\ req[r].seen = "WAITING_FOR_AGENT"
    BY <1>5 DEF CompleteExecution, At, CopiesAreValid, Polling
  <2>2. /\ WithResult(Row(r), r) \in TaskRow
        /\ WithResult(Row(r), r).status = Row(r).status
        /\ Moved(WithResult(Row(r), r), "WAITING_FOR_REVIEW").status = "WAITING_FOR_REVIEW"
    <3>1. WithResult(Row(r), r) \in TaskRow /\ WithResult(Row(r), r).status = Row(r).status
      BY <2>1, RequestTask, ResultRow
    <3> QED
      BY <3>1, MovedRow
  <2>3. \/ CasWins(r) /\ task' = [task EXCEPT ![req[r].task] = Moved(WithResult(@, r), "WAITING_FOR_REVIEW")]
        \/ task' = [task EXCEPT ![req[r].task] = WithResult(@, r)]
    BY <1>5 DEF CompleteExecution
  <2>4. t = req[r].task /\ CasWins(r) /\ task'[t].status = "WAITING_FOR_REVIEW"
    BY <2>1, <2>2, <2>3, RequestTask DEF Row, TypeInv, TypeOK
  <2>5. task[t].status = "WAITING_FOR_AGENT"
    BY <2>1, <2>4 DEF CasWins, Row
  <2> QED
    BY <2>4, <2>5 DEF MovesElsewhere, TerminalStates
<1>6. CASE RecordHandle(r)
  <2>1. ~At(r, "idle") /\ At(r, "record")
    BY <1>6 DEF RecordHandle, At
  <2>2. /\ WithHandle(Row(r), r) \in TaskRow
        /\ WithHandle(Row(r), r).status = Row(r).status
        /\ WithHandle(Row(r), r).reference = req[r].handle
    BY <2>1, RequestTask, HandleRow
  <2>3. /\ Moved(WithHandle(Row(r), r), "WAITING_FOR_AGENT").status = "WAITING_FOR_AGENT"
        /\ Moved(WithHandle(Row(r), r), "WAITING_FOR_AGENT").reference = req[r].handle
    BY <2>2, MovedRow
  <2>4. CASE ~(ValidTransition(req[r].seen, "WAITING_FOR_AGENT") /\ CasWins(r))
    <3>1. task' = [task EXCEPT ![req[r].task] = WithHandle(@, r)]
      BY <1>6, <2>4 DEF RecordHandle
    <3> QED
      BY <2>1, <2>2, <3>1, RequestTask DEF Row, TypeInv, TypeOK
  <2>5. CASE ValidTransition(req[r].seen, "WAITING_FOR_AGENT") /\ CasWins(r)
    <3>1. /\ task' = [task EXCEPT ![req[r].task] = Moved(WithHandle(@, r), "WAITING_FOR_AGENT")]
          /\ Return(r)
      BY <1>6, <2>5 DEF RecordHandle
    <3>2. t = req[r].task /\ task'[t] = Moved(WithHandle(Row(r), r), "WAITING_FOR_AGENT")
      BY <2>1, <3>1, RequestTask DEF Row, TypeInv, TypeOK
    <3>3. task[t].status = "RUNNING"
      BY <2>5, <3>2 DEF CasWins, Row
    <3> QED
      BY <2>1, <2>3, <3>1, <3>2, <3>3, ReturnWrites DEF Records
  <2> QED
    BY <2>4, <2>5
<1> QED
  BY <1>1, <1>2, <1>3, <1>4, <1>5, <1>6
     DEF RequestStep, BeginExecute, BeginRefresh, BeginCancel, BeginTransition,
         CheckAgent, RejectExecute, Reload, ClaimAgent, ProviderStarts, ProviderFails,
         ProviderRaises, PollProvider, PollRaises, ReleaseAgent, LockTimeout

\* How one step of a request may change a reference without changing the status.
LEMMA ReferenceMoves ==
  ASSUME TypeInv, NEW r \in Requests, RequestStep(r), NEW t \in Tasks,
         task'[t].status = task[t].status, task'[t].reference # task[t].reference
  PROVE  t = req[r].task /\ At(r, "record")
<1> USE StatesAreTaskStates
<1>1. CASE StorePoll(r)
  BY <1>1, PollWritten DEF Row
<1>2. CASE CompleteExecution(r)
  <2>1. ~At(r, "idle")
    BY <1>2 DEF CompleteExecution, At
  <2>2. WithResult(Row(r), r) \in TaskRow /\ WithResult(Row(r), r).reference = Row(r).reference
    BY <2>1, RequestTask, ResultRow
  <2>3. Moved(WithResult(Row(r), r), "WAITING_FOR_REVIEW").reference = Row(r).reference
    BY <2>2, MovedRow
  <2> QED
    BY <1>2, <2>1, <2>2, <2>3, ResultWritten DEF CompleteExecution, Row
<1>3. CASE RecordHandle(r)
  <2>1. ~At(r, "idle") /\ At(r, "record")
    BY <1>3 DEF RecordHandle, At
  <2> QED
    BY <1>3, <2>1, HandleWritten DEF RecordHandle
<1>4. CASE StartTask(r) \/ FailUnclaimed(r) \/ FailStart(r) \/ FailExecution(r) \/ Transition(r)
  <2>1. PICK new \in TaskState : task' = [task EXCEPT ![req[r].task] = Moved(@, new)]
    <3>1. ~At(r, "idle")
      BY <1>4 DEF StartTask, FailUnclaimed, FailStart, FailExecution, Transition, At
    <3>2. req[r].target \in TaskState
      BY <3>1, RequestTask DEF Request
    <3> QED
      BY <1>4, <3>2 DEF StartTask, FailUnclaimed, FailStart, FailExecution, Transition
  <2>2. ~At(r, "idle")
    BY <1>4 DEF StartTask, FailUnclaimed, FailStart, FailExecution, Transition, At
  <2>3. Moved(Row(r), new).reference = Row(r).reference
    BY <2>2, RequestTask, MovedRow
  <2> QED
    BY <2>1, <2>2, <2>3, StatusWritten DEF Row
<1> QED
  BY <1>1, <1>2, <1>3, <1>4
     DEF RequestStep, BeginExecute, BeginRefresh, BeginCancel, BeginTransition,
         CheckAgent, RejectExecute, Reload, ClaimAgent, ProviderStarts, ProviderFails,
         ProviderRaises, PollProvider, PollRaises, ReleaseAgent, LockTimeout

\* A conversation is started by the request that calls the provider.
LEMMA ConversationMoves ==
  ASSUME TypeInv, NEW r \in Requests, RequestStep(r), NEW t \in Tasks,
         conversations'[t] # conversations[t]
  PROVE  t = req[r].task /\ At(r, "calling")
<1>1. ProviderStarts(r) \/ ProviderFails(r) \/ ProviderRaises(r)
  BY DEF RequestStep, BeginExecute, BeginRefresh, BeginCancel, BeginTransition, CheckAgent,
     RejectExecute, StartTask, Reload, ClaimAgent, FailUnclaimed, RecordHandle,
     FailStart, PollProvider, PollRaises, StorePoll, CompleteExecution, FailExecution,
     ReleaseAgent, Transition, LockTimeout
<1>2. QED
  BY <1>1 DEF ProviderStarts, ProviderFails, ProviderRaises, TypeInv, TypeOK

\* A request that starts its task has just won the task, or was starting it and
\* wrote no row; what it knows of the row is as fresh as before or fresher.
LEMMA StarterMoves ==
  ASSUME TypeInv, NEW r \in Requests, RequestStep(r), req'[r].pc \in Starting
  PROVE  /\ req'[r].task = req[r].task
         /\ \/ /\ At(r, "claim_task") /\ req'[r].pc = "reload"
               /\ Row(r).status \notin {"RUNNING"} \cup TerminalStates
               /\ task'[req[r].task].status = "RUNNING"
            \/ /\ req[r].pc \in Starting /\ UNCHANGED task
               /\ At(r, "reload") => req'[r].seen = Row(r).status
               /\ ~At(r, "reload") => req'[r].seen = req[r].seen
         /\ req'[r].pc = "record" =>
              req'[r].handle # 0 /\ req'[r].handle = conversations'[req[r].task]
<1> USE StatesAreTaskStates, Points
<1>1. StartTask(r) \/ Reload(r) \/ ClaimAgent(r) \/ ProviderStarts(r) \/ ProviderFails(r)
  <2> USE DEF TypeInv, TypeOK, Starting, ClaimHeld, Idle, Request
  <2>1. CASE \E t \in Tasks : BeginExecute(r, t)
    BY <2>1 DEF BeginExecute
  <2>4. CASE \E t \in Tasks : BeginCancel(r, t)
    BY <2>4 DEF BeginCancel
  <2>5. CASE \E t \in Tasks, new \in ServiceTargets : BeginTransition(r, t, new)
    BY <2>5 DEF BeginTransition
  <2>2. CASE \E t \in Tasks : BeginRefresh(r, t)
    BY <2>2 DEF BeginRefresh
  <2>3. CASE \/ CheckAgent(r) \/ RejectExecute(r) \/ FailUnclaimed(r) \/ ProviderRaises(r)
             \/ RecordHandle(r) \/ FailStart(r) \/ PollProvider(r) \/ PollRaises(r)
             \/ StorePoll(r) \/ CompleteExecution(r) \/ FailExecution(r) \/ ReleaseAgent(r)
             \/ Transition(r) \/ LockTimeout(r)
    BY <2>3 DEF CheckAgent, RejectExecute, FailUnclaimed, ProviderRaises, RecordHandle,
       FailStart, PollProvider, PollRaises, StorePoll, CompleteExecution, FailExecution,
       ReleaseAgent, Transition, LockTimeout, Goto, Return
  <2> QED
    BY <2>1, <2>2, <2>3, <2>4, <2>5 DEF RequestStep
<1>0. /\ ~At(r, "idle") /\ ~At(r, "transition")
      /\ req[r] \in Request /\ req[r].task \in Tasks /\ Row(r) \in TaskRow
  BY <1>1, RequestTask DEF StartTask, Reload, ClaimAgent, ProviderStarts, ProviderFails, At
<1>2. CASE StartTask(r)
  <2>1. ~Return(r)
    BY ReturnWrites DEF Idle, Starting, ClaimHeld
  <2>2. /\ ValidTransition(req[r].seen, "RUNNING") /\ CasWins(r) /\ Goto(r, "reload")
        /\ task' = [task EXCEPT ![req[r].task] = Moved(@, "RUNNING")]
        /\ At(r, "claim_task")
    BY <1>2, <2>1 DEF StartTask
  <2>3. req'[r] = [req[r] EXCEPT !.pc = "reload"]
    BY <1>0, <2>2, GotoWrites
  <2>4. req'[r].pc = "reload" /\ req'[r].task = req[r].task
    BY <1>0, <2>3 DEF Request
  <2>5. task'[req[r].task].status = "RUNNING"
    <3>1. Moved(Row(r), "RUNNING").status = "RUNNING"
      BY <1>0, MovedRow
    <3> QED
      BY <1>0, <2>2, <3>1, StatusWritten
  <2>6. Row(r).status \notin {"RUNNING"} \cup TerminalStates
    BY <2>2, RunningEdges DEF CasWins
  <2> QED
    BY <2>2, <2>4, <2>5, <2>6
<1>3. CASE Reload(r)
  <2>1. req'[r] = [req[r] EXCEPT !.pc = "claim_agent", !.seen = Row(r).status,
                                 !.loaded = Row(r).execution]
    BY <1>3 DEF Reload, TypeInv, TypeOK
  <2>2. /\ req'[r].pc = "claim_agent" /\ req'[r].seen = Row(r).status
        /\ req'[r].task = req[r].task
    BY <1>0, <2>1 DEF Request
  <2> QED
    BY <1>3, <2>2 DEF Reload, At, Starting
<1>4. CASE ClaimAgent(r) \/ ProviderFails(r)
  <2>1. PICK p \in {"calling", "claim_lost", "start_failed"} : Goto(r, p)
    BY <1>4 DEF ClaimAgent, ProviderFails
  <2>2. req'[r] = [req[r] EXCEPT !.pc = p]
    BY <1>0, <2>1, GotoWrites
  <2>3. req'[r].pc = p /\ req'[r].seen = req[r].seen /\ req'[r].task = req[r].task
    BY <1>0, <2>2 DEF Request
  <2> QED
    BY <1>4, <2>3 DEF ClaimAgent, ProviderFails, At, Starting, ClaimHeld
<1>5. CASE ProviderStarts(r)
  <2>1. req'[r] = [req[r] EXCEPT !.pc = "record", !.handle = conversations[req[r].task] + 1]
    BY <1>5 DEF ProviderStarts, TypeInv, TypeOK
  <2>2. /\ req'[r].handle = conversations[req[r].task] + 1
        /\ req'[r].seen = req[r].seen /\ req'[r].task = req[r].task
    BY <1>0, <2>1 DEF Request
  <2>3. /\ conversations'[req[r].task] = conversations[req[r].task] + 1
        /\ conversations[req[r].task] + 1 # 0
    BY <1>0, <1>5 DEF ProviderStarts, TypeInv, TypeOK, References
  <2> QED
    BY <1>5, <2>2, <2>3 DEF ProviderStarts, At, Starting, ClaimHeld
<1> QED
  BY <1>1, <1>2, <1>3, <1>4, <1>5

\* Starts stay apart: nobody starts a task that is being started, and nobody but
\* its starter changes a RUNNING row other than by ending it.
LEMMA StartersStayAlone ==
  ASSUME StartInv, OnlyExecuteWaits, NEW r \in Requests, RequestStep(r)
  PROVE  OneStarter'
<1>0. TypeInv /\ CopiesAreValid /\ TransitionsAreAsked /\ OneStarter
  BY DEF StartInv
<1>1. \A q \in Requests : req[q].pc \in Starting => req[q].task \in Tasks
  BY <1>0 DEF TypeInv, BusyHasTask, At, Starting, ClaimHeld
<1>2. ASSUME NEW q \in Requests \ {r}, req'[q].pc \in Starting
      PROVE  /\ req[q].pc \in Starting /\ req'[q] = req[q] /\ Row(q)' = task'[req[q].task]
             /\ Row(q)'.status \in {"RUNNING"} \cup TerminalStates
             /\ Row(q)'.status = "RUNNING" => At(q, "reload") \/ req[q].seen = "RUNNING"
  <2>1. req[q].pc \in Starting /\ req'[q] = req[q] /\ Row(q)' = task'[req[q].task]
    BY <1>0, <1>2, OthersStay DEF Row
  <2>2. /\ Row(q).status \in {"RUNNING"} \cup TerminalStates
        /\ Row(q).status = "RUNNING" => At(q, "reload") \/ req[q].seen = "RUNNING"
    BY <1>0, <2>1 DEF OneStarter
  <2>3. CASE task'[req[q].task].status = task[req[q].task].status
    BY <2>1, <2>2, <2>3 DEF Row
  <2>4. CASE task'[req[q].task].status # task[req[q].task].status
    <3>1. /\ req[q].task = req[r].task
          /\ \/ Begins(r, req[q].task) \/ Records(r, req[q].task)
             \/ Ends(req[q].task) \/ MovesElsewhere(req[q].task)
      BY <1>0, <1>1, <2>1, <2>4, StatusMoves
    <3>2. ~Records(r, req[q].task)
      BY <1>0, <1>2, <2>1, <3>1 DEF Records, OneStarter, At, Starting, ClaimHeld
    <3>3. Ends(req[q].task)
      BY <2>2, <3>1, <3>2 DEF Begins, MovesElsewhere, Row
    <3> QED
      BY <2>1, <3>3 DEF Ends, TerminalStates
  <2> QED
    BY <2>1, <2>3, <2>4
<1>3. ASSUME req'[r].pc \in Starting
      PROVE  /\ Row(r)'.status \in {"RUNNING"} \cup TerminalStates
             /\ Row(r)'.status = "RUNNING" => req'[r].pc = "reload" \/ req'[r].seen = "RUNNING"
  BY <1>0, <1>3, StarterMoves DEF OneStarter, Row, At
<1>4. ASSUME req'[r].pc \in Starting, NEW q \in Requests \ {r}, req'[q].pc \in Starting
      PROVE  req'[r].task # req'[q].task
  BY <1>0, <1>2, <1>4, StarterMoves DEF OneStarter, Row, At
<1>5. \A q \in Requests : req'[q].pc \in Starting =>
        /\ Row(q)'.status \in {"RUNNING"} \cup TerminalStates
        /\ Row(q)'.status = "RUNNING" => req'[q].pc = "reload" \/ req'[q].seen = "RUNNING"
  BY <1>2, <1>3 DEF At
<1>6. \A p, q \in Requests :
        req'[p].pc \in Starting /\ req'[q].pc \in Starting /\ req'[p].task = req'[q].task => p = q
  BY <1>0, <1>2, <1>4 DEF OneStarter
<1> QED
  BY <1>5, <1>6 DEF OneStarter, At

\* A handle about to be recorded stays that of the newest conversation.
LEMMA HandlesStayNewest ==
  ASSUME StartInv, NEW r \in Requests, RequestStep(r)
  PROVE  HandleIsNewest'
<1>0. TypeInv /\ OneStarter /\ HandleIsNewest
  BY DEF StartInv
<1> SUFFICES ASSUME NEW q \in Requests, req'[q].pc = "record"
             PROVE  req'[q].handle # 0 /\ req'[q].handle = conversations'[req'[q].task]
  BY DEF HandleIsNewest, At
<1>1. CASE q = r
  BY <1>0, <1>1, StarterMoves DEF Starting, ClaimHeld
<1>2. CASE q # r
  <2>1. req'[q] = req[q] /\ req[q].pc = "record" /\ req[q].task \in Tasks
    BY <1>0, <1>2, OthersStay DEF TypeInv, BusyHasTask, At
  <2>2. conversations'[req[q].task] = conversations[req[q].task]
    BY <1>0, <1>2, <2>1, ConversationMoves DEF OneStarter, At, Starting, ClaimHeld
  <2> QED
    BY <1>0, <2>1, <2>2 DEF HandleIsNewest, At
<1> QED
  BY <1>1, <1>2

\* A waiting task keeps the newest conversation, or gets it.
LEMMA ConversationsStayTracked ==
  ASSUME StartInv, OnlyExecuteWaits, NEW r \in Requests, RequestStep(r)
  PROVE  TracksNewestConversation'
<1>0. /\ TypeInv /\ CopiesAreValid /\ TransitionsAreAsked /\ OneStarter
      /\ HandleIsNewest /\ TracksNewestConversation
  BY DEF StartInv
<1> SUFFICES ASSUME NEW t \in Tasks, task'[t].status = "WAITING_FOR_AGENT"
             PROVE  task'[t].reference # 0 /\ task'[t].reference = conversations'[t]
  BY DEF TracksNewestConversation, Waiting
<1>1. CASE task'[t].status = task[t].status
  <2>1. ~(t = req[r].task /\ req[r].pc \in Starting)
    BY <1>0, <1>1 DEF OneStarter, Row, TerminalStates
  <2>2. conversations'[t] = conversations[t] /\ task'[t].reference = task[t].reference
    BY <1>0, <1>1, <2>1, ConversationMoves, ReferenceMoves DEF At, Starting, ClaimHeld
  <2> QED
    BY <1>0, <1>1, <2>2 DEF TracksNewestConversation, Waiting
<1>2. CASE task'[t].status # task[t].status
  <2>1. t = req[r].task /\ Records(r, t)
    BY <1>0, <1>2, StatusMoves DEF Begins, Ends, MovesElsewhere, OnlyExecuteWaits, TerminalStates
  <2>2. conversations'[t] = conversations[t]
    BY <1>0, <2>1, ConversationMoves DEF Records, At
  <2> QED
    BY <1>0, <2>1, <2>2 DEF Records, HandleIsNewest
<1> QED
  BY <1>1, <1>2

\* StartInv is inductive.
LEMMA StartInductive ==
  ASSUME OnlyExecuteWaits, StartInv, [Next]_vars
  PROVE  StartInv'
<1>0. TypeInv'
  BY TypeInductive DEF StartInv
<1>1. CASE \E r \in Requests : RequestStep(r)
  BY <1>0, <1>1, CopiesStep, AskedStep, StartersStayAlone, HandlesStayNewest,
     ConversationsStayTracked DEF StartInv
<1>2. CASE (\E t \in Tasks : PatienceRunsOut(t)) \/ UNCHANGED vars
  <2>1. /\ UNCHANGED <<req, conversations>>
        /\ \A t \in Tasks : /\ task'[t].status = task[t].status
                            /\ task'[t].reference = task[t].reference
    BY <1>2 DEF PatienceRunsOut, vars, StartInv, TypeInv, TypeOK, TaskRow
  <2>2. \A q \in Requests : ~At(q, "idle") => req[q].task \in Tasks
    BY DEF StartInv, TypeInv, BusyHasTask
  <2>3. CopiesAreValid' /\ TransitionsAreAsked'
    BY <2>1 DEF StartInv, CopiesAreValid, TransitionsAreAsked, At
  <2>4. OneStarter'
    BY <2>1, <2>2 DEF StartInv, OneStarter, At, Row, Starting, ClaimHeld
  <2>5. HandleIsNewest' /\ TracksNewestConversation'
    BY <2>1 DEF StartInv, HandleIsNewest, TracksNewestConversation, Waiting, At
  <2> QED
    BY <1>0, <2>3, <2>4, <2>5 DEF StartInv
<1>3. CASE Crash
  <2>1. UNCHANGED <<task, conversations>> /\ \A q \in Requests : req'[q] = Idle
    BY <1>3 DEF Crash
  <2>2. CopiesAreValid' /\ TransitionsAreAsked' /\ OneStarter' /\ HandleIsNewest'
    BY <2>1 DEF CopiesAreValid, TransitionsAreAsked, OneStarter, HandleIsNewest, At, Idle,
                Polling, Starting, ClaimHeld
  <2>3. TracksNewestConversation'
    BY <2>1 DEF StartInv, TracksNewestConversation, Waiting
  <2> QED
    BY <1>0, <2>2, <2>3 DEF StartInv
<1> QED
  BY <1>1, <1>2, <1>3, NextSplits

\* At the start every request is idle and no task waits.
LEMMA StartInit == Init => StartInv
<1>1. Init => CopiesAreValid /\ TransitionsAreAsked /\ OneStarter /\ HandleIsNewest
  BY DEF Init, CopiesAreValid, TransitionsAreAsked, OneStarter, HandleIsNewest, At, Idle,
         Polling, Starting, ClaimHeld
<1>2. Init => TracksNewestConversation
  BY ExecutionAssumption DEF Init, TracksNewestConversation, Waiting, NotStarted
<1>3. QED
  BY <1>1, <1>2, TypeInit DEF StartInv

\* A waiting task holds the handle of the newest conversation started for it,
\* however many requests refresh it at once, whatever is cancelled and whatever
\* fails, as long as nobody but execute_task sends a task to WAITING_FOR_AGENT.
THEOREM HandlesAreCurrent ==
  ASSUME OnlyExecuteWaits
  PROVE  Spec => []TracksNewestConversation
<1>1. StartInv /\ [Next]_vars => StartInv'
  BY StartInductive
<1>2. StartInv => TracksNewestConversation
  BY DEF StartInv
<1>3. QED
  BY <1>1, <1>2, StartInit, PTL DEF Spec

\* Where no lock times out and nothing fails, a request is never cut short.
LEMMA NothingIsCutShort ==
  ASSUME Calm, NEW r \in Requests
  PROVE  ~LockTimeout(r) /\ ~ProviderRaises(r) /\ ~PollRaises(r) /\ ~Crash
BY DEF Calm, LockTimeout, MayWrite, ProviderRaises, PollRaises, Crash

\* A start goes on until its task is not RUNNING any more.
LEMMA StartGoesOn ==
  ASSUME Calm, StartInv, NEW r \in Requests, RequestStep(r), req[r].pc \in Starting,
         Row(r).status = "RUNNING", task'[req[r].task].status = "RUNNING"
  PROVE  req'[r].pc \in Starting /\ req'[r].task = req[r].task
<1> USE StatesAreTaskStates, Points
<1>0. /\ TypeInv /\ ~At(r, "idle") /\ ~At(r, "transition")
      /\ req[r] \in Request /\ req[r].task \in Tasks /\ Row(r) \in TaskRow
  BY RequestTask DEF StartInv, At, Starting, ClaimHeld
<1>1. \/ Reload(r) \/ ClaimAgent(r) \/ FailUnclaimed(r) \/ ProviderStarts(r)
      \/ ProviderFails(r) \/ RecordHandle(r) \/ FailStart(r)
  BY NothingIsCutShort DEF RequestStep, BeginExecute, BeginRefresh, BeginCancel,
     BeginTransition, CheckAgent, RejectExecute, StartTask, PollProvider, StorePoll,
     CompleteExecution, FailExecution, ReleaseAgent, Transition, At, Starting, ClaimHeld
<1>2. CASE Reload(r) \/ ProviderStarts(r)
  BY <1>0, <1>2 DEF Reload, ProviderStarts, TypeInv, TypeOK, Request, Starting, ClaimHeld
<1>3. CASE ClaimAgent(r) \/ ProviderFails(r)
  <2>1. \E p \in {"calling", "claim_lost", "start_failed"} : Goto(r, p)
    BY <1>3 DEF ClaimAgent, ProviderFails
  <2> QED
    BY <1>0, <2>1 DEF Goto, TypeInv, TypeOK, Request, Starting, ClaimHeld
<1>4. CASE FailUnclaimed(r) \/ FailStart(r) \/ RecordHandle(r)
  <2>1. req[r].seen = "RUNNING" /\ CasWins(r)
    BY <1>4 DEF StartInv, OneStarter, FailUnclaimed, FailStart, RecordHandle, At, CasWins
  <2>2. \/ task' = [task EXCEPT ![req[r].task] = Moved(Row(r), "FAILED")]
        \/ task' = [task EXCEPT ![req[r].task] = Moved(WithHandle(Row(r), r), "WAITING_FOR_AGENT")]
    BY <1>4, <2>1, RunningEdges, ServiceMoves DEF FailUnclaimed, FailStart, RecordHandle, Row
  <2>3. /\ Moved(Row(r), "FAILED").status = "FAILED"
        /\ Moved(WithHandle(Row(r), r), "WAITING_FOR_AGENT").status = "WAITING_FOR_AGENT"
    BY <1>0, HandleRow, MovedRow
  <2>4. task'[req[r].task].status # "RUNNING"
    BY <1>0, <2>2, <2>3 DEF TypeInv, TypeOK
  <2> QED
    BY <2>4
<1> QED
  BY <1>1, <1>2, <1>3, <1>4

\* Every step of a request leaves every RUNNING task served.
LEMMA StartsStayServed ==
  ASSUME Calm, OnlyExecuteStarts, StartInv, StartsAreServed, NEW r \in Requests, RequestStep(r)
  PROVE  StartsAreServed'
<1>0. TypeInv /\ CopiesAreValid /\ TransitionsAreAsked /\ OnlyExecuteWaits
  BY DEF StartInv, OnlyExecuteStarts
<1> SUFFICES ASSUME NEW t \in Tasks, task'[t].status = "RUNNING"
             PROVE  \E q \in Requests : req'[q].pc \in Starting /\ req'[q].task = t
  BY DEF StartsAreServed
<1>1. CASE task[t].status = "RUNNING"
  <2> PICK q \in Requests : req[q].pc \in Starting /\ req[q].task = t
    BY <1>1 DEF StartsAreServed
  <2>1. CASE q = r
    BY <1>1, <2>1, StartGoesOn DEF Row
  <2>2. CASE q # r
    BY <1>0, <2>2, OthersStay
  <2> QED
    BY <2>1, <2>2
<1>2. CASE task[t].status # "RUNNING"
  <2>1. t = req[r].task /\ Begins(r, t)
    BY <1>0, <1>2, StatusMoves DEF Records, Ends, MovesElsewhere, OnlyExecuteStarts, TerminalStates
  <2> QED
    BY <2>1 DEF Begins, Starting
<1> QED
  BY <1>1, <1>2

\* Every RUNNING task is being started by exactly one request that goes on, on row
\* locks and without crashes and unexpected exceptions, however many requests
\* refresh it and whatever is cancelled, as long as only execute_task starts tasks.
THEOREM StartsAreCarriedThrough ==
  ASSUME OnlyExecuteStarts, Calm
  PROVE  Spec => []RunningIsServed
<1>1. StartInv /\ StartsAreServed /\ [Next]_vars => StartInv' /\ StartsAreServed'
  <2> SUFFICES ASSUME StartInv, StartsAreServed, [Next]_vars
               PROVE  StartInv' /\ StartsAreServed'
    OBVIOUS
  <2>1. StartInv'
    BY StartInductive DEF OnlyExecuteStarts
  <2>2. CASE \E r \in Requests : RequestStep(r)
    BY <2>1, <2>2, StartsStayServed
  <2>3. CASE (\E t \in Tasks : PatienceRunsOut(t)) \/ UNCHANGED vars
    <3>1. UNCHANGED req /\ \A t \in Tasks : task'[t].status = task[t].status
      BY <2>3 DEF PatienceRunsOut, vars, StartInv, TypeInv, TypeOK, TaskRow
    <3> QED
      BY <2>1, <3>1 DEF StartsAreServed
  <2>4. ~Crash
    BY DEF Calm, Crash
  <2> QED
    BY <2>1, <2>2, <2>3, <2>4, NextSplits
<1>2. StartInv /\ StartsAreServed => RunningIsServed
  BY DEF StartInv, OneStarter, StartsAreServed, RunningIsServed
<1>3. Init => StartsAreServed
  BY ExecutionAssumption DEF Init, StartsAreServed, NotStarted
<1>4. QED
  BY <1>1, <1>2, <1>3, StartInit, PTL DEF Spec

-----------------------------------------------------------------------------
(* Locks.                                                                   *)

\* A write transaction is opened by the claim of an agent, which waits for its turn.
LEMMA WriteOpens ==
  ASSUME TypeInv, NEW r \in Requests, RequestStep(r), InWrite(r)'
  PROVE  InWrite(r) \/ MayWrite(r)
<1> USE DEF InWrite, HoldsClaim, ClaimHeld, At
<1>1. CASE ClaimAgent(r)
  BY <1>1 DEF ClaimAgent, MayClaim
<1>2. CASE ProviderStarts(r) \/ ProviderFails(r)
  BY <1>2 DEF ProviderStarts, ProviderFails
<1>3. CASE \E t \in Tasks : BeginExecute(r, t)
  BY <1>3 DEF BeginExecute, TypeInv, TypeOK, Idle
<1>4. CASE \E t \in Tasks : BeginRefresh(r, t)
  BY <1>4 DEF BeginRefresh, TypeInv, TypeOK, Idle
<1>5. CASE \E t \in Tasks : BeginCancel(r, t)
  BY <1>5 DEF BeginCancel, TypeInv, TypeOK, Idle
<1>6. CASE \E t \in Tasks, new \in ServiceTargets : BeginTransition(r, t, new)
  BY <1>6 DEF BeginTransition, TypeInv, TypeOK, Idle
<1>7. CASE \/ CheckAgent(r) \/ RejectExecute(r) \/ StartTask(r) \/ Reload(r) \/ FailUnclaimed(r)
           \/ ProviderRaises(r) \/ RecordHandle(r) \/ FailStart(r) \/ PollProvider(r)
           \/ PollRaises(r) \/ StorePoll(r) \/ CompleteExecution(r) \/ FailExecution(r)
           \/ ReleaseAgent(r) \/ Transition(r) \/ LockTimeout(r)
  BY <1>7 DEF CheckAgent, RejectExecute, StartTask, Reload, FailUnclaimed, ProviderRaises,
     RecordHandle, FailStart, PollProvider, PollRaises, StorePoll, CompleteExecution,
     FailExecution, ReleaseAgent, Transition, LockTimeout, Goto, Return, TypeInv, TypeOK,
     Idle, Request
<1> QED
  BY <1>1, <1>2, <1>3, <1>4, <1>5, <1>6, <1>7 DEF RequestStep

\* Whoever holds the write lock of the database, or a claim, goes on without waiting
\* for a lock, for both lock scopes: requests never wait for each other in a cycle.
THEOREM LocksFormNoCycle == Spec => []HoldersNeverWait
<1>1. TypeInv /\ HoldersNeverWait /\ [Next]_vars => HoldersNeverWait'
  <2> SUFFICES ASSUME TypeInv, HoldersNeverWait, [Next]_vars, LockScope # "row"
               PROVE  HoldersNeverWait'
    BY DEF HoldersNeverWait, MayWrite
  <2>1. \A p, q \in Requests : InWrite(p) /\ InWrite(q) => p = q
    BY DEF HoldersNeverWait, MayWrite
  <2>2. CASE \E r \in Requests : RequestStep(r)
    <3> PICK r \in Requests : RequestStep(r)
      BY <2>2
    <3>1. \A q \in Requests \ {r} : InWrite(q)' => InWrite(q)
      BY OthersStay DEF InWrite, HoldsClaim, At
    <3>2. InWrite(r)' => \A q \in Requests \ {r} : ~InWrite(q)
      BY <2>1, WriteOpens DEF MayWrite
    <3> QED
      BY <2>1, <3>1, <3>2 DEF HoldersNeverWait, MayWrite
  <2>3. CASE (\E t \in Tasks : PatienceRunsOut(t)) \/ UNCHANGED vars
    <3>1. UNCHANGED req
      BY <2>3 DEF PatienceRunsOut, vars
    <3> QED
      BY <3>1 DEF HoldersNeverWait, MayWrite, InWrite, HoldsClaim, At
  <2>4. CASE Crash
    BY <2>4 DEF Crash, HoldersNeverWait, MayWrite, InWrite, HoldsClaim, ClaimHeld, At, Idle
  <2> QED
    BY <2>2, <2>3, <2>4, NextSplits
<1>2. Init => HoldersNeverWait
  BY DEF Init, HoldersNeverWait, InWrite, HoldsClaim, ClaimHeld, At, Idle
<1>3. QED
  BY <1>1, <1>2, TypeInit, TypeInductive, PTL DEF Spec
=============================================================================
