---------------------------- MODULE Outcome_proofs ----------------------------
(***************************************************************************)
(* What an execution leaves behind, for every number of tasks, agents and  *)
(* requests.  Whatever the clients do, a result is backed by a             *)
(* conversation and no late flush takes progress back.  While the clients  *)
(* keep to Discipline, a task goes to review on the answer of its current  *)
(* execution only; and, where tasks are executed once, no lock times out   *)
(* and no process dies, every claim is given back.                         *)
(***************************************************************************)
EXTENDS Exclusivity_proofs

-----------------------------------------------------------------------------
(* How a step of a request may change a row, column by column.              *)

\* A won compare-and-swap of a transition that flushes nothing else.
StatusWrite(r, t) ==
  /\ CasWins(r)
  /\ task'[t].reference = task[t].reference
  /\ task'[t].execution = task[t].execution
  /\ task'[t].result = task[t].result
  /\ \/ /\ At(r, "claim_task") /\ task'[t].status = "RUNNING"
        /\ ValidTransition(req[r].seen, "RUNNING")
     \/ /\ At(r, "claim_lost") \/ At(r, "start_failed")
        /\ task'[t].status = "FAILED"
     \/ /\ At(r, "fail") /\ task'[t].status = "FAILED"
        /\ req'[r].pc = "release" /\ req'[r].task = t
     \/ At(r, "transition") /\ task'[t].status = req[r].target

\* A handle that is flushed, with or without the transition.
HandleWrite(r, t) ==
  /\ At(r, "record")
  /\ \/ task'[t].status = task[t].status
     \/ CasWins(r) /\ task'[t].status = "WAITING_FOR_AGENT"
  /\ task'[t].reference = req[r].handle
  /\ task'[t].execution = Flushed(task[t].execution, req[r].loaded, "running")
  /\ task'[t].result = task[t].result

\* An answer of the provider that is flushed.
PollWrite(r, t) ==
  /\ At(r, "store")
  /\ task'[t].status = task[t].status
  /\ task'[t].reference = task[t].reference
  /\ task'[t].execution = Flushed(task[t].execution, req[r].loaded, req[r].polled)
  /\ task'[t].result = task[t].result

\* A completion that is flushed, with or without the transition.
ResultWrite(r, t) ==
  /\ At(r, "complete")
  /\ \/ task'[t].status = task[t].status
     \/ /\ CasWins(r) /\ task'[t].status = "WAITING_FOR_REVIEW"
        /\ req'[r].pc = "release" /\ req'[r].task = t
  /\ task'[t].reference = task[t].reference
  /\ task'[t].execution = Flushed(task[t].execution, req[r].loaded, "completed")
  /\ task'[t].result

\* Every way a step of a request may change a row.
RowChange(r, t) ==
  StatusWrite(r, t) \/ HandleWrite(r, t) \/ PollWrite(r, t) \/ ResultWrite(r, t)

\* A request that moves on keeps everything but its point.
LEMMA GotoKeeps ==
  ASSUME TypeInv, NEW r \in Requests, NEW p, Goto(r, p)
  PROVE  /\ req'[r].pc = p /\ req'[r].task = req[r].task /\ req'[r].seen = req[r].seen
         /\ req'[r].loaded = req[r].loaded /\ req'[r].handle = req[r].handle
BY DEF Goto, TypeInv, TypeOK, Request

\* The columns a flush of a handle writes.
LEMMA HandleColumns ==
  ASSUME NEW row \in TaskRow, NEW r, req[r] \in Request
  PROVE  /\ WithHandle(row, r) \in TaskRow
         /\ WithHandle(row, r).status = row.status
         /\ WithHandle(row, r).reference = req[r].handle
         /\ WithHandle(row, r).execution = Flushed(row.execution, req[r].loaded, "running")
         /\ WithHandle(row, r).result = row.result
BY HandleRow DEF WithHandle, TaskRow

\* The columns a flush of a completion writes.
LEMMA ResultColumns ==
  ASSUME NEW row \in TaskRow, NEW r, req[r] \in Request
  PROVE  /\ WithResult(row, r) \in TaskRow
         /\ WithResult(row, r).status = row.status
         /\ WithResult(row, r).reference = row.reference
         /\ WithResult(row, r).execution = Flushed(row.execution, req[r].loaded, "completed")
         /\ WithResult(row, r).result
BY ResultRow DEF WithResult, TaskRow

\* The transitions that flush nothing else.
LEMMA StatusRow ==
  ASSUME TypeInv, NEW r \in Requests, NEW t \in Tasks, task'[t] # task[t],
         StartTask(r) \/ FailUnclaimed(r) \/ FailStart(r) \/ FailExecution(r) \/ Transition(r)
  PROVE  t = req[r].task /\ StatusWrite(r, t)
<1> USE StatesAreTaskStates
<1>0. ~At(r, "idle")
  BY DEF StartTask, FailUnclaimed, FailStart, FailExecution, Transition, At
<1>1. req[r] \in Request /\ req[r].task \in Tasks /\ Row(r) \in TaskRow
  BY <1>0, RequestTask
<1>2. PICK new \in TaskState :
        /\ CasWins(r) /\ task' = [task EXCEPT ![req[r].task] = Moved(@, new)]
        /\ \/ At(r, "claim_task") /\ new = "RUNNING" /\ ValidTransition(req[r].seen, "RUNNING")
           \/ (At(r, "claim_lost") \/ At(r, "start_failed")) /\ new = "FAILED"
           \/ At(r, "fail") /\ new = "FAILED" /\ Goto(r, "release")
           \/ At(r, "transition") /\ new = req[r].target
  <2>1. CASE StartTask(r)
    BY <2>1 DEF StartTask
  <2>2. CASE FailUnclaimed(r)
    BY <2>2 DEF FailUnclaimed
  <2>3. CASE FailStart(r)
    BY <2>3 DEF FailStart
  <2>4. CASE FailExecution(r)
    BY <2>4 DEF FailExecution
  <2>5. CASE Transition(r)
    BY <1>1, <2>5 DEF Transition, Request
  <2> QED
    BY <2>1, <2>2, <2>3, <2>4, <2>5
<1>3. /\ task'[req[r].task] = Moved(Row(r), new)
      /\ \A u \in Tasks \ {req[r].task} : task'[u] = task[u]
  BY <1>0, <1>2, StatusWritten
<1>4. t = req[r].task /\ Row(r) = task[t]
  BY <1>3 DEF Row
<1>5. /\ task'[t].status = new
      /\ task'[t].reference = task[t].reference
      /\ task'[t].execution = task[t].execution
      /\ task'[t].result = task[t].result
  <2>1. /\ Moved(Row(r), new).status = new
        /\ Moved(Row(r), new).reference = Row(r).reference
        /\ Moved(Row(r), new).execution = Row(r).execution
        /\ Moved(Row(r), new).result = Row(r).result
    BY <1>1, MovedRow
  <2> QED
    BY <1>3, <1>4, <2>1
<1>6. Goto(r, "release") => req'[r].pc = "release" /\ req'[r].task = t
  BY <1>4, GotoKeeps
<1> QED
  <2>1. CASE (At(r, "claim_lost") \/ At(r, "start_failed")) /\ new = "FAILED"
    BY <1>2, <1>4, <1>5, <2>1 DEF StatusWrite
  <2>2. CASE At(r, "fail") /\ new = "FAILED" /\ Goto(r, "release")
    BY <1>2, <1>4, <1>5, <1>6, <2>2 DEF StatusWrite
  <2>3. CASE At(r, "claim_task") /\ new = "RUNNING" /\ ValidTransition(req[r].seen, "RUNNING")
    BY <1>2, <1>4, <1>5, <2>3 DEF StatusWrite
  <2>4. CASE At(r, "transition") /\ new = req[r].target
    BY <1>2, <1>4, <1>5, <2>4 DEF StatusWrite
  <2> QED
    BY <1>2, <2>1, <2>2, <2>3, <2>4

\* The steps that flush a handle, an answer or a completion.
LEMMA FlushRow ==
  ASSUME TypeInv, NEW r \in Requests, NEW t \in Tasks, task'[t] # task[t],
         RecordHandle(r) \/ StorePoll(r) \/ CompleteExecution(r)
  PROVE  t = req[r].task /\ (HandleWrite(r, t) \/ PollWrite(r, t) \/ ResultWrite(r, t))
<1> USE StatesAreTaskStates
<1>0. ~At(r, "idle")
  BY DEF RecordHandle, StorePoll, CompleteExecution, At
<1>1. req[r] \in Request /\ req[r].task \in Tasks /\ Row(r) \in TaskRow
  BY <1>0, RequestTask
<1>2. CASE RecordHandle(r)
  <2>1. \/ CasWins(r) /\ task' = [task EXCEPT ![req[r].task] = Moved(WithHandle(Row(r), r), "WAITING_FOR_AGENT")]
        \/ task' = [task EXCEPT ![req[r].task] = WithHandle(Row(r), r)]
    BY <1>2 DEF RecordHandle, Row
  <2>2. /\ Moved(WithHandle(Row(r), r), "WAITING_FOR_AGENT") \in TaskRow
        /\ WithHandle(Row(r), r) \in TaskRow
    BY <1>1, HandleColumns, MovedRow
  <2>3. /\ \A u \in Tasks \ {req[r].task} : task'[u] = task[u]
        /\ \/ CasWins(r) /\ task'[req[r].task] = Moved(WithHandle(Row(r), r), "WAITING_FOR_AGENT")
           \/ task'[req[r].task] = WithHandle(Row(r), r)
    BY <1>1, <2>1, <2>2, OneRowWritten
  <2>4. t = req[r].task /\ Row(r) = task[t] /\ At(r, "record")
    BY <1>2, <2>3 DEF Row, RecordHandle
  <2>5. LET row == WithHandle(Row(r), r) IN
          /\ Moved(row, "WAITING_FOR_AGENT").status = "WAITING_FOR_AGENT"
          /\ Moved(row, "WAITING_FOR_AGENT").reference = row.reference
          /\ Moved(row, "WAITING_FOR_AGENT").execution = row.execution
          /\ Moved(row, "WAITING_FOR_AGENT").result = row.result
    BY <2>2, MovedRow
  <2> QED
    BY <1>1, <2>3, <2>4, <2>5, HandleColumns DEF HandleWrite
<1>3. CASE StorePoll(r)
  <2>1. t = req[r].task
    BY <1>3, PollWritten
  <2>2. task'[t] = [task[t] EXCEPT !.execution = Flushed(@, req[r].loaded, req[r].polled)]
    BY <1>3, <2>1 DEF StorePoll, TypeInv, TypeOK
  <2> QED
    BY <1>1, <1>3, <2>1, <2>2 DEF PollWrite, StorePoll, Row, TaskRow
<1>4. CASE CompleteExecution(r)
  <2>1. \/ /\ CasWins(r) /\ Goto(r, "release")
           /\ task' = [task EXCEPT ![req[r].task] = Moved(WithResult(Row(r), r), "WAITING_FOR_REVIEW")]
        \/ task' = [task EXCEPT ![req[r].task] = WithResult(Row(r), r)]
    BY <1>4 DEF CompleteExecution, Row
  <2>2. /\ Moved(WithResult(Row(r), r), "WAITING_FOR_REVIEW") \in TaskRow
        /\ WithResult(Row(r), r) \in TaskRow
    BY <1>1, ResultColumns, MovedRow
  <2>3. /\ \A u \in Tasks \ {req[r].task} : task'[u] = task[u]
        /\ \/ /\ CasWins(r) /\ Goto(r, "release")
              /\ task'[req[r].task] = Moved(WithResult(Row(r), r), "WAITING_FOR_REVIEW")
           \/ task'[req[r].task] = WithResult(Row(r), r)
    BY <1>1, <2>1, <2>2, OneRowWritten
  <2>4. t = req[r].task /\ Row(r) = task[t] /\ At(r, "complete")
    BY <1>4, <2>3 DEF Row, CompleteExecution
  <2>5. Goto(r, "release") => req'[r].pc = "release" /\ req'[r].task = t
    BY <2>4, GotoKeeps
  <2>6. LET row == WithResult(Row(r), r) IN
          /\ Moved(row, "WAITING_FOR_REVIEW").status = "WAITING_FOR_REVIEW"
          /\ Moved(row, "WAITING_FOR_REVIEW").reference = row.reference
          /\ Moved(row, "WAITING_FOR_REVIEW").execution = row.execution
          /\ Moved(row, "WAITING_FOR_REVIEW").result = row.result
    BY <2>2, MovedRow
  <2> QED
    BY <1>1, <2>3, <2>4, <2>5, <2>6, ResultColumns DEF ResultWrite
<1> QED
  BY <1>2, <1>3, <1>4

\* Every way a step of a request may change a row.
LEMMA RowWritten ==
  ASSUME TypeInv, NEW r \in Requests, RequestStep(r), NEW t \in Tasks, task'[t] # task[t]
  PROVE  t = req[r].task /\ RowChange(r, t)
<1>1. \/ StartTask(r) \/ FailUnclaimed(r) \/ FailStart(r) \/ FailExecution(r) \/ Transition(r)
      \/ RecordHandle(r) \/ StorePoll(r) \/ CompleteExecution(r)
  BY DEF RequestStep, BeginExecute, BeginRefresh, BeginCancel, BeginTransition, CheckAgent,
     RejectExecute, Reload, ClaimAgent, ProviderStarts, ProviderFails, ProviderRaises,
     PollProvider, PollRaises, ReleaseAgent, LockTimeout
<1> QED
  BY <1>1, StatusRow, FlushRow DEF RowChange

\* The environment changes started_at of a row at most.
LEMMA EnvironmentWrites ==
  ASSUME TypeInv, (\E u \in Tasks : PatienceRunsOut(u)) \/ Crash \/ UNCHANGED vars
  PROVE  /\ \A t \in Tasks : /\ task'[t].status = task[t].status
                             /\ task'[t].reference = task[t].reference
                             /\ task'[t].execution = task[t].execution
                             /\ task'[t].result = task[t].result
         /\ UNCHANGED <<agent, conversations>>
         /\ UNCHANGED req \/ \A q \in Requests : req'[q] = Idle
BY DEF TypeInv, TypeOK, TaskRow, PatienceRunsOut, Crash, vars

\* What a request holds after one of its steps: nothing, what the row says, or what
\* it held; a refresh polls what the row says or what it polled.
LEMMA CopyMoves ==
  ASSUME TypeInv, NEW r \in Requests, RequestStep(r), req'[r].pc # "idle"
  PROVE  /\ req'[r].task \in Tasks
         /\ \/ req'[r].loaded = "none"
            \/ /\ req'[r].loaded = task[req'[r].task].execution
               /\ UNCHANGED task
            \/ ~At(r, "idle") /\ req'[r].task = req[r].task /\ req'[r].loaded = req[r].loaded
         /\ req'[r].pc \in Polling =>
              /\ UNCHANGED task
              /\ \/ /\ req'[r].handle = task[req'[r].task].reference
                    /\ task[req'[r].task].reference # 0
                 \/ /\ req[r].pc \in Polling
                    /\ req'[r].task = req[r].task /\ req'[r].handle = req[r].handle
<1>1. CASE \E t \in Tasks : BeginExecute(r, t)
  BY <1>1 DEF BeginExecute, Idle, Polling, TypeInv, TypeOK
<1>2. CASE \E t \in Tasks : BeginRefresh(r, t)
  BY <1>2 DEF BeginRefresh, InFlight, Idle, TypeInv, TypeOK
<1>3. CASE \E t \in Tasks : BeginCancel(r, t)
  BY <1>3 DEF BeginCancel, Idle, Polling, TypeInv, TypeOK
<1>4. CASE \E t \in Tasks, new \in ServiceTargets : BeginTransition(r, t, new)
  BY <1>4 DEF BeginTransition, Idle, Polling, TypeInv, TypeOK
<1>5. CASE \/ RejectExecute(r) \/ FailUnclaimed(r) \/ ProviderRaises(r) \/ PollRaises(r)
           \/ StorePoll(r) \/ ReleaseAgent(r) \/ Transition(r) \/ LockTimeout(r)
  BY <1>5, ReturnWrites DEF RejectExecute, FailUnclaimed, ProviderRaises, PollRaises, StorePoll,
     ReleaseAgent, Transition, LockTimeout, Idle
<1>6. CASE \/ CheckAgent(r) \/ StartTask(r) \/ ClaimAgent(r) \/ ProviderFails(r)
           \/ RecordHandle(r) \/ FailStart(r) \/ CompleteExecution(r) \/ FailExecution(r)
  <2>1. ~Return(r)
    BY ReturnWrites DEF Idle
  <2>2. /\ ~At(r, "idle")
        /\ \E p \in {"claim_task", "reload", "calling", "claim_lost", "start_failed", "release"} : Goto(r, p)
    BY <1>6, <2>1 DEF CheckAgent, StartTask, ClaimAgent, ProviderFails, RecordHandle, FailStart,
       CompleteExecution, FailExecution, At
  <2>3. req[r].task \in Tasks
    BY <2>2, RequestTask
  <2> QED
    BY <2>2, <2>3, GotoKeeps DEF Polling
<1>7. CASE PollProvider(r)
  <2>1. ~At(r, "idle") /\ req[r].pc \in Polling /\ UNCHANGED task
    BY <1>7 DEF PollProvider, At, Polling
  <2>2. /\ req[r].task \in Tasks /\ req'[r].task = req[r].task
        /\ req'[r].handle = req[r].handle /\ req'[r].loaded = req[r].loaded
    BY <1>7, <2>1, RequestTask DEF PollProvider, Goto, TypeInv, TypeOK, Request
  <2> QED
    BY <2>1, <2>2
<1>8. CASE Reload(r) \/ ProviderStarts(r)
  <2>1. ~At(r, "idle") /\ UNCHANGED task
    BY <1>8 DEF Reload, ProviderStarts, At
  <2>2. /\ req[r].task \in Tasks /\ req'[r].task = req[r].task
        /\ req'[r].pc \notin Polling
        /\ req'[r].loaded \in {req[r].loaded, task[req[r].task].execution}
    BY <1>8, <2>1, RequestTask DEF Reload, ProviderStarts, Row, TypeInv, TypeOK, Request, Polling
  <2> QED
    BY <2>1, <2>2
<1> QED
  BY <1>1, <1>2, <1>3, <1>4, <1>5, <1>6, <1>7, <1>8 DEF RequestStep

-----------------------------------------------------------------------------
(* Results: what a row shows is backed by a conversation, whatever clients  *)
(* do.                                                                      *)

\* A flush of something that is not "none" over a copy that is backed.
LEMMA FlushIsBacked ==
  ASSUME NEW current, NEW loaded, NEW new,
         new # "none", loaded # "none" => current # "none"
  PROVE  /\ Flushed(current, loaded, new) # "none"
         /\ Flushed(current, loaded, new) \in {current, new}
BY DEF Flushed

\* A row keeps a handle and an execution status once it has them, and its result.
LEMMA RowsGrow ==
  ASSUME StartInv, CopiesAreBacked, NEW r \in Requests, RequestStep(r), NEW t \in Tasks
  PROVE  /\ task[t].reference # 0 => task'[t].reference # 0
         /\ task[t].execution # "none" => task'[t].execution # "none"
         /\ task[t].result => task'[t].result
<1>1. CASE task'[t] = task[t]
  BY <1>1
<1>2. CASE task'[t] # task[t]
  <2>1. t = req[r].task /\ RowChange(r, t)
    BY <1>2, RowWritten DEF StartInv
  <2>2. CASE StatusWrite(r, t)
    BY <2>2 DEF StatusWrite
  <2>3. CASE HandleWrite(r, t)
    <3>1. req[r].handle # 0
      BY <2>3 DEF StartInv, HandleIsNewest, HandleWrite
    <3>2. req[r].loaded # "none" => task[t].execution # "none"
      BY <2>1, <2>3 DEF CopiesAreBacked, HandleWrite, At, Row
    <3> QED
      BY <2>3, <3>1, <3>2, FlushIsBacked DEF HandleWrite
  <2>4. CASE PollWrite(r, t) \/ ResultWrite(r, t)
    <3>1. req[r].loaded # "none" => task[t].execution # "none"
      BY <2>1, <2>4 DEF CopiesAreBacked, PollWrite, ResultWrite, At, Row
    <3>2. At(r, "store") => req[r].polled # "none"
      BY <2>4 DEF StartInv, TypeInv, BusyHasTask, At
    <3> QED
      BY <2>4, <3>1, <3>2, FlushIsBacked DEF PollWrite, ResultWrite
  <2> QED
    BY <2>1, <2>2, <2>3, <2>4 DEF RowChange
<1> QED
  BY <1>1, <1>2

\* What requests loaded stays in the rows.
LEMMA CopiesStayBacked ==
  ASSUME StartInv, CopiesAreBacked, NEW r \in Requests, RequestStep(r)
  PROVE  CopiesAreBacked'
<1>0. TypeInv
  BY DEF StartInv
<1> SUFFICES ASSUME NEW q \in Requests, req'[q].pc # "idle"
             PROVE  /\ req'[q].loaded # "none" => task'[req'[q].task].execution # "none"
                    /\ req'[q].pc \in Polling => task'[req'[q].task].reference # 0
  BY DEF CopiesAreBacked, At, Row
<1>1. CASE q = r
  <2>1. /\ req'[r].task \in Tasks
        /\ req'[r].loaded # "none" => task[req'[r].task].execution # "none"
    BY <1>0, <1>1, CopyMoves DEF CopiesAreBacked, Row
  <2>2. req'[r].pc \in Polling => task[req'[r].task].reference # 0
    BY <1>0, <1>1, CopyMoves DEF CopiesAreBacked, Row, At, Polling
  <2> QED
    BY <1>1, <2>1, <2>2, RowsGrow
<1>2. CASE q # r
  <2>1. req'[q] = req[q] /\ req[q].task \in Tasks
    BY <1>0, <1>2, OthersStay, Placed
  <2> QED
    BY <2>1, RowsGrow DEF CopiesAreBacked, At, Row
<1> QED
  BY <1>1, <1>2

\* The states that come after a review are entered from it.
LEMMA OnlyReviewedGoesOn ==
  ASSUME NEW s, NEW new \in {"WAITING_FOR_APPROVAL", "COMPLETED"}, ValidTransition(s, new)
  PROVE  s = "WAITING_FOR_REVIEW"
BY DEF ValidTransition, AllowedTransitions, TaskTransitions

\* A step of a request keeps results backed.
LEMMA ResultsStepBacked ==
  ASSUME OnlyRefreshSubmits, StartInv, CopiesAreBacked, ResultsAreBacked,
         NEW r \in Requests, RequestStep(r)
  PROVE  ResultsAreBacked'
<1> DEFINE Shown == {"WAITING_FOR_REVIEW", "WAITING_FOR_APPROVAL", "COMPLETED"}
<1> SUFFICES ASSUME NEW t \in Tasks
             PROVE  /\ task'[t].status \in Shown \/ task'[t].execution = "completed" => task'[t].result
                    /\ task'[t].result => task'[t].reference # 0
                    /\ task'[t].reference # 0 => task'[t].execution # "none"
  BY DEF ResultsAreBacked
<1>0. /\ task[t].status \in Shown \/ task[t].execution = "completed" => task[t].result
      /\ task[t].result => task[t].reference # 0
      /\ task[t].reference # 0 => task[t].execution # "none"
  BY DEF ResultsAreBacked
<1>1. CASE task'[t] = task[t]
  BY <1>0, <1>1
<1>2. CASE task'[t] # task[t]
  <2>1. t = req[r].task /\ RowChange(r, t)
    BY <1>2, RowWritten DEF StartInv
  <2>2. /\ task[t].reference # 0 => task'[t].reference # 0
        /\ task[t].execution # "none" => task'[t].execution # "none"
        /\ task[t].result => task'[t].result
    BY RowsGrow
  <2>3. CASE StatusWrite(r, t)
    <3>1. task'[t].status \in Shown => task[t].status \in Shown
      <4>1. CASE task'[t].status \in {"RUNNING", "FAILED"}
        BY <4>1
      <4>2. CASE At(r, "transition") /\ task'[t].status = req[r].target
        <5>1. /\ ValidTransition(task[t].status, req[r].target)
              /\ req[r].target # "WAITING_FOR_REVIEW"
          BY <2>1, <2>3, <4>2 DEF StatusWrite, StartInv, CopiesAreValid, TransitionsAreAsked,
                                  CasWins, Row, OnlyRefreshSubmits
        <5> QED
          BY <4>2, <5>1, OnlyReviewedGoesOn
      <4> QED
        BY <2>3, <4>1, <4>2 DEF StatusWrite
    <3> QED
      BY <1>0, <2>3, <3>1 DEF StatusWrite
  <2>4. CASE HandleWrite(r, t)
    <3>1. req[r].loaded # "none" => task[t].execution # "none"
      BY <2>1, <2>4 DEF CopiesAreBacked, HandleWrite, At, Row
    <3>2. task'[t].execution \in {task[t].execution, "running"} /\ task'[t].execution # "none"
      BY <2>4, <3>1, FlushIsBacked DEF HandleWrite
    <3>3. task'[t].status \in {task[t].status, "WAITING_FOR_AGENT"}
      BY <2>4 DEF HandleWrite
    <3>4. task'[t].result = task[t].result
      BY <2>4 DEF HandleWrite
    <3> QED
      BY <1>0, <2>2, <3>2, <3>3, <3>4
  <2>5. CASE PollWrite(r, t)
    <3>1. req[r].loaded # "none" => task[t].execution # "none"
      BY <2>1, <2>5 DEF CopiesAreBacked, PollWrite, At, Row
    <3>2. req[r].polled \in {"running", "unknown"}
      BY <2>5 DEF StartInv, TypeInv, BusyHasTask, PollWrite, At
    <3>3. task'[t].execution # "completed" \/ task[t].execution = "completed"
      BY <2>5, <3>1, <3>2, FlushIsBacked DEF PollWrite
    <3> QED
      BY <1>0, <2>2, <2>5, <3>3 DEF PollWrite
  <2>6. CASE ResultWrite(r, t)
    <3>1. task[t].reference # 0
      BY <2>1, <2>6 DEF CopiesAreBacked, ResultWrite, At, Row, Polling
    <3> QED
      BY <1>0, <2>2, <2>6, <3>1 DEF ResultWrite
  <2> QED
    BY <2>1, <2>3, <2>4, <2>5, <2>6 DEF RowChange
<1> QED
  BY <1>1, <1>2

\* The environment writes nothing that BackedInv is about.
LEMMA BackedEndures ==
  ASSUME TypeInv, BackedInv, (\E u \in Tasks : PatienceRunsOut(u)) \/ Crash \/ UNCHANGED vars
  PROVE  BackedInv'
<1>0. \A t \in Tasks : /\ task'[t].status = task[t].status
                       /\ task'[t].reference = task[t].reference
                       /\ task'[t].execution = task[t].execution
                       /\ task'[t].result = task[t].result
  BY EnvironmentWrites
<1>1. ResultsAreBacked'
  <2> SUFFICES ASSUME NEW t \in Tasks
               PROVE  /\ \/ task'[t].status \in {"WAITING_FOR_REVIEW", "WAITING_FOR_APPROVAL", "COMPLETED"}
                         \/ task'[t].execution = "completed"
                         => task'[t].result
                      /\ task'[t].result => task'[t].reference # 0
                      /\ task'[t].reference # 0 => task'[t].execution # "none"
    BY DEF ResultsAreBacked
  <2> QED
    BY <1>0 DEF BackedInv, ResultsAreBacked
<1>2. CopiesAreBacked'
  <2> SUFFICES ASSUME NEW q \in Requests, req'[q].pc # "idle"
               PROVE  /\ req'[q].loaded # "none" => task'[req'[q].task].execution # "none"
                      /\ req'[q].pc \in Polling => task'[req'[q].task].reference # 0
    BY DEF CopiesAreBacked, At, Row
  <2>1. req'[q] = req[q]
    BY EnvironmentWrites DEF Idle
  <2> QED
    BY <1>0, <2>1, Placed DEF BackedInv, CopiesAreBacked, At, Row
<1> QED
  BY <1>1, <1>2 DEF BackedInv

\* A task that was put up for review, and a row that says "completed", have a result,
\* and a result belongs to a conversation that the row names: through overlapping
\* refreshes, cancels of RUNNING tasks, lost locks and crashes, as long as nobody but
\* the execution service waits for agents and submits for review.
THEOREM ResultsStayBacked ==
  ASSUME OnlyExecuteWaits, OnlyRefreshSubmits
  PROVE  Spec => []ResultsAreBacked
<1>1. Init => BackedInv
  BY ExecutionAssumption DEF Init, BackedInv, CopiesAreBacked, ResultsAreBacked, At, Idle, NotStarted
<1>2. StartInv /\ BackedInv /\ [Next]_vars => BackedInv'
  <2> SUFFICES ASSUME StartInv, BackedInv, [Next]_vars PROVE BackedInv'
    OBVIOUS
  <2>1. CASE \E r \in Requests : RequestStep(r)
    BY <2>1, CopiesStayBacked, ResultsStepBacked DEF BackedInv
  <2>2. CASE (\E u \in Tasks : PatienceRunsOut(u)) \/ Crash \/ UNCHANGED vars
    BY <2>2, BackedEndures DEF StartInv
  <2> QED
    BY <2>1, <2>2, NextSplits
<1>3. StartInv /\ [Next]_vars => StartInv'
  BY StartInductive
<1>4. BackedInv => ResultsAreBacked
  BY DEF BackedInv
<1>5. QED
  BY <1>1, <1>2, <1>3, <1>4, StartInit, PTL DEF Spec

-----------------------------------------------------------------------------
(* Progress: no late flush takes a handle or a result back, whatever the    *)
(* clients do.                                                              *)

\* References and counts of conversations are numbers.
LEMMA ReferencesAreNumbers ==
  ASSUME TypeInv
  PROVE  /\ \A t \in Tasks : task[t].reference \in Nat /\ conversations[t] \in Nat
         /\ \A r \in Requests : req[r].handle \in Nat
BY ExecutionAssumption DEF TypeInv, TypeOK, TaskRow, Request, References

\* A conversation is never taken back.
LEMMA ConversationsGrow ==
  ASSUME TypeInv, NEW r \in Requests, RequestStep(r), NEW t \in Tasks
  PROVE  conversations'[t] \in {conversations[t], conversations[t] + 1}
<1>1. CASE ProviderStarts(r) \/ ProviderFails(r) \/ ProviderRaises(r)
  BY <1>1 DEF ProviderStarts, ProviderFails, ProviderRaises, TypeInv, TypeOK
<1>2. CASE ~(ProviderStarts(r) \/ ProviderFails(r) \/ ProviderRaises(r))
  BY <1>2 DEF RequestStep, BeginExecute, BeginRefresh, BeginCancel, BeginTransition, CheckAgent,
     RejectExecute, StartTask, Reload, ClaimAgent, FailUnclaimed, RecordHandle, FailStart,
     PollProvider, PollRaises, StorePoll, CompleteExecution, FailExecution, ReleaseAgent,
     Transition, LockTimeout
<1> QED
  BY <1>1, <1>2

\* Only a provider that started a conversation gives a handle to record.
LEMMA HandleIsNew ==
  ASSUME TypeInv, NEW r \in Requests, RequestStep(r), req'[r].pc = "record"
  PROVE  /\ req[r].task \in Tasks /\ req'[r].task = req[r].task
         /\ req'[r].handle = conversations[req[r].task] + 1
         /\ req[r].pc = "calling" /\ UNCHANGED task
<1> USE DEF TypeInv, TypeOK, Idle, Request
<1>1. CASE \E t \in Tasks : BeginExecute(r, t)
  BY <1>1 DEF BeginExecute
<1>2. CASE \E t \in Tasks : BeginRefresh(r, t)
  BY <1>2 DEF BeginRefresh
<1>3. CASE \E t \in Tasks : BeginCancel(r, t)
  BY <1>3 DEF BeginCancel
<1>4. CASE \E t \in Tasks, new \in ServiceTargets : BeginTransition(r, t, new)
  BY <1>4 DEF BeginTransition
<1>5. CASE ProviderStarts(r)
  <2>1. req[r].task \in Tasks /\ At(r, "calling")
    BY <1>5, RequestTask DEF ProviderStarts, At
  <2> QED
    BY <1>5, <2>1 DEF ProviderStarts, At
<1>6. CASE \/ CheckAgent(r) \/ RejectExecute(r) \/ StartTask(r) \/ Reload(r) \/ ClaimAgent(r)
           \/ FailUnclaimed(r) \/ ProviderFails(r) \/ ProviderRaises(r) \/ RecordHandle(r)
           \/ FailStart(r) \/ PollProvider(r) \/ PollRaises(r) \/ StorePoll(r)
           \/ CompleteExecution(r) \/ FailExecution(r) \/ ReleaseAgent(r)
           \/ Transition(r) \/ LockTimeout(r)
  BY <1>6 DEF CheckAgent, RejectExecute, StartTask, Reload, ClaimAgent, FailUnclaimed,
     ProviderFails, ProviderRaises, RecordHandle, FailStart, PollProvider, PollRaises, StorePoll,
     CompleteExecution, FailExecution, ReleaseAgent, Transition, LockTimeout, Goto, Return
<1> QED
  BY <1>1, <1>2, <1>3, <1>4, <1>5, <1>6 DEF RequestStep

\* A reference is replaced by that of the newest conversation, which is a later one.
LEMMA ReferenceAdvances ==
  ASSUME StartInv, ReferencesTrail, NEW r \in Requests, RequestStep(r), NEW t \in Tasks,
         task'[t].reference # task[t].reference
  PROVE  /\ t = req[r].task /\ At(r, "record")
         /\ task[t].reference < task'[t].reference
         /\ task'[t].reference = conversations[t]
<1>1. t = req[r].task /\ RowChange(r, t)
  BY RowWritten DEF StartInv
<1>2. HandleWrite(r, t)
  BY <1>1 DEF RowChange, StatusWrite, PollWrite, ResultWrite
<1>3. At(r, "record") /\ task'[t].reference = req[r].handle
  BY <1>2 DEF HandleWrite
<1>4. req[r].handle = conversations[t]
  BY <1>1, <1>3 DEF StartInv, HandleIsNewest
<1> QED
  BY <1>1, <1>3, <1>4 DEF ReferencesTrail, Row

\* A step of a request keeps references behind the conversations.
LEMMA TrailStep ==
  ASSUME StartInv, ReferencesTrail, NEW r \in Requests, RequestStep(r)
  PROVE  ReferencesTrail'
<1>0. TypeInv
  BY DEF StartInv
<1>1. ASSUME NEW t \in Tasks
      PROVE  task'[t].reference <= conversations'[t]
  <2>1. task'[t].reference <= conversations[t]
    BY <1>0, ReferenceAdvances, ReferencesAreNumbers DEF ReferencesTrail
  <2>2. task'[t].reference \in Nat
    BY <1>0, ReferenceAdvances, ReferencesAreNumbers
  <2> QED
    BY <1>0, <2>1, <2>2, ConversationsGrow, ReferencesAreNumbers
<1>2. ASSUME NEW q \in Requests, req'[q].pc = "record"
      PROVE  task'[req'[q].task].reference < req'[q].handle
  <2>1. CASE q = r
    BY <1>0, <1>2, <2>1, HandleIsNew, ReferencesAreNumbers DEF ReferencesTrail
  <2>2. CASE q # r
    <3>1. req'[q] = req[q] /\ At(q, "record") /\ req[q].task \in Tasks
      BY <1>0, <1>2, <2>2, OthersStay, Placed DEF At
    <3>2. task'[req[q].task].reference = task[req[q].task].reference
      BY <2>2, <3>1, ReferenceAdvances DEF StartInv, OneStarter, Starting, ClaimHeld, At
    <3> QED
      BY <3>1, <3>2 DEF ReferencesTrail, Row
  <2> QED
    BY <2>1, <2>2
<1> QED
  BY <1>1, <1>2 DEF ReferencesTrail, At, Row

\* A handle is only replaced by that of a later conversation, and a result is never
\* taken back: whatever a lost, late or overtaken request flushes with its commit.
THEOREM ProgressIsKept ==
  ASSUME OnlyExecuteWaits
  PROVE  Spec => LateFlushesKeepProgress
<1> DEFINE Kept ==
      \A t \in Tasks :
        /\ task'[t].reference # task[t].reference =>
             task[t].reference < task'[t].reference /\ task'[t].reference = conversations[t]
        /\ task[t].result => task'[t].result
<1>1. Init => ReferencesTrail
  BY DEF Init, ReferencesTrail, At, Idle
<1>2. StartInv /\ ReferencesTrail /\ [Next]_vars => ReferencesTrail' /\ Kept
  <2> SUFFICES ASSUME StartInv, ReferencesTrail, [Next]_vars PROVE ReferencesTrail' /\ Kept
    OBVIOUS
  <2>0. TypeInv
    BY DEF StartInv
  <2>1. CASE \E r \in Requests : RequestStep(r)
    <3> PICK r \in Requests : RequestStep(r)
      BY <2>1
    <3>1. ASSUME NEW t \in Tasks, task[t].result
          PROVE  task'[t].result
      <4>1. CASE task'[t] = task[t]
        BY <3>1, <4>1
      <4>2. CASE RowChange(r, t)
        BY <3>1, <4>2 DEF RowChange, StatusWrite, HandleWrite, PollWrite, ResultWrite
      <4> QED
        BY <2>0, <4>1, <4>2, RowWritten
    <3> QED
      BY <3>1, TrailStep, ReferenceAdvances
  <2>2. CASE (\E u \in Tasks : PatienceRunsOut(u)) \/ Crash \/ UNCHANGED vars
    <3>0. /\ \A t \in Tasks : /\ task'[t].reference = task[t].reference
                              /\ task'[t].result = task[t].result
                              /\ conversations'[t] = conversations[t]
          /\ UNCHANGED req \/ \A q \in Requests : req'[q] = Idle
      BY <2>0, <2>2, EnvironmentWrites
    <3>1. ReferencesTrail'
      <4>1. ASSUME NEW q \in Requests, req'[q].pc = "record"
            PROVE  task'[req'[q].task].reference < req'[q].handle
        <5>1. req'[q] = req[q]
          BY <3>0, <4>1 DEF Idle
        <5> QED
          BY <2>0, <3>0, <4>1, <5>1, Placed DEF ReferencesTrail, At, Row
      <4> QED
        BY <3>0, <4>1 DEF ReferencesTrail, At, Row
    <3> QED
      BY <3>0, <3>1
  <2> QED
    BY <2>1, <2>2, NextSplits
<1>3. StartInv /\ [Next]_vars => StartInv'
  BY StartInductive
<1>4. QED
  BY <1>1, <1>2, <1>3, StartInit, PTL DEF Spec, LateFlushesKeepProgress

-----------------------------------------------------------------------------
(* Reviews: the answer is about the current execution, while the clients    *)
(* keep to Discipline.                                                      *)

\* While a task is being refreshed nobody records a new handle for it: its agent is
\* BUSY, and a start of it would hold a claim of that agent.
LEMMA PolledRowsKeepHandle ==
  ASSUME IInv, NEW r \in Requests, RequestStep(r), NEW q \in Requests, req[q].pc \in Polling
  PROVE  task'[req[q].task].reference = Row(q).reference
<1>0. TypeInv /\ req[q].task \in Tasks /\ Held(req[q].task)
  BY Placed DEF IInv, Held, Polled, Polling
<1>1. ~HandleWrite(r, req[q].task) \/ req[r].task # req[q].task
  BY <1>0 DEF HandleWrite, IInv, Ownership, AgentColumn, HoldsClaim, ClaimHeld, At, AgentFor
<1>2. CASE task'[req[q].task] = task[req[q].task]
  BY <1>2 DEF Row
<1>3. CASE task'[req[q].task] # task[req[q].task]
  BY <1>0, <1>1, <1>3, RowWritten DEF RowChange, StatusWrite, PollWrite, ResultWrite, Row
<1> QED
  BY <1>2, <1>3

\* What a refresh polls stays what the row names.
LEMMA PollsStayCurrent ==
  ASSUME IInv, PollsAreCurrent, NEW r \in Requests, RequestStep(r)
  PROVE  PollsAreCurrent'
<1>0. TypeInv
  BY DEF IInv
<1> SUFFICES ASSUME NEW q \in Requests, req'[q].pc \in Polling
             PROVE  req'[q].handle = task'[req'[q].task].reference
  BY DEF PollsAreCurrent, Row
<1>1. CASE q = r
  BY <1>0, <1>1, CopyMoves DEF PollsAreCurrent, Row, Polling
<1>2. CASE q # r
  <2>1. req'[q] = req[q]
    BY <1>0, <1>2, OthersStay
  <2> QED
    BY <2>1, PolledRowsKeepHandle DEF PollsAreCurrent
<1> QED
  BY <1>1, <1>2

\* The environment writes no request and no column that a refresh holds.
LEMMA PollsEndure ==
  ASSUME IInv, PollsAreCurrent, (\E u \in Tasks : PatienceRunsOut(u)) \/ Crash \/ UNCHANGED vars
  PROVE  PollsAreCurrent'
<1>0. TypeInv
  BY DEF IInv
<1> SUFFICES ASSUME NEW q \in Requests, req'[q].pc \in Polling
             PROVE  req'[q].handle = task'[req'[q].task].reference
  BY DEF PollsAreCurrent, Row
<1>1. req'[q] = req[q]
  BY <1>0, EnvironmentWrites DEF Idle, Polling
<1>2. req[q].task \in Tasks
  BY <1>0, <1>1, Placed DEF Polling
<1>3. task'[req[q].task].reference = task[req[q].task].reference
  BY <1>0, <1>2, EnvironmentWrites
<1> QED
  BY <1>1, <1>3 DEF PollsAreCurrent, Row

\* A task goes to review only on the answer about the conversation it holds, also
\* when it was executed before and its earlier refreshes answer late.
THEOREM ReviewsAreCurrent ==
  ASSUME Discipline
  PROVE  Spec => ReviewIsOfCurrentExecution
<1> DEFINE OfCurrent ==
      \A t \in Tasks : Waiting(t) /\ task'[t].status = "WAITING_FOR_REVIEW" =>
        \E r \in Requests : /\ At(r, "complete") /\ req[r].task = t
                             /\ req[r].handle = task[t].reference
<1>1. Init => PollsAreCurrent
  BY DEF Init, PollsAreCurrent, Idle, Polling
<1>2. IInv /\ PollsAreCurrent /\ [Next]_vars => PollsAreCurrent'
  BY NextSplits, PollsStayCurrent, PollsEndure
<1>3. IInv /\ PollsAreCurrent /\ [Next]_vars => OfCurrent
  <2> SUFFICES ASSUME IInv, PollsAreCurrent, [Next]_vars, NEW t \in Tasks,
                      Waiting(t), task'[t].status = "WAITING_FOR_REVIEW"
               PROVE  \E r \in Requests : /\ At(r, "complete") /\ req[r].task = t
                                           /\ req[r].handle = task[t].reference
    OBVIOUS
  <2>1. TypeInv /\ task'[t].status # task[t].status
    BY DEF IInv, Waiting
  <2>2. PICK r \in Requests : RequestStep(r)
    BY <2>1, NextSplits, EnvironmentWrites
  <2>3. t = req[r].task /\ RowChange(r, t)
    BY <2>1, <2>2, RowWritten
  <2>4. ~StatusWrite(r, t)
    <3>1. At(r, "transition") => req[r].target # "WAITING_FOR_REVIEW"
      BY DEF IInv, Ownership, TransitionsKeepOff, AskedTargets
    <3> QED
      BY <3>1 DEF StatusWrite
  <2>5. At(r, "complete")
    BY <2>1, <2>3, <2>4 DEF RowChange, HandleWrite, PollWrite, ResultWrite
  <2> QED
    BY <2>3, <2>5 DEF PollsAreCurrent, Row, At, Polling
<1>4. QED
  BY <1>1, <1>2, <1>3, InvariantHolds, PTL DEF Spec, ReviewIsOfCurrentExecution

-----------------------------------------------------------------------------
(* What is given back, where tasks are executed once, no lock times out and *)
(* nothing dies.                                                            *)

\* What IInv adds to what a status write may do.
LEMMA WonStatusMoves ==
  ASSUME IInv, NEW r \in Requests, NEW t \in Tasks, t = req[r].task, StatusWrite(r, t)
  PROVE  /\ task[t].status = req[r].seen
         /\ \/ At(r, "claim_task") /\ task'[t].status = "RUNNING"
               /\ ValidTransition(req[r].seen, "RUNNING")
            \/ task[t].status = "RUNNING" /\ task'[t].status = "FAILED"
            \/ /\ task[t].status = "WAITING_FOR_AGENT" /\ task'[t].status = "FAILED"
               /\ req'[r].pc = "release" /\ req'[r].task = t
            \/ /\ At(r, "transition") /\ task'[t].status = req[r].target
               /\ ValidTransition(task[t].status, req[r].target)
               /\ task[t].status \notin {"RUNNING", "WAITING_FOR_AGENT"}
               /\ req[r].target \in AskedTargets \cup {"CANCELLED"}
<1>1. task[t].status = req[r].seen
  BY DEF StatusWrite, CasWins, Row
<1>2. CASE At(r, "claim_task")
  BY <1>1, <1>2 DEF StatusWrite, At
<1>3. CASE At(r, "claim_lost") \/ At(r, "start_failed")
  <2>1. task[t].status = "RUNNING"
    BY <1>3, ServedRow DEF At, Row, Starting, ClaimHeld
  <2> QED
    BY <1>1, <1>3, <2>1 DEF StatusWrite, At
<1>4. CASE At(r, "fail")
  <2>1. req[r].seen = "WAITING_FOR_AGENT"
    BY <1>4, ServedRow DEF At, Polling
  <2> QED
    BY <1>1, <1>4, <2>1 DEF StatusWrite, At
<1>5. CASE At(r, "transition")
  BY <1>1, <1>5 DEF StatusWrite, At, IInv, Ownership, TransitionsKeepOff
<1> QED
  BY <1>2, <1>3, <1>4, <1>5 DEF StatusWrite

\* A handle that is recorded with its transition ends a start of a RUNNING task; a
\* completion that is won ends the wait and goes on to the release.
LEMMA WonFlushMoves ==
  ASSUME IInv, NEW r \in Requests, NEW t \in Tasks, t = req[r].task,
         task'[t].status # task[t].status
  PROVE  /\ HandleWrite(r, t) => task[t].status = "RUNNING" /\ task'[t].status = "WAITING_FOR_AGENT"
         /\ ResultWrite(r, t) => /\ Waiting(t) /\ task'[t].status = "WAITING_FOR_REVIEW"
                                 /\ req'[r].pc = "release" /\ req'[r].task = t
         /\ ~PollWrite(r, t)
BY ServedRow DEF HandleWrite, ResultWrite, PollWrite, CasWins, Row, Waiting, At, Starting,
   ClaimHeld, Polling

\* Nobody comes to wait for approval.
LEMMA ApprovalStaysOut ==
  ASSUME ExecutedOnce, IInv, TransitionsAreAsked, NoApproval, NEW r \in Requests, RequestStep(r)
  PROVE  \A t \in Tasks : task'[t].status # "WAITING_FOR_APPROVAL"
<1> SUFFICES ASSUME NEW t \in Tasks, task'[t].status # task[t].status
             PROVE  task'[t].status # "WAITING_FOR_APPROVAL"
  BY DEF NoApproval
<1>1. t = req[r].task /\ RowChange(r, t)
  BY RowWritten DEF IInv
<1>2. CASE StatusWrite(r, t)
  BY <1>1, <1>2 DEF StatusWrite, TransitionsAreAsked, ExecutedOnce
<1>3. CASE ~StatusWrite(r, t)
  BY <1>1, <1>3, WonFlushMoves DEF RowChange
<1> QED
  BY <1>2, <1>3

\* A row that is over stays so, and a task in flight is not won by an execute call.
LEMMA OverStays ==
  ASSUME IInv, OnceInv, NEW r \in Requests, RequestStep(r), NEW t \in Tasks,
         task'[t].status # "WAITING_FOR_APPROVAL"
  PROVE  /\ task[t].status \in Over => task'[t].status \in Over
         /\ Waiting(t) => task'[t].status \in Over \cup {"WAITING_FOR_AGENT"}
<1>1. CASE task'[t].status = task[t].status
  BY <1>1 DEF Waiting
<1>2. CASE task'[t].status # task[t].status
  <2>1. t = req[r].task /\ RowChange(r, t)
    BY <1>2, RowWritten DEF IInv
  <2>2. CASE StatusWrite(r, t)
    <3>1. CASE At(r, "claim_task") /\ ValidTransition(req[r].seen, "RUNNING")
      <4>1. req[r].seen = "QUEUED"
        <5>1. req[r].seen \in {"QUEUED", "WAITING_FOR_AGENT", "WAITING_FOR_APPROVAL"}
          BY <3>1 DEF ValidTransition, AllowedTransitions, TaskTransitions
        <5>2. req[r].seen # "WAITING_FOR_AGENT"
          BY <2>1, <2>2, <3>1, WonStatusMoves DEF OnceInv, LateExecuteLoses, Row, Over
        <5> QED
          BY <5>1, <5>2 DEF OnceInv, NoApproval
      <4> QED
        BY <2>1, <2>2, <4>1, WonStatusMoves DEF Over, Waiting
    <3>2. CASE At(r, "transition") /\ task'[t].status = req[r].target
      <4>1. /\ ValidTransition(task[t].status, task'[t].status) /\ ~Waiting(t)
        BY <2>1, <2>2, <3>2 DEF StatusWrite, CasWins, Row, Waiting, IInv, Ownership, TransitionsKeepOff
      <4> QED
        BY <4>1 DEF ValidTransition, AllowedTransitions, TaskTransitions, Over
    <3>3. CASE task'[t].status = "FAILED"
      BY <3>3 DEF Over
    <3> QED
      BY <2>1, <2>2, <3>1, <3>2, <3>3, WonStatusMoves
  <2>3. CASE ~StatusWrite(r, t)
    BY <1>2, <2>1, <2>3, WonFlushMoves DEF RowChange, Over, Waiting
  <2> QED
    BY <2>2, <2>3
<1> QED
  BY <1>1, <1>2

\* What an execute call knows of its row: it just read it, or goes on from the check
\* of the agent, or wins or reads anew.
LEMMA SeenMoves ==
  ASSUME TypeInv, NEW r \in Requests, RequestStep(r)
  PROVE  /\ req'[r].seen \in {"CREATED", req[r].seen} \cup {task[t].status : t \in Tasks}
         /\ req'[r].pc = "check_agent" => /\ req'[r].task \in Tasks /\ UNCHANGED task
                                          /\ req'[r].seen = task[req'[r].task].status
         /\ req'[r].pc = "claim_task" => CheckAgent(r)
<1>1. CASE \E t \in Tasks : BeginExecute(r, t)
  BY <1>1 DEF BeginExecute, Idle, TypeInv, TypeOK
<1>2. CASE \E t \in Tasks : BeginRefresh(r, t)
  BY <1>2 DEF BeginRefresh, Idle, TypeInv, TypeOK
<1>3. CASE \E t \in Tasks : BeginCancel(r, t)
  BY <1>3 DEF BeginCancel, Idle, TypeInv, TypeOK
<1>4. CASE \E t \in Tasks, new \in ServiceTargets : BeginTransition(r, t, new)
  BY <1>4 DEF BeginTransition, Idle, TypeInv, TypeOK
<1>5. CASE CheckAgent(r)
  BY <1>5, GotoKeeps DEF CheckAgent
<1>6. CASE \/ RejectExecute(r) \/ FailUnclaimed(r) \/ ProviderRaises(r) \/ PollRaises(r)
           \/ StorePoll(r) \/ ReleaseAgent(r) \/ Transition(r) \/ LockTimeout(r)
  BY <1>6, ReturnWrites DEF RejectExecute, FailUnclaimed, ProviderRaises, PollRaises, StorePoll,
     ReleaseAgent, Transition, LockTimeout, Idle
<1>7. CASE \/ StartTask(r) \/ ClaimAgent(r) \/ ProviderFails(r)
           \/ RecordHandle(r) \/ FailStart(r) \/ CompleteExecution(r) \/ FailExecution(r)
  <2>1. \/ Return(r)
        \/ \E p \in {"reload", "calling", "claim_lost", "start_failed", "release"} : Goto(r, p)
    BY <1>7 DEF StartTask, ClaimAgent, ProviderFails, RecordHandle, FailStart,
       CompleteExecution, FailExecution
  <2> QED
    BY <2>1, ReturnWrites, GotoKeeps DEF Idle
<1>8. CASE PollProvider(r) \/ Reload(r) \/ ProviderStarts(r)
  <2>1. req[r].task \in Tasks
    BY <1>8, RequestTask DEF PollProvider, Reload, ProviderStarts, At
  <2> QED
    BY <1>8, <2>1 DEF PollProvider, Reload, ProviderStarts, Goto, Row, TypeInv, TypeOK, Request
<1> QED
  BY <1>1, <1>2, <1>3, <1>4, <1>5, <1>6, <1>7, <1>8 DEF RequestStep

\* A step of a request keeps late execute calls losing, and approvals out.
LEMMA OnceStep ==
  ASSUME ExecutedOnce, IInv, TransitionsAreAsked, OnceInv, NEW r \in Requests, RequestStep(r)
  PROVE  OnceInv'
<1>0. TypeInv /\ LateExecuteLoses /\ NoApproval
  BY DEF IInv, OnceInv
<1>1. \A t \in Tasks : task'[t].status # "WAITING_FOR_APPROVAL"
  BY <1>0, ApprovalStaysOut
<1>2. \A q \in Requests : req'[q].seen # "WAITING_FOR_APPROVAL"
  <2>1. req'[r].seen # "WAITING_FOR_APPROVAL"
    BY <1>0, SeenMoves DEF NoApproval
  <2> QED
    BY <1>0, <2>1, OthersStay DEF NoApproval
<1>3. ASSUME NEW q \in Requests, req'[q].seen = "WAITING_FOR_AGENT"
      PROVE  /\ req'[q].pc = "check_agent" => task'[req'[q].task].status \in Over \cup {"WAITING_FOR_AGENT"}
             /\ req'[q].pc = "claim_task" => task'[req'[q].task].status \in Over
  <2>1. CASE q = r
    <3>1. CASE req'[r].pc = "check_agent"
      BY <1>0, <1>3, <2>1, <3>1, SeenMoves
    <3>2. CASE req'[r].pc = "claim_task"
      <4>1. CheckAgent(r) /\ At(r, "check_agent") /\ agent[AgentFor(r)] = "AVAILABLE"
        BY <1>0, <3>2, SeenMoves DEF CheckAgent
      <4>2. /\ req'[r].task = req[r].task /\ req'[r].seen = req[r].seen
            /\ req[r].task \in Tasks /\ UNCHANGED task
        BY <1>0, <4>1, GotoKeeps, RequestTask DEF CheckAgent, At
      <4>3. ~Waiting(req[r].task)
        BY <4>1, <4>2 DEF IInv, Ownership, AgentColumn, Held, AgentFor
      <4> QED
        BY <1>0, <1>3, <2>1, <3>2, <4>1, <4>2, <4>3 DEF LateExecuteLoses, Row, Waiting
    <3> QED
      BY <2>1, <3>1, <3>2
  <2>2. CASE q # r
    <3>1. req'[q] = req[q] /\ (At(q, "check_agent") \/ At(q, "claim_task") => req[q].task \in Tasks)
      BY <1>0, <2>2, OthersStay, Placed DEF At
    <3> QED
      BY <1>0, <1>1, <1>3, <3>1, OverStays DEF LateExecuteLoses, Row, At, Waiting
  <2> QED
    BY <2>1, <2>2
<1> QED
  BY <1>1, <1>2, <1>3 DEF OnceInv, LateExecuteLoses, NoApproval, At, Row

\* An execution that ends leaves the release of its agent to the same request.
LEMMA EndReleases ==
  ASSUME IInv, LateExecuteLoses, NEW r \in Requests, RequestStep(r),
         NEW t \in Tasks, Waiting(t), ~Waiting(t)'
  PROVE  req'[r].pc = "release" /\ req'[r].task = t
<1>1. t = req[r].task /\ RowChange(r, t) /\ task'[t].status # task[t].status
  BY RowWritten DEF IInv, Waiting
<1>2. CASE StatusWrite(r, t)
  <2>1. ~At(r, "claim_task")
    BY <1>1, <1>2, WonStatusMoves DEF LateExecuteLoses, Row, Over, Waiting
  <2> QED
    BY <1>1, <1>2, <2>1, WonStatusMoves DEF Waiting
<1>3. CASE ~StatusWrite(r, t)
  BY <1>1, <1>3, WonFlushMoves DEF RowChange, Waiting
<1> QED
  BY <1>2, <1>3

\* An agent that becomes BUSY gets an owner in the same step.
LEMMA ClaimHasOwner ==
  ASSUME IInv, NEW r \in Requests, RequestStep(r), NEW a \in Agents,
         agent[a] # "BUSY", agent'[a] = "BUSY"
  PROVE  \/ \E t \in Tasks : AgentOf[t] = a /\ Waiting(t)'
         \/ req'[r].pc = "release" /\ AgentOf[req'[r].task] = a
<1> USE StatesAreTaskStates, Points
<1>1. \/ /\ RecordHandle(r) \/ FailStart(r)
         /\ agent' = [agent EXCEPT ![AgentFor(r)] = "BUSY"]
      \/ ReleaseAgent(r)
  BY DEF RequestStep, BeginExecute, BeginRefresh, BeginCancel, BeginTransition, CheckAgent,
     RejectExecute, StartTask, Reload, ClaimAgent, FailUnclaimed, ProviderStarts, ProviderFails,
     ProviderRaises, RecordHandle, FailStart, PollProvider, PollRaises, StorePoll,
     CompleteExecution, FailExecution, Transition, LockTimeout
<1>2. ~ReleaseAgent(r)
  BY DEF ReleaseAgent, IInv, TypeInv, TypeOK
<1>3. AgentFor(r) = a
  BY <1>1, <1>2 DEF IInv, TypeInv, TypeOK
<1>4. /\ TypeInv /\ ~At(r, "idle") /\ ~At(r, "transition")
      /\ req[r] \in Request /\ req[r].task \in Tasks /\ Row(r) \in TaskRow
  BY <1>1, <1>2, RequestTask DEF IInv, At, RecordHandle, FailStart
<1>5. CASE RecordHandle(r)
  <2>1. req[r].seen = "RUNNING" /\ CasWins(r)
    BY <1>5, ServedRow DEF RecordHandle, At, Starting, ClaimHeld, CasWins
  <2>2. task' = [task EXCEPT ![req[r].task] = Moved(WithHandle(Row(r), r), "WAITING_FOR_AGENT")]
    BY <1>5, <2>1, ServiceMoves DEF RecordHandle, Row
  <2>3. /\ Moved(WithHandle(Row(r), r), "WAITING_FOR_AGENT") \in TaskRow
        /\ Moved(WithHandle(Row(r), r), "WAITING_FOR_AGENT").status = "WAITING_FOR_AGENT"
    BY <1>4, HandleRow, MovedRow
  <2>4. task'[req[r].task].status = "WAITING_FOR_AGENT"
    BY <1>4, <2>2, <2>3, OneRowWritten
  <2> QED
    BY <1>3, <1>4, <2>4 DEF AgentFor, Waiting
<1>6. CASE FailStart(r)
  <2>1. req'[r] = [req[r] EXCEPT !.pc = "release"]
    BY <1>4, <1>6, GotoWrites DEF FailStart
  <2>2. req'[r].pc = "release" /\ req'[r].task = req[r].task
    BY <1>4, <2>1 DEF Request
  <2> QED
    BY <1>3, <2>2 DEF AgentFor
<1> QED
  BY <1>1, <1>2, <1>5, <1>6

\* Every step of a request leaves every claim with an owner.
LEMMA ClaimsStayOwned ==
  ASSUME Calm, IInv, LateExecuteLoses, NoLeakedAgent, NEW r \in Requests, RequestStep(r)
  PROVE  NoLeakedAgent'
<1> SUFFICES ASSUME NEW a \in Agents, agent'[a] = "BUSY"
             PROVE  \/ \E t \in Tasks : AgentOf[t] = a /\ Waiting(t)'
                    \/ \E q \in Requests : req'[q].pc = "release" /\ AgentOf[req'[q].task] = a
  BY DEF NoLeakedAgent, WaitingOn, ReleasesOf, At, AgentFor
<1>1. CASE agent[a] # "BUSY"
  BY <1>1, ClaimHasOwner
<1>2. CASE \E t \in Tasks : AgentOf[t] = a /\ Waiting(t)
  BY <1>2, EndReleases
<1>3. CASE \E q \in Requests : At(q, "release") /\ AgentFor(q) = a
  <2> PICK q \in Requests : At(q, "release") /\ AgentFor(q) = a
    BY <1>3
  <2>1. CASE q = r
    <3>1. ReleaseAgent(r)
      BY <2>1, NothingIsCutShort DEF RequestStep, BeginExecute, BeginRefresh, BeginCancel,
         BeginTransition, CheckAgent, RejectExecute, StartTask, Reload, ClaimAgent,
         FailUnclaimed, ProviderStarts, ProviderFails, RecordHandle, FailStart, PollProvider,
         StorePoll, CompleteExecution, FailExecution, Transition, At
    <3>2. agent'[a] = "AVAILABLE"
      BY <2>1, <3>1 DEF ReleaseAgent, IInv, TypeInv, TypeOK
    <3> QED
      BY <3>2
  <2>2. CASE q # r
    BY <2>2, OthersStay DEF IInv, At, AgentFor
  <2> QED
    BY <2>1, <2>2
<1> QED
  BY <1>1, <1>2, <1>3 DEF NoLeakedAgent, WaitingOn, ReleasesOf

\* Time passes without a change of hands.
LEMMA AgingKeepsOwners ==
  ASSUME Calm, IInv, NoLeakedAgent,
         (\E t \in Tasks : PatienceRunsOut(t)) \/ Crash \/ UNCHANGED vars
  PROVE  NoLeakedAgent'
<1>1. ~Crash
  BY DEF Calm, Crash
<1>2. \A t \in Tasks : task'[t].status = task[t].status
  BY <1>1 DEF PatienceRunsOut, vars, IInv, TypeInv, TypeOK, TaskRow
<1>3. UNCHANGED <<agent, req>>
  BY <1>1 DEF PatienceRunsOut, vars
<1> QED
  BY <1>2, <1>3 DEF NoLeakedAgent, WaitingOn, ReleasesOf, Waiting, At, AgentFor

\* OnceInv and the requests' targets through a step, and at the start.
LEMMA OnceHolds ==
  ASSUME Discipline, ExecutedOnce
  PROVE  Spec => [](IInv /\ TransitionsAreAsked /\ OnceInv)
<1>1. Init => TransitionsAreAsked /\ OnceInv
  BY ExecutionAssumption DEF Init, TransitionsAreAsked, OnceInv, LateExecuteLoses, NoApproval, At,
     Idle, NotStarted
<1>2. IInv /\ TransitionsAreAsked /\ OnceInv /\ [Next]_vars => TransitionsAreAsked' /\ OnceInv'
  <2> SUFFICES ASSUME IInv, TransitionsAreAsked, OnceInv, [Next]_vars
               PROVE  TransitionsAreAsked' /\ OnceInv'
    OBVIOUS
  <2>0. TypeInv
    BY DEF IInv
  <2>1. CASE \E r \in Requests : RequestStep(r)
    BY <2>0, <2>1, AskedStep, OnceStep
  <2>2. CASE (\E u \in Tasks : PatienceRunsOut(u)) \/ Crash \/ UNCHANGED vars
    <3>1. /\ \A t \in Tasks : task'[t].status = task[t].status
          /\ \A q \in Requests : req'[q] = req[q] \/ req'[q] = Idle
      BY <2>0, <2>2, EnvironmentWrites
    <3>2. TransitionsAreAsked'
      BY <3>1 DEF TransitionsAreAsked, At, Idle
    <3>3. NoApproval'
      BY <3>1 DEF OnceInv, NoApproval, Idle
    <3>4. ASSUME NEW q \in Requests, req'[q].seen = "WAITING_FOR_AGENT"
          PROVE  /\ req'[q].pc = "check_agent" => task'[req'[q].task].status \in Over \cup {"WAITING_FOR_AGENT"}
                 /\ req'[q].pc = "claim_task" => task'[req'[q].task].status \in Over
      <4>1. req'[q] = req[q]
        BY <3>1, <3>4 DEF Idle
      <4>2. At(q, "check_agent") \/ At(q, "claim_task") => req[q].task \in Tasks
        BY <2>0, Placed DEF At
      <4> QED
        BY <3>1, <3>4, <4>1, <4>2 DEF OnceInv, LateExecuteLoses, Row, At
    <3> QED
      BY <3>2, <3>3, <3>4 DEF OnceInv, LateExecuteLoses, At, Row
  <2> QED
    BY <2>1, <2>2, NextSplits
<1>3. QED
  BY <1>1, <1>2, InvariantHolds, PTL DEF Spec

\* An agent is BUSY only while an execution waits for it or a request is about to
\* release it: on row locks no path of execute or refresh forgets the release, as long
\* as no task is executed twice.
THEOREM ClaimsAreGivenBack ==
  ASSUME Discipline, ExecutedOnce, Calm
  PROVE  Spec => []NoLeakedAgent
<1>1. Init => NoLeakedAgent
  BY ExecutionAssumption DEF Init, NoLeakedAgent
<1>2. IInv /\ OnceInv /\ NoLeakedAgent /\ [Next]_vars => NoLeakedAgent'
  BY NextSplits, ClaimsStayOwned, AgingKeepsOwners DEF OnceInv
<1>3. QED
  BY <1>1, <1>2, OnceHolds, PTL DEF Spec
=============================================================================
