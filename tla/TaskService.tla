----------------------------- MODULE TaskService -----------------------------
(***************************************************************************)
(* The transitions of the task engine (app/task_service.py) and the        *)
(* columns they write: status, started_at, completed_at, result and error. *)
(* A caller has a session of its own.  Its first session.get reads the     *)
(* row; later calls in the session find the copy in the identity map       *)
(* (expire_on_commit=False, app/db.py), which only session.refresh         *)
(* renews.  A transition validates against the copy, stamps the time and   *)
(* writes its columns in one compare-and-swap on the status.               *)
(*                                                                         *)
(* The commit after it also flushes what the session assigned before the   *)
(* call, whether or not the compare-and-swap was won: refresh_execution    *)
(* assigns task.result before submit_for_review.  The columns of the       *)
(* execution, which travel the same way, are in Execution.                 *)
(***************************************************************************)
EXTENDS TaskStates, Naturals

CONSTANTS
  Tasks,     \* the task rows
  Callers,   \* sessions that call the service at the same time
  NoTask,
  MaxTime    \* bound on the clock

ASSUME ServiceAssumption ==
  /\ NoTask \notin Tasks
  /\ MaxTime \in Nat \ {0}

VARIABLES
  task,   \* the task rows
  call,   \* every session: the copy it holds and the write it prepared
  now     \* the server's clock; 0 stands for NULL in a column

vars == <<task, call, now>>

-----------------------------------------------------------------------------

Time == 0 .. MaxTime

TaskRow == [status : TaskState, started : Time, completed : Time,
            result : BOOLEAN, error : BOOLEAN]

Created == [status |-> "CREATED", started |-> 0, completed |-> 0,
            result |-> FALSE, error |-> FALSE]

\* idle: no session; open: between two calls; write: validated and stamped;
\* reload: committed, before session.refresh.  assigned: the session holds a
\* result that no flush has written yet.
Call == [pc : {"idle", "open", "write", "reload"}, task : Tasks \cup {NoTask},
         copy : TaskRow, target : TaskState, stamp : Time, assigned : BOOLEAN]

Idle == [pc |-> "idle", task |-> NoTask, copy |-> Created,
         target |-> "CREATED", stamp |-> 0, assigned |-> FALSE]

At(c, p) == call[c].pc = p
Row(c) == task[call[c].task]

Init ==
  /\ task = [t \in Tasks |-> Created]
  /\ call = [c \in Callers |-> Idle]
  /\ now = 1

-----------------------------------------------------------------------------

\* session.get in a new session.
Open(c, t) ==
  /\ At(c, "idle")
  /\ call' = [call EXCEPT ![c] = [Idle EXCEPT !.pc = "open", !.task = t, !.copy = task[t]]]
  /\ UNCHANGED <<task, now>>

\* Mutant: the guard looks at the target only.
DecideUnguarded(c, new) ==
  /\ At(c, "open")
  /\ new # call[c].copy.status
  /\ call' = [call EXCEPT ![c].pc = "write", ![c].target = new, ![c].stamp = now]
  /\ UNCHANGED <<task, now>>

\* Mutant: the stamp comes from a clock that is ahead of the server's.
DecideAhead(c, new) ==
  /\ At(c, "open")
  /\ ValidTransition(call[c].copy.status, new)
  /\ call' = [call EXCEPT ![c].pc = "write", ![c].target = new, ![c].stamp = now + 1]
  /\ UNCHANGED <<task, now>>

\* Whether the caller is a refresh_execution that brings the provider's result:
\* it goes on only from a copy that waits for the agent.
BringsResult(c, new) ==
  new = "WAITING_FOR_REVIEW" /\ call[c].copy.status = "WAITING_FOR_AGENT"

\* The guard of _transition, and the time that goes into the values.  A call that
\* the guard rejects, or that cancels a copy already cancelled, changes nothing.
Decide(c, new) ==
  /\ At(c, "open")
  /\ ValidTransition(call[c].copy.status, new)
  /\ \E assigned \in {FALSE, BringsResult(c, new)} :
       call' = [call EXCEPT ![c].pc = "write", ![c].target = new, ![c].stamp = now,
                            ![c].assigned = assigned]
  /\ UNCHANGED <<task, now>>

\* Mutant: started_at is written by every transition to RUNNING.
WrittenOverStart(row, c) ==
  LET new == call[c].target IN
  [row EXCEPT !.status    = new,
              !.started   = IF new = "RUNNING" THEN call[c].stamp ELSE @,
              !.completed = IF new \in TerminalStates THEN call[c].stamp ELSE @,
              !.result    = @ \/ new = "COMPLETED",
              !.error     = @ \/ new = "FAILED"]

\* Mutant: completed_at only for a task that completed.
WrittenForSuccess(row, c) ==
  LET new == call[c].target IN
  [row EXCEPT !.status    = new,
              !.started   = IF new = "RUNNING" /\ call[c].copy.started = 0
                              THEN call[c].stamp ELSE @,
              !.completed = IF new = "COMPLETED" THEN call[c].stamp ELSE @,
              !.result    = @ \/ new = "COMPLETED",
              !.error     = @ \/ new = "FAILED"]

\* The values of the UPDATE.  Whether started_at is one of them is decided by the
\* copy, not by the row; complete_task brings the result, fail_task the error.
Written(row, c) ==
  LET new == call[c].target IN
  [row EXCEPT !.status    = new,
              !.started   = IF new = "RUNNING" /\ call[c].copy.started = 0
                              THEN call[c].stamp ELSE @,
              !.completed = IF new \in TerminalStates THEN call[c].stamp ELSE @,
              !.result    = @ \/ new = "COMPLETED",
              !.error     = @ \/ new = "FAILED"]

\* Mutant: the UPDATE has no status in its WHERE clause.
WinsAlways(c) == TRUE

Wins(c) == Row(c).status = call[c].copy.status

\* The row with what the session had assigned before the call.
Flushed(row, c) == [row EXCEPT !.result = @ \/ call[c].assigned]

\* The UPDATE and its commit.  A lost one sets none of the values, but the commit
\* comes before the row count is looked at and flushes the session all the same.
\* The copy and the values are not used again: session.refresh comes next.
Write(c) ==
  /\ At(c, "write")
  /\ task' = [task EXCEPT ![call[c].task] =
                 Flushed(IF Wins(c) THEN Written(@, c) ELSE @, c)]
  /\ call' = [call EXCEPT ![c] = [Idle EXCEPT !.pc = "reload", !.task = call[c].task]]
  /\ UNCHANGED now

\* session.refresh, after a won transition and after a lost one, which then raises
\* TaskStateConflictError.  Either way the session stays usable.
Reload(c) ==
  /\ At(c, "reload")
  /\ call' = [call EXCEPT ![c] = [Idle EXCEPT !.pc = "open", !.task = call[c].task,
                                              !.copy = Row(c)]]
  /\ UNCHANGED <<task, now>>

\* The session is closed: after a call, or where an exception or a crash ends it.
Close(c) ==
  /\ ~At(c, "idle")
  /\ call' = [call EXCEPT ![c] = Idle]
  /\ UNCHANGED <<task, now>>

Tick ==
  /\ now < MaxTime
  /\ now' = now + 1
  /\ UNCHANGED <<task, call>>

-----------------------------------------------------------------------------

Next ==
  \/ \E c \in Callers :
       \/ \E t \in Tasks : Open(c, t)
       \/ \E new \in TaskState : Decide(c, new)
       \/ Write(c) \/ Reload(c) \/ Close(c)
  \/ Tick

Spec == Init /\ [][Next]_vars

-----------------------------------------------------------------------------
(* Properties.                                                              *)

NotStarted == {"CREATED", "PLANNED", "QUEUED"}
Begun == {"RUNNING", "WAITING_FOR_AGENT", "WAITING_FOR_REVIEW", "WAITING_FOR_APPROVAL",
          "COMPLETED"}

\* Rows, sessions and the clock keep their types.
TypeOK ==
  /\ task \in [Tasks -> TaskRow]
  /\ call \in [Callers -> Call]
  /\ now \in Time \ {0}

\* A task starts before it ends and neither stamp lies in the future, although a
\* stamp is read long before it is committed: so the time a task has been running
\* (_execution_timed_out, app/execution_service.py) is never negative.
TimesAreOrdered ==
  \A t \in Tasks :
    /\ task[t].started <= now
    /\ task[t].completed # 0 => /\ task[t].started <= task[t].completed
                                /\ task[t].completed <= now

\* The columns tell one story whoever won which race: completed_at belongs to a
\* terminal task and error to FAILED, a COMPLETED task has a result and only a task
\* that was started ever gets one, a task that was never started has no started_at
\* and one that is under way or completed has.
ColumnsAgree ==
  \A t \in Tasks :
    /\ (task[t].completed # 0) <=> (task[t].status \in TerminalStates)
    /\ task[t].error <=> (task[t].status = "FAILED")
    /\ task[t].status = "COMPLETED" => task[t].result
    /\ task[t].result => task[t].started # 0
    /\ task[t].status \in NotStarted => task[t].started = 0
    /\ task[t].status \in Begun => task[t].started # 0

\* started_at is written once, although a stale copy decides whether to write it; a
\* result is never withdrawn; and a task that ended keeps all its columns, except
\* that the commit of a submit_for_review that came too late still writes the
\* provider's result into it.
StampsAreFinal ==
  [][\A t \in Tasks :
       /\ task[t].started # 0 => task'[t].started = task[t].started
       /\ task[t].result => task'[t].result
       /\ task[t].completed # 0 =>
            \/ task'[t] = task[t]
            \/ /\ task'[t] = [task[t] EXCEPT !.result = TRUE]
               /\ \E c \in Callers : /\ At(c, "write") /\ call[c].task = t
                                     /\ BringsResult(c, call[c].target)]_vars

\* Whatever the callers do with their stale copies, the status of every task follows
\* the lifecycle.
Lifecycle == INSTANCE TaskLifecycle WITH
  status <- [t \in Tasks |-> task[t].status],
  InitialStatus <- [t \in Tasks |-> "CREATED"]
FollowsLifecycle == Lifecycle!Spec
=============================================================================
