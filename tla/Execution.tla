------------------------------ MODULE Execution ------------------------------
(***************************************************************************)
(* Asynchronous execution of tasks on agents: ExecutionService over        *)
(* TaskService, AgentManager and a provider adapter, driven by concurrent  *)
(* HTTP requests.  Each endpoint is a plain `def`, so a request runs in a  *)
(* thread of its own with a database session of its own: a request here is *)
(* a process, and every place where the code reads, commits, calls the     *)
(* provider or rolls back is a step of it.                                 *)
(*                                                                         *)
(* A session keeps the row it read (autoflush=False and                    *)
(* expire_on_commit=False, app/db.py): the fields seen, loaded and handle  *)
(* of a request are that stale copy.  `session.commit()` writes every      *)
(* attribute the request changed, with no condition on the row.            *)
(***************************************************************************)
EXTENDS TaskStates, Naturals

CONSTANTS
  Tasks, Agents,      \* the rows of the two tables
  Requests,           \* request threads; each serves one call at a time
  NoTask, NoAgent,
  AgentOf,            \* [Tasks -> Agents \cup {NoAgent}]: tasks.agent_id
  InitialStatus,      \* the state the tasks are in when observation starts
  LockScope,          \* "database": SQLite, one writer; "row": PostgreSQL
  ConcurrentRefresh,  \* may two requests refresh one task at the same time?
  CancelRunning,      \* may a client cancel a task it saw RUNNING?
  ServiceTargets,     \* states an in-process caller of TaskService moves tasks to
  Faults,             \* "crash": the process dies; "unexpected": the adapter raises
                      \* something that is not an AgentError
  MaxConversations    \* bound on the provider conversations started for one task

NotStarted == {"CREATED", "PLANNED", "QUEUED"}

ASSUME ExecutionAssumption ==
  /\ NoTask \notin Tasks
  /\ NoAgent \notin Agents
  /\ AgentOf \in [Tasks -> Agents \cup {NoAgent}]
  /\ InitialStatus \in [Tasks -> NotStarted]
  /\ LockScope \in {"database", "row"}
  /\ ConcurrentRefresh \in BOOLEAN
  /\ CancelRunning \in BOOLEAN
  /\ ServiceTargets \subseteq TaskState
  /\ Faults \subseteq {"crash", "unexpected"}
  /\ MaxConversations \in Nat \ {0}

VARIABLES
  task,           \* the task rows: status and execution columns
  agent,          \* the committed agents.status of every agent
  req,            \* what every request is doing, and its session's stale copy
  conversations   \* how many provider conversations exist for a task

vars == <<task, agent, req, conversations>>

-----------------------------------------------------------------------------
(* Rows and request records.                                                *)

References == 0 .. MaxConversations       \* 0 is NULL; n names the n-th conversation
ExecutionState == {"none", "running", "unknown", "completed"}
ReportedState == ExecutionState \cup {"failed"}
Started == {"never", "recent", "expired"} \* started_at: NULL, or older than the patience

TaskRow == [status : TaskState, reference : References,
            execution : ExecutionState, result : BOOLEAN, started : Started]

AgentStatus == {"AVAILABLE", "BUSY"}

\* The points between two atomic steps of a request, named for what comes next.
ClaimHeld == {"calling", "record", "start_failed"}
Starting  == {"reload", "claim_agent", "claim_lost"} \cup ClaimHeld
Polling   == {"poll", "store", "complete", "fail"}
PC == {"idle", "check_agent", "claim_task", "release", "transition"}
        \cup Starting \cup Polling

Request == [pc : PC, task : Tasks \cup {NoTask}, seen : TaskState,
            loaded : ExecutionState, handle : References,
            polled : ReportedState, target : TaskState]

Idle == [pc |-> "idle", task |-> NoTask, seen |-> "CREATED", loaded |-> "none",
         handle |-> 0, polled |-> "none", target |-> "CREATED"]

At(r, p) == req[r].pc = p
Goto(r, p) == req' = [req EXCEPT ![r].pc = p]
Return(r) == req' = [req EXCEPT ![r] = Idle]
AgentFor(r) == AgentOf[req[r].task]
Row(r) == task[req[r].task]

-----------------------------------------------------------------------------
(* Database locks.  Every UPDATE is committed in the step that issues it,   *)
(* except the claim of an agent: its transaction stays open while the       *)
(* provider is called, or until the failure of a lost claim is recorded.    *)

HoldsClaim(r) == req[r].pc \in ClaimHeld
InWrite(r) == HoldsClaim(r) \/ At(r, "claim_lost")

\* SQLite: an open write transaction excludes every other writer.
MayWrite(r) ==
  \/ LockScope = "row"
  \/ \A q \in Requests \ {r} : ~InWrite(q)

\* PostgreSQL: an UPDATE whose WHERE matches a locked row waits for its holder.
MayClaim(r) ==
  /\ MayWrite(r)
  /\ \A q \in Requests \ {r} : HoldsClaim(q) => AgentFor(q) # AgentFor(r)

\* Mutant: UPDATE tasks without the status in its WHERE clause.
CasIgnored(r) == TRUE

\* The compare-and-swap of TaskService._transition against the request's copy.
CasWins(r) == Row(r).status = req[r].seen

\* Mutant: UPDATE agents without the status in its WHERE clause.
AgentTaken(r) == TRUE

\* The compare-and-swap of claim_agent (WHERE status = AVAILABLE).
AgentFree(r) == agent[AgentFor(r)] = "AVAILABLE"

\* The row after a won transition; started_at is set once, on the first RUNNING.
Moved(row, new) ==
  [row EXCEPT !.status  = new,
              !.started = IF new = "RUNNING" /\ @ = "never" THEN "recent" ELSE @]

\* An attribute is written by a flush only when it differs from what was loaded.
Flushed(current, loaded, new) == IF new = loaded THEN current ELSE new

Init ==
  /\ task = [t \in Tasks |-> [status |-> InitialStatus[t], reference |-> 0,
                              execution |-> "none", result |-> FALSE,
                              started |-> "never"]]
  /\ agent = [a \in Agents |-> "AVAILABLE"]
  /\ req = [r \in Requests |-> Idle]
  /\ conversations = [t \in Tasks |-> 0]

-----------------------------------------------------------------------------
(* POST /tasks/{id}/execute                                                 *)

BeginExecute(r, t) ==
  /\ At(r, "idle")
  /\ AgentOf[t] # NoAgent
  /\ req' = [req EXCEPT ![r] = [Idle EXCEPT !.pc = "check_agent", !.task = t,
                                            !.seen = task[t].status]]
  /\ UNCHANGED <<task, agent, conversations>>

CheckAgent(r) ==
  /\ At(r, "check_agent")
  /\ agent[AgentFor(r)] = "AVAILABLE"
  /\ Goto(r, "claim_task")
  /\ UNCHANGED <<task, agent, conversations>>

\* The agent is not usable, or the project, its git origin or the adapter's
\* configuration is: a pre-flight failure changes nothing.
RejectExecute(r) ==
  /\ At(r, "check_agent")
  /\ Return(r)
  /\ UNCHANGED <<task, agent, conversations>>

StartTask(r) ==
  /\ At(r, "claim_task")
  /\ \/ /\ ValidTransition(req[r].seen, "RUNNING")
        /\ MayWrite(r)
        /\ CasWins(r)
        /\ task' = [task EXCEPT ![req[r].task] = Moved(@, "RUNNING")]
        /\ Goto(r, "reload")
     \/ /\ ValidTransition(req[r].seen, "RUNNING") => MayWrite(r) /\ ~CasWins(r)
        /\ Return(r)
        /\ UNCHANGED task
  /\ UNCHANGED <<agent, conversations>>

\* session.refresh(task) runs after the commit: it may already see another change.
Reload(r) ==
  /\ At(r, "reload")
  /\ req' = [req EXCEPT ![r].pc = "claim_agent", ![r].seen = Row(r).status,
                        ![r].loaded = Row(r).execution]
  /\ UNCHANGED <<task, agent, conversations>>

ClaimAgent(r) ==
  /\ At(r, "claim_agent")
  /\ \/ /\ AgentFree(r)
        /\ MayClaim(r)
        /\ Goto(r, "calling")
     \/ /\ ~AgentFree(r)
        /\ MayWrite(r)
        /\ Goto(r, "claim_lost")
  /\ UNCHANGED <<task, agent, conversations>>

\* Mutant: _fail(release=True) although the claim was lost.
FailUnclaimedReleases(r) ==
  /\ At(r, "claim_lost")
  /\ MayWrite(r)
  /\ IF ValidTransition(req[r].seen, "FAILED") /\ CasWins(r)
       THEN task' = [task EXCEPT ![req[r].task] = Moved(@, "FAILED")]
       ELSE UNCHANGED task
  /\ Goto(r, "release")
  /\ UNCHANGED <<agent, conversations>>

\* _fail(release=False): the agent was never claimed.
FailUnclaimed(r) ==
  /\ At(r, "claim_lost")
  /\ MayWrite(r)
  /\ IF ValidTransition(req[r].seen, "FAILED") /\ CasWins(r)
       THEN task' = [task EXCEPT ![req[r].task] = Moved(@, "FAILED")]
       ELSE UNCHANGED task
  /\ Return(r)
  /\ UNCHANGED <<agent, conversations>>

\* The adapter answers with the handle of a conversation.
ProviderStarts(r) ==
  /\ At(r, "calling")
  /\ conversations[req[r].task] < MaxConversations
  /\ conversations' = [conversations EXCEPT ![req[r].task] = @ + 1]
  /\ req' = [req EXCEPT ![r].pc = "record",
                        ![r].handle = conversations[req[r].task] + 1]
  /\ UNCHANGED <<task, agent>>

\* The adapter raises an AgentError; after a timeout a conversation may exist.
ProviderFails(r) ==
  /\ At(r, "calling")
  /\ \/ UNCHANGED conversations
     \/ /\ conversations[req[r].task] < MaxConversations
        /\ conversations' = [conversations EXCEPT ![req[r].task] = @ + 1]
  /\ Goto(r, "start_failed")
  /\ UNCHANGED <<task, agent>>

\* Any other exception ends the request, before or after the provider has started
\* a conversation: closing the session undoes the claim.
ProviderRaises(r) ==
  /\ "unexpected" \in Faults
  /\ At(r, "calling")
  /\ \/ UNCHANGED conversations
     \/ /\ conversations[req[r].task] < MaxConversations
        /\ conversations' = [conversations EXCEPT ![req[r].task] = @ + 1]
  /\ Return(r)
  /\ UNCHANGED <<task, agent>>

\* Mutant: the handle is not assigned to the row.
WithHandleUnsaved(row, r) ==
  [row EXCEPT !.execution = Flushed(@, req[r].loaded, "running")]

\* The row with the handle flushed into it.
WithHandle(row, r) ==
  [row EXCEPT !.reference = req[r].handle,
              !.execution = Flushed(@, req[r].loaded, "running")]

\* wait_for_agent commits the claim, the handle and the transition together.  A
\* lost compare-and-swap still commits the first two and releases afterwards; a
\* transition that is illegal from the reloaded state releases before the commit.
RecordHandle(r) ==
  /\ At(r, "record")
  /\ LET t == req[r].task IN
     \/ /\ ValidTransition(req[r].seen, "WAITING_FOR_AGENT")
        /\ agent' = [agent EXCEPT ![AgentFor(r)] = "BUSY"]
        /\ IF CasWins(r)
             THEN /\ task' = [task EXCEPT ![t] = Moved(WithHandle(@, r), "WAITING_FOR_AGENT")]
                  /\ Return(r)
             ELSE /\ task' = [task EXCEPT ![t] = WithHandle(@, r)]
                  /\ Goto(r, "release")
     \/ /\ ~ValidTransition(req[r].seen, "WAITING_FOR_AGENT")
        /\ task' = [task EXCEPT ![t] = WithHandle(@, r)]
        /\ Return(r)
        /\ UNCHANGED agent
  /\ UNCHANGED conversations

\* Mutant: a failed start releases the agent but leaves the task RUNNING.
FailStartUnrecorded(r) ==
  /\ At(r, "start_failed")
  /\ agent' = [agent EXCEPT ![AgentFor(r)] = "BUSY"]
  /\ Goto(r, "release")
  /\ UNCHANGED <<task, conversations>>

\* _fail(release=True) after a failed start.  The commit of the transition also
\* commits the claim; an illegal transition rolls the claim back.
FailStart(r) ==
  /\ At(r, "start_failed")
  /\ \/ /\ ValidTransition(req[r].seen, "FAILED")
        /\ agent' = [agent EXCEPT ![AgentFor(r)] = "BUSY"]
        /\ IF CasWins(r)
             THEN task' = [task EXCEPT ![req[r].task] = Moved(@, "FAILED")]
             ELSE UNCHANGED task
     \/ /\ ~ValidTransition(req[r].seen, "FAILED")
        /\ UNCHANGED <<task, agent>>
  /\ Goto(r, "release")
  /\ UNCHANGED conversations

-----------------------------------------------------------------------------
(* POST /tasks/{id}/execution/refresh                                       *)

InFlight(t) == task[t].status = "WAITING_FOR_AGENT" /\ task[t].reference # 0

Refreshing(r, t) == req[r].pc \in Polling /\ req[r].task = t

BeginRefresh(r, t) ==
  /\ At(r, "idle")
  /\ AgentOf[t] # NoAgent
  /\ InFlight(t)
  /\ ConcurrentRefresh \/ \A q \in Requests : ~Refreshing(q, t)
  /\ req' = [req EXCEPT ![r] = [Idle EXCEPT !.pc = "poll", !.task = t,
                                            !.seen = task[t].status,
                                            !.loaded = task[t].execution,
                                            !.handle = task[t].reference]]
  /\ UNCHANGED <<task, agent, conversations>>

\* Mutant: a running or unknown answer never meets the patience boundary.
PollForever(r) ==
  /\ At(r, "poll")
  /\ \/ Goto(r, "complete")
     \/ \E state \in {"running", "unknown"} :
          req' = [req EXCEPT ![r].pc = "store", ![r].polled = state]
  /\ UNCHANGED <<task, agent, conversations>>

\* Mutant: the agent is released as soon as the answer is in, before the transition.
PollReleasesFirst(r) ==
  /\ At(r, "poll")
  /\ \/ /\ Goto(r, "complete")
        /\ agent' = [agent EXCEPT ![AgentFor(r)] = "AVAILABLE"]
     \/ /\ Goto(r, "fail")
        /\ UNCHANGED agent
  /\ UNCHANGED <<task, conversations>>

\* The poll, and what the answer and the patience boundary decide.
PollProvider(r) ==
  /\ At(r, "poll")
  /\ \/ Goto(r, "complete")            \* COMPLETED
     \/ req' = [req EXCEPT ![r].pc = "fail", ![r].polled = "failed"]
     \/ Goto(r, "fail")                \* the poll raised an AgentError
     \/ /\ Row(r).started = "expired"  \* RUNNING or UNKNOWN for too long
        /\ Goto(r, "fail")
     \/ /\ Row(r).started # "expired"
        /\ \E state \in {"running", "unknown"} :
             req' = [req EXCEPT ![r].pc = "store", ![r].polled = state]
  /\ UNCHANGED <<task, agent, conversations>>

\* The adapter cannot be built, or raises something that is not an AgentError.
PollRaises(r) ==
  /\ "unexpected" \in Faults
  /\ At(r, "poll")
  /\ Return(r)
  /\ UNCHANGED <<task, agent, conversations>>

StorePoll(r) ==
  /\ At(r, "store")
  /\ req[r].polled = req[r].loaded \/ MayWrite(r)
  /\ task' = [task EXCEPT ![req[r].task].execution =
                            Flushed(@, req[r].loaded, req[r].polled)]
  /\ Return(r)
  /\ UNCHANGED <<agent, conversations>>

\* Mutant: the result is assigned after submit_for_review, in no flush.
WithStatusOnly(row, r) ==
  [row EXCEPT !.execution = Flushed(@, req[r].loaded, "completed")]

\* Mutant: the flush writes every column that the session loaded.
WithWholeCopy(row, r) ==
  [row EXCEPT !.execution = "completed", !.result = TRUE, !.reference = req[r].handle]

\* The row with the provider's completion flushed into it.
WithResult(row, r) ==
  [row EXCEPT !.execution = Flushed(@, req[r].loaded, "completed"), !.result = TRUE]

\* submit_for_review: the flush happens whether or not the transition is won.
CompleteExecution(r) ==
  /\ At(r, "complete")
  /\ MayWrite(r)
  /\ IF CasWins(r)
       THEN /\ task' = [task EXCEPT ![req[r].task] =
                                      Moved(WithResult(@, r), "WAITING_FOR_REVIEW")]
            /\ Goto(r, "release")
       ELSE /\ task' = [task EXCEPT ![req[r].task] = WithResult(@, r)]
            /\ Return(r)
  /\ UNCHANGED <<agent, conversations>>

\* Mutant: a failed execution keeps the agent.
FailExecutionKeepsAgent(r) ==
  /\ At(r, "fail")
  /\ MayWrite(r)
  /\ IF CasWins(r)
       THEN task' = [task EXCEPT ![req[r].task] = Moved(@, "FAILED")]
       ELSE UNCHANGED task
  /\ Return(r)
  /\ UNCHANGED <<agent, conversations>>

\* _fail(release=True): the agent is released even when the transition is lost.
FailExecution(r) ==
  /\ At(r, "fail")
  /\ MayWrite(r)
  /\ IF CasWins(r)
       THEN task' = [task EXCEPT ![req[r].task] = Moved(@, "FAILED")]
       ELSE UNCHANGED task
  /\ Goto(r, "release")
  /\ UNCHANGED <<agent, conversations>>

\* Mutant: an ordinary release marks the agent ERROR.
ReleaseAgentMarksError(r) ==
  /\ At(r, "release")
  /\ MayWrite(r)
  /\ agent' = [agent EXCEPT ![AgentFor(r)] = "ERROR"]
  /\ Return(r)
  /\ UNCHANGED <<task, conversations>>

\* The last step of a request that held an agent: BUSY -> AVAILABLE, and commit.
ReleaseAgent(r) ==
  /\ At(r, "release")
  /\ MayWrite(r)
  /\ agent' = [agent EXCEPT ![AgentFor(r)] = "AVAILABLE"]
  /\ Return(r)
  /\ UNCHANGED <<task, conversations>>

-----------------------------------------------------------------------------
(* POST /tasks/{id}/cancel, and the in-process callers of TaskService.      *)

\* A cancel that the API or the state machine rejects, or that finds the task
\* already cancelled, ends without a write.
BeginCancel(r, t) ==
  /\ At(r, "idle")
  /\ ~InFlight(t)
  /\ ValidTransition(task[t].status, "CANCELLED")
  /\ task[t].status = "RUNNING" => CancelRunning
  /\ req' = [req EXCEPT ![r] = [Idle EXCEPT !.pc = "transition", !.task = t,
                                            !.seen = task[t].status,
                                            !.target = "CANCELLED"]]
  /\ UNCHANGED <<task, agent, conversations>>

BeginTransition(r, t, new) ==
  /\ At(r, "idle")
  /\ ValidTransition(task[t].status, new)
  /\ req' = [req EXCEPT ![r] = [Idle EXCEPT !.pc = "transition", !.task = t,
                                            !.seen = task[t].status,
                                            !.target = new]]
  /\ UNCHANGED <<task, agent, conversations>>

Transition(r) ==
  /\ At(r, "transition")
  /\ MayWrite(r)
  /\ IF CasWins(r)
       THEN task' = [task EXCEPT ![req[r].task] = Moved(@, req[r].target)]
       ELSE UNCHANGED task
  /\ Return(r)
  /\ UNCHANGED <<agent, conversations>>

-----------------------------------------------------------------------------
(* The environment: time, lock timeouts, crashes.                           *)

PatienceRunsOut(t) ==
  /\ task[t].started = "recent"
  /\ task' = [task EXCEPT ![t].started = "expired"]
  /\ UNCHANGED <<agent, req, conversations>>

Writing == {"claim_task", "claim_agent", "store", "complete", "fail",
            "release", "transition"}

\* "database is locked": an OperationalError ends the request where it stands.
LockTimeout(r) ==
  /\ req[r].pc \in Writing
  /\ ~MayWrite(r)
  /\ Return(r)
  /\ UNCHANGED <<task, agent, conversations>>

\* Uncommitted claims are undone; nothing is reconciled at the next start.
Crash ==
  /\ "crash" \in Faults
  /\ \E r \in Requests : ~At(r, "idle")
  /\ req' = [r \in Requests |-> Idle]
  /\ UNCHANGED <<task, agent, conversations>>

-----------------------------------------------------------------------------

ExecuteStep(r) ==
  \/ CheckAgent(r) \/ RejectExecute(r) \/ StartTask(r) \/ Reload(r)
  \/ ClaimAgent(r) \/ FailUnclaimed(r)
  \/ ProviderStarts(r) \/ ProviderFails(r) \/ ProviderRaises(r)
  \/ RecordHandle(r) \/ FailStart(r)

RefreshStep(r) ==
  \/ PollProvider(r) \/ PollRaises(r) \/ StorePoll(r)
  \/ CompleteExecution(r) \/ FailExecution(r)

\* A step of a request that is being served.
Step(r) ==
  \/ ExecuteStep(r) \/ RefreshStep(r) \/ ReleaseAgent(r)
  \/ Transition(r) \/ LockTimeout(r)

Begin(r) ==
  \E t \in Tasks :
     \/ BeginExecute(r, t) \/ BeginRefresh(r, t) \/ BeginCancel(r, t)
     \/ \E new \in ServiceTargets : BeginTransition(r, t, new)

Next ==
  \/ \E r \in Requests : Begin(r) \/ Step(r)
  \/ \E t \in Tasks : PatienceRunsOut(t)
  \/ Crash

Spec == Init /\ [][Next]_vars

\* The thread pool keeps serving every request, and every provider call returns
\* (its HTTP timeouts bound it).
\* Started executions get old, and a client keeps polling those in flight.
Fairness ==
  /\ \A r \in Requests : WF_vars(Step(r))
  /\ \A t \in Tasks : WF_vars(PatienceRunsOut(t))
  /\ \A t \in Tasks : SF_vars(\E r \in Requests : BeginRefresh(r, t))

FairSpec == Spec /\ Fairness

-----------------------------------------------------------------------------
(* Properties.                                                              *)

\* Every column and every request field keeps its type.
TypeOK ==
  /\ task \in [Tasks -> TaskRow]
  /\ agent \in [Agents -> AgentStatus]
  /\ req \in [Requests -> Request]
  /\ conversations \in [Tasks -> References]

Waiting(t) == task[t].status = "WAITING_FOR_AGENT"
WaitingOn(a) == {t \in Tasks : AgentOf[t] = a /\ Waiting(t)}
ClaimsOf(a) == {r \in Requests : HoldsClaim(r) /\ AgentFor(r) = a}
ReleasesOf(a) == {r \in Requests : At(r, "release") /\ AgentFor(r) = a}

\* One agent never runs two executions at once: the executions waiting for it
\* and the starts that claimed it are at most one together (claim_agent,
\* release_agent and the order in which execute and refresh use them).
OneExecutionPerAgent ==
  \A a \in Agents :
    /\ \A t, u \in WaitingOn(a) : t = u
    /\ \A r, q \in ClaimsOf(a) : r = q
    /\ WaitingOn(a) = {} \/ ClaimsOf(a) = {}

\* An agent is BUSY only while an execution waits for it or a request is about
\* to release it: no path of execute or refresh forgets the release.
NoLeakedAgent ==
  \A a \in Agents :
    agent[a] = "BUSY" => WaitingOn(a) # {} \/ ReleasesOf(a) # {}

\* A RUNNING task is being started by exactly one live request: execute_task
\* leaves every task either waiting with a handle or failed.
RunningIsServed ==
  \A t \in Tasks : task[t].status = "RUNNING" =>
    \E r \in Requests :
      /\ req[r].pc \in Starting /\ req[r].task = t
      /\ \A q \in Requests \ {r} : req[q].pc \in Starting => req[q].task # t

\* A waiting task holds the handle of the newest conversation started for it,
\* so the conversation that refresh polls is the one doing the work.
TracksNewestConversation ==
  \A t \in Tasks : Waiting(t) =>
    task[t].reference # 0 /\ task[t].reference = conversations[t]

\* A task that was put up for review, and a row that says "completed", have a
\* result, and a result belongs to a conversation the row can name.  Overlapping
\* refreshes flush stale answers into the row (refresh_execution assigns before the
\* transition): execution_status may fall back to "unknown", the result stays.
ResultsAreBacked ==
  \A t \in Tasks :
    /\ task[t].status \in {"WAITING_FOR_REVIEW", "WAITING_FOR_APPROVAL", "COMPLETED"}
         \/ task[t].execution = "completed" => task[t].result
    /\ task[t].result => task[t].reference # 0
    /\ task[t].reference # 0 => task[t].execution # "none"

\* A handle is only replaced by that of a conversation started later: no commit of
\* a late or overtaken request, which flushes whatever its transition came to, puts
\* back the handle, or takes back the result, that others have recorded since.
LateFlushesKeepProgress ==
  [][\A t \in Tasks :
       /\ task'[t].reference # task[t].reference =>
            task[t].reference < task'[t].reference /\ task'[t].reference = conversations[t]
       /\ task[t].result => task'[t].result]_vars

\* A task goes to review only on the answer about the conversation it holds.  The
\* compare-and-swap of submit_for_review compares the status alone: an answer about
\* an earlier execution would win it as well.  What keeps such answers out is the
\* agent: it stays BUSY while a refresh is under way, so the task is not executed
\* again before the answer is in, provided no two refreshes of it overlap.
ReviewIsOfCurrentExecution ==
  [][\A t \in Tasks :
       Waiting(t) /\ task'[t].status = "WAITING_FOR_REVIEW" =>
         \E r \in Requests : /\ At(r, "complete") /\ req[r].task = t
                              /\ req[r].handle = task[t].reference]_vars

\* A release frees the claim of the execution that ended, never one that
\* another execution took meanwhile.
ReleaseFreesOwnClaim ==
  [][\A a \in Agents :
       agent[a] = "BUSY" /\ agent'[a] = "AVAILABLE" => WaitingOn(a) = {}]_vars

\* The status column of every task follows the lifecycle, under any interleaving
\* of requests, in-process callers, lock timeouts and crashes.
Lifecycle == INSTANCE TaskLifecycle WITH status <- [t \in Tasks |-> task[t].status]
FollowsLifecycle == Lifecycle!Spec

\* An execution in flight ends: the provider's answer or the orchestrator's
\* patience moves the task out of WAITING_FOR_AGENT.
ExecutionsEnd == \A t \in Tasks : Waiting(t) ~> ~Waiting(t)

\* A claimed agent becomes available again.
AgentsComeBack == \A a \in Agents : agent[a] = "BUSY" ~> agent[a] = "AVAILABLE"
=============================================================================
