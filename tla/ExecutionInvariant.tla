-------------------------- MODULE ExecutionInvariant --------------------------
(***************************************************************************)
(* The inductive invariants behind the theorems about Execution.  IInv is  *)
(* behind the exclusivity of agents: it holds, for every lock scope and    *)
(* every fault, when the clients keep to Discipline.  StartInv and         *)
(* BackedInv are behind what holds of starts and of the columns of an      *)
(* execution when they do not.                                             *)
(***************************************************************************)
EXTENDS Execution

\* One refresh of a task at a time, no cancellation of a RUNNING task, and no
\* in-process caller that sends a task back to RUNNING or ends it under a request.
\* Execute accepts a task that waits for approval, so a task may be executed again.
AskedTargets == {"PLANNED", "QUEUED", "COMPLETED", "WAITING_FOR_APPROVAL"}
Discipline ==
  /\ ~ConcurrentRefresh
  /\ ~CancelRunning
  /\ ServiceTargets \subseteq AskedTargets

\* Nobody asks for approval: a task is executed once.
ExecutedOnce == "WAITING_FOR_APPROVAL" \notin ServiceTargets

\* The states of a task whose execution is over.
Over == {"WAITING_FOR_REVIEW", "COMPLETED", "FAILED", "CANCELLED"}

\* A request that is being served has a task, with an agent unless it transitions
\* it; an answer about to be stored is one of the two that execution_status takes.
BusyHasTask ==
  \A r \in Requests : ~At(r, "idle") =>
    /\ req[r].task \in Tasks
    /\ ~At(r, "transition") => AgentFor(r) \in Agents
    /\ At(r, "store") => req[r].polled \in {"running", "unknown"}

TypeInv == TypeOK /\ BusyHasTask

\* A task that is being started is RUNNING, and only one request starts it.
StartersOwnTheirTask ==
  /\ \A r \in Requests : req[r].pc \in Starting =>
       /\ Row(r).status = "RUNNING"
       /\ At(r, "reload") \/ req[r].seen = "RUNNING"
  /\ \A r, q \in Requests :
       req[r].pc \in Starting /\ req[q].pc \in Starting /\ req[r].task = req[q].task => r = q

\* A task that is being refreshed stays in flight until an execute call that read it
\* in an earlier execution wins it and fails it; only one request refreshes it.
PollersOwnTheirTask ==
  /\ \A r \in Requests : req[r].pc \in Polling =>
       /\ Row(r).status \in {"WAITING_FOR_AGENT", "RUNNING", "FAILED"}
       /\ req[r].seen = "WAITING_FOR_AGENT"
  /\ \A r, q \in Requests :
       req[r].pc \in Polling /\ req[q].pc \in Polling /\ req[r].task = req[q].task => r = q

\* A transition from outside touches no task that a request starts or refreshes.
TransitionsKeepOff ==
  \A r \in Requests : At(r, "transition") =>
    /\ ValidTransition(req[r].seen, req[r].target)
    /\ req[r].seen \notin {"RUNNING", "WAITING_FOR_AGENT"}
    /\ req[r].target \in AskedTargets \cup {"CANCELLED"}

\* A handle about to be recorded is that of the newest conversation.
HandleIsNewest ==
  \A r \in Requests : At(r, "record") =>
    req[r].handle # 0 /\ req[r].handle = conversations[req[r].task]

\* A task holds its agent while it waits for it or a refresh of it is under way.
Polled(t) == \E r \in Requests : req[r].pc \in Polling /\ req[r].task = t
Held(t) == Waiting(t) \/ Polled(t)

\* What agents.status says about whom the agent belongs to.
AgentColumn ==
  /\ \A t \in Tasks : Held(t) => AgentOf[t] \in Agents /\ agent[AgentOf[t]] = "BUSY"
  /\ \A r \in Requests : At(r, "release") => agent[AgentFor(r)] = "BUSY"
  /\ \A r \in Requests : HoldsClaim(r) => agent[AgentFor(r)] = "AVAILABLE"

\* At most one owner of an agent: an execution, a claim or a pending release.
OneOwner ==
  /\ \A t, u \in Tasks : Held(t) /\ Held(u) /\ AgentOf[t] = AgentOf[u] => t = u
  /\ \A r, q \in Requests : HoldsClaim(r) /\ HoldsClaim(q) /\ AgentFor(r) = AgentFor(q) => r = q
  /\ \A r, q \in Requests : At(r, "release") /\ At(q, "release") /\ AgentFor(r) = AgentFor(q) => r = q
  /\ \A r \in Requests, t \in Tasks : At(r, "release") /\ Held(t) => AgentFor(r) # AgentOf[t]

\* Who owns what: a task is served by one request, an agent by one execution.
Ownership ==
  /\ StartersOwnTheirTask /\ PollersOwnTheirTask /\ TransitionsKeepOff /\ HandleIsNewest /\ TracksNewestConversation
  /\ AgentColumn /\ OneOwner

\* Every request works on a row in the state it relies on, and every agent has one
\* owner at most: what execute, refresh and release rely on without checking it.
IInv == TypeInv /\ Ownership

\* The answer that a refresh is about to get is about the conversation in the row.
PollsAreCurrent ==
  \A r \in Requests : req[r].pc \in Polling => req[r].handle = Row(r).reference

\* An execute call that read a waiting task cannot win its compare-and-swap any more.
LateExecuteLoses ==
  \A r \in Requests : req[r].seen = "WAITING_FOR_AGENT" =>
    /\ At(r, "check_agent") => Row(r).status \in Over \cup {"WAITING_FOR_AGENT"}
    /\ At(r, "claim_task") => Row(r).status \in Over

\* Nobody asks for approval, so RUNNING is entered from QUEUED only.
NoApproval ==
  /\ \A t \in Tasks : task[t].status # "WAITING_FOR_APPROVAL"
  /\ \A r \in Requests : req[r].seen # "WAITING_FOR_APPROVAL"

\* What IInv lacks where tasks are executed once: nobody wins a task in flight.
OnceInv == LateExecuteLoses /\ NoApproval

-----------------------------------------------------------------------------
(* What holds whatever the clients do: TracksNewestConversation,            *)
(* RunningIsServed, ResultsAreBacked and LateFlushesKeepProgress need no    *)
(* Discipline.                                                              *)

\* Only execute_task sends a task to WAITING_FOR_AGENT, or to RUNNING: no caller
\* but the execution service uses wait_for_agent and start of TaskService.
OnlyExecuteWaits == "WAITING_FOR_AGENT" \notin ServiceTargets
OnlyExecuteStarts == OnlyExecuteWaits /\ "RUNNING" \notin ServiceTargets

\* Only refresh_execution submits a task for review: nobody else uses submit_for_review.
OnlyRefreshSubmits == "WAITING_FOR_REVIEW" \notin ServiceTargets

\* What the copies that requests hold guarantee about their next transition: a
\* poller read WAITING_FOR_AGENT, a transition was validated against its copy.
CopiesAreValid ==
  \A r \in Requests :
    /\ req[r].pc \in Polling => req[r].seen = "WAITING_FOR_AGENT"
    /\ At(r, "transition") => ValidTransition(req[r].seen, req[r].target)

\* A transition from outside is a cancellation or one the in-process callers make.
TransitionsAreAsked ==
  \A r \in Requests : At(r, "transition") => req[r].target \in ServiceTargets \cup {"CANCELLED"}

\* A task that is being started is RUNNING or was ended under its request, which
\* is the only one that starts it and, past the reload, knows that it is RUNNING.
OneStarter ==
  /\ \A r \in Requests : req[r].pc \in Starting =>
       /\ Row(r).status \in {"RUNNING"} \cup TerminalStates
       /\ Row(r).status = "RUNNING" => At(r, "reload") \/ req[r].seen = "RUNNING"
  /\ \A r, q \in Requests :
       req[r].pc \in Starting /\ req[q].pc \in Starting /\ req[r].task = req[q].task => r = q

\* Inductive under OnlyExecuteWaits alone.
StartInv ==
  /\ TypeInv /\ CopiesAreValid /\ TransitionsAreAsked
  /\ OneStarter /\ HandleIsNewest /\ TracksNewestConversation

\* What a request loaded from a row the row still has: a handle, and a first
\* execution status, are never taken back.
CopiesAreBacked ==
  \A r \in Requests : ~At(r, "idle") =>
    /\ req[r].loaded # "none" => Row(r).execution # "none"
    /\ req[r].pc \in Polling => Row(r).reference # 0

\* Inductive on top of StartInv, when only refresh_execution submits for review.
BackedInv == CopiesAreBacked /\ ResultsAreBacked

\* A row names a conversation that was started, and one older than the conversation
\* whose handle is about to be recorded.
ReferencesTrail ==
  /\ \A t \in Tasks : task[t].reference <= conversations[t]
  /\ \A r \in Requests : At(r, "record") => Row(r).reference < req[r].handle

\* PostgreSQL's row locks, and a process and an adapter that do not fail.
Calm == LockScope = "row" /\ Faults = {}

\* Every RUNNING task is being started by some request.
StartsAreServed ==
  \A t \in Tasks : task[t].status = "RUNNING" =>
    \E r \in Requests : req[r].pc \in Starting /\ req[r].task = t

\* A request that holds the write lock, or a claim, never waits for a lock: no two
\* requests wait for each other.
HoldersNeverWait == \A r \in Requests : InWrite(r) => MayWrite(r)
=============================================================================
