--------------------------- MODULE Exclusivity_proofs ---------------------------
(***************************************************************************)
(* One agent never runs two executions at once, for every number of tasks, *)
(* agents and requests, both lock scopes and every fault, as long as the   *)
(* clients keep to Discipline.  Each lemma of the first part takes what an *)
(* action writes, field by field, and shows that Ownership is kept; the    *)
(* second part derives those fields from the actions.                      *)
(***************************************************************************)
EXTENDS Execution_proofs

\* The requests being served, and the agents they work with, are in the tables.
LEMMA Placed ==
  ASSUME TypeInv
  PROVE  \A q \in Requests : req[q].pc # "idle" =>
           /\ req[q].task \in Tasks
           /\ req[q].pc # "transition" => AgentOf[req[q].task] \in Agents
BY DEF TypeInv, BusyHasTask, At, AgentFor

-----------------------------------------------------------------------------
(* What keeps Ownership.                                                    *)

\* No other request and no other row is written.
Alone(r) ==
  /\ \A q \in Requests \ {r} : req'[q] = req[q]
  /\ \A t \in Tasks \ {req[r].task} : task'[t] = task[t]

\* A request returns and no status or reference changes; a start may leave a
\* conversation behind.
LEMMA KeepRetire ==
  ASSUME IInv, NEW r \in Requests,
         req'[r] = Idle,
         \A q \in Requests \ {r} : req'[q] = req[q],
         \A t \in Tasks : task'[t].status = task[t].status /\ task'[t].reference = task[t].reference,
         \A t \in Tasks : conversations'[t] # conversations[t] => t = req[r].task /\ req[r].pc \in Starting,
         UNCHANGED agent
  PROVE  Ownership'
<1>1. TypeInv /\ Ownership
  BY DEF IInv
<1> USE <1>1, Placed
   DEF Ownership, Alone, At, Row, AgentFor, HoldsClaim, Waiting, ClaimHeld,
       Starting, Polling, Idle
<1>2. StartersOwnTheirTask' /\ PollersOwnTheirTask'
  BY DEF StartersOwnTheirTask, PollersOwnTheirTask
<1>3. TransitionsKeepOff'
  BY DEF TransitionsKeepOff
<1>4. HandleIsNewest' /\ TracksNewestConversation'
  BY DEF HandleIsNewest, TracksNewestConversation, StartersOwnTheirTask
<1>5. \A t \in Tasks : Held(t)' => Held(t)
  BY DEF Held, Polled
<1>6. AgentColumn' /\ OneOwner'
  BY <1>5 DEF AgentColumn, OneOwner
<1> QED
  BY <1>2, <1>3, <1>4, <1>6

\* An execute call reads the row of its task.
LEMMA KeepBeginExecute ==
  ASSUME IInv, NEW r \in Requests,
         At(r, "idle"),
         req'[r].pc = "check_agent",
         req'[r].task \in Tasks,
         req'[r].seen = task[req'[r].task].status,
         \A q \in Requests \ {r} : req'[q] = req[q],
         UNCHANGED <<task, agent, conversations>>
  PROVE  Ownership'
<1>1. TypeInv /\ Ownership
  BY DEF IInv
<1> USE <1>1, Placed
   DEF Ownership, Alone, At, Row, AgentFor, HoldsClaim, Waiting, ClaimHeld,
       Starting, Polling
<1>2. StartersOwnTheirTask' /\ PollersOwnTheirTask'
  BY DEF StartersOwnTheirTask, PollersOwnTheirTask
<1>3. TransitionsKeepOff'
  BY DEF TransitionsKeepOff
<1>4. HandleIsNewest' /\ TracksNewestConversation'
  BY DEF HandleIsNewest, TracksNewestConversation
<1>5. \A t \in Tasks : Held(t)' => Held(t)
  BY DEF Held, Polled
<1>6. AgentColumn' /\ OneOwner'
  BY <1>5 DEF AgentColumn, OneOwner
<1> QED
  BY <1>2, <1>3, <1>4, <1>6

\* A refresh reads a task in flight that nobody else refreshes.
LEMMA KeepBeginRefresh ==
  ASSUME IInv, NEW r \in Requests,
         At(r, "idle"),
         req'[r].pc = "poll",
         req'[r].task \in Tasks,
         req'[r].seen = "WAITING_FOR_AGENT",
         task[req'[r].task].status = "WAITING_FOR_AGENT",
         \A q \in Requests : ~Refreshing(q, req'[r].task),
         \A q \in Requests \ {r} : req'[q] = req[q],
         UNCHANGED <<task, agent, conversations>>
  PROVE  Ownership'
<1>1. TypeInv /\ Ownership
  BY DEF IInv
<1> USE <1>1, Placed
   DEF Ownership, Alone, At, Row, AgentFor, HoldsClaim, Waiting, ClaimHeld,
       Starting, Polling, Refreshing
<1>2. StartersOwnTheirTask' /\ PollersOwnTheirTask'
  BY DEF StartersOwnTheirTask, PollersOwnTheirTask
<1>3. TransitionsKeepOff'
  BY DEF TransitionsKeepOff
<1>4. HandleIsNewest' /\ TracksNewestConversation'
  BY DEF HandleIsNewest, TracksNewestConversation
<1>5. \A t \in Tasks : Held(t)' => Held(t)
  BY DEF Held, Polled
<1>6. AgentColumn' /\ OneOwner'
  BY <1>5 DEF AgentColumn, OneOwner
<1> QED
  BY <1>2, <1>3, <1>4, <1>6

\* A cancel or a service call validates a transition of a task nobody serves.
LEMMA KeepBeginTransition ==
  ASSUME IInv, NEW r \in Requests,
         At(r, "idle"),
         req'[r].pc = "transition",
         req'[r].task \in Tasks,
         req'[r].seen = task[req'[r].task].status,
         ValidTransition(req'[r].seen, req'[r].target),
         req'[r].seen \notin {"RUNNING", "WAITING_FOR_AGENT"},
         req'[r].target \in AskedTargets \cup {"CANCELLED"},
         \A q \in Requests \ {r} : req'[q] = req[q],
         UNCHANGED <<task, agent, conversations>>
  PROVE  Ownership'
<1>1. TypeInv /\ Ownership
  BY DEF IInv
<1> USE <1>1, Placed
   DEF Ownership, Alone, At, Row, AgentFor, HoldsClaim, Waiting, ClaimHeld,
       Starting, Polling
<1>2. StartersOwnTheirTask' /\ PollersOwnTheirTask'
  BY DEF StartersOwnTheirTask, PollersOwnTheirTask
<1>3. TransitionsKeepOff'
  BY DEF TransitionsKeepOff
<1>4. HandleIsNewest' /\ TracksNewestConversation'
  BY DEF HandleIsNewest, TracksNewestConversation
<1>5. \A t \in Tasks : Held(t)' => Held(t)
  BY DEF Held, Polled
<1>6. AgentColumn' /\ OneOwner'
  BY <1>5 DEF AgentColumn, OneOwner
<1> QED
  BY <1>2, <1>3, <1>4, <1>6

\* The agent is AVAILABLE, so the task is not in flight.
LEMMA KeepCheckAgent ==
  ASSUME IInv, NEW r \in Requests,
         req[r].pc = "check_agent",
         req'[r].pc = "claim_task",
         req'[r].task = req[r].task,
         req'[r].seen = req[r].seen,
         agent[AgentFor(r)] = "AVAILABLE",
         \A q \in Requests \ {r} : req'[q] = req[q],
         UNCHANGED <<task, agent, conversations>>
  PROVE  Ownership'
<1>1. TypeInv /\ Ownership
  BY DEF IInv
<1> USE <1>1, Placed
   DEF Ownership, Alone, At, Row, AgentFor, HoldsClaim, Waiting, ClaimHeld,
       Starting, Polling
<1>2. StartersOwnTheirTask' /\ PollersOwnTheirTask'
  BY DEF StartersOwnTheirTask, PollersOwnTheirTask
<1>3. TransitionsKeepOff'
  BY DEF TransitionsKeepOff
<1>4. HandleIsNewest' /\ TracksNewestConversation'
  BY DEF HandleIsNewest, TracksNewestConversation
<1>5. \A t \in Tasks : Held(t)' => Held(t)
  BY DEF Held, Polled
<1>6. AgentColumn' /\ OneOwner'
  BY <1>5 DEF AgentColumn, OneOwner
<1> QED
  BY <1>2, <1>3, <1>4, <1>6

\* A won start: a RUNNING task is not won, so nobody else starts it.
LEMMA KeepStartTask ==
  ASSUME IInv, NEW r \in Requests,
         req[r].pc = "claim_task",
         req'[r].pc = "reload",
         req'[r].task = req[r].task,
         req'[r].seen = req[r].seen,
         CasWins(r),
         ValidTransition(req[r].seen, "RUNNING"),
         task'[req[r].task].status = "RUNNING",
         task'[req[r].task].reference = Row(r).reference,
         Alone(r),
         UNCHANGED <<agent, conversations>>
  PROVE  Ownership'
<1>1. TypeInv /\ Ownership
  BY DEF IInv
<1>2. Row(r).status \notin {"RUNNING"} \cup TerminalStates
  BY RunningEdges DEF CasWins
<1> USE <1>1, <1>2, Placed
   DEF Ownership, Alone, At, Row, AgentFor, HoldsClaim, Waiting, ClaimHeld,
       Starting, Polling
<1>3. StartersOwnTheirTask' /\ PollersOwnTheirTask'
  BY DEF StartersOwnTheirTask, PollersOwnTheirTask
<1>4. TransitionsKeepOff'
  BY DEF TransitionsKeepOff
<1>5. HandleIsNewest' /\ TracksNewestConversation'
  BY DEF HandleIsNewest, TracksNewestConversation
<1>6. \A t \in Tasks : Held(t)' => Held(t)
  BY DEF Held, Polled
<1>7. AgentColumn' /\ OneOwner'
  BY <1>6 DEF AgentColumn, OneOwner
<1> QED
  BY <1>3, <1>4, <1>5, <1>7

\* A starting request moves on, holding a claim only if it held one.
LEMMA KeepStarting ==
  ASSUME IInv, NEW r \in Requests,
         req[r].pc \in Starting,
         req'[r].pc \in Starting,
         req'[r].task = req[r].task,
         req'[r].seen = "RUNNING",
         req'[r].pc \in ClaimHeld => req[r].pc \in ClaimHeld,
         req'[r].pc = "record" => req'[r].handle # 0 /\ req'[r].handle = conversations'[req[r].task],
         \A q \in Requests \ {r} : req'[q] = req[q],
         \A t \in Tasks \ {req[r].task} : conversations'[t] = conversations[t],
         UNCHANGED <<task, agent>>
  PROVE  Ownership'
<1>1. TypeInv /\ Ownership
  BY DEF IInv
<1> USE <1>1, Placed
   DEF Ownership, Alone, At, Row, AgentFor, HoldsClaim, Waiting, ClaimHeld,
       Starting, Polling
<1>2. StartersOwnTheirTask' /\ PollersOwnTheirTask'
  BY DEF StartersOwnTheirTask, PollersOwnTheirTask
<1>3. TransitionsKeepOff'
  BY DEF TransitionsKeepOff
<1>4. HandleIsNewest' /\ TracksNewestConversation'
  BY DEF HandleIsNewest, StartersOwnTheirTask, TracksNewestConversation
<1>5. \A t \in Tasks : Held(t)' => Held(t)
  BY DEF Held, Polled
<1>6. AgentColumn' /\ OneOwner'
  BY <1>5 DEF AgentColumn, OneOwner
<1> QED
  BY <1>2, <1>3, <1>4, <1>6

\* A won claim: the agent is AVAILABLE and nobody else holds it.
LEMMA KeepClaimAgent ==
  ASSUME IInv, NEW r \in Requests,
         req[r].pc = "claim_agent",
         req'[r].pc = "calling",
         req'[r].task = req[r].task,
         req'[r].seen = req[r].seen,
         agent[AgentFor(r)] = "AVAILABLE",
         \A q \in Requests \ {r} : HoldsClaim(q) => AgentFor(q) # AgentFor(r),
         \A q \in Requests \ {r} : req'[q] = req[q],
         UNCHANGED <<task, agent, conversations>>
  PROVE  Ownership'
<1>1. TypeInv /\ Ownership
  BY DEF IInv
<1> USE <1>1, Placed
   DEF Ownership, Alone, At, Row, AgentFor, HoldsClaim, Waiting, ClaimHeld,
       Starting, Polling
<1>2. StartersOwnTheirTask' /\ PollersOwnTheirTask'
  BY DEF StartersOwnTheirTask, PollersOwnTheirTask
<1>3. TransitionsKeepOff'
  BY DEF TransitionsKeepOff
<1>4. HandleIsNewest' /\ TracksNewestConversation'
  BY DEF HandleIsNewest, TracksNewestConversation
<1>5. \A t \in Tasks : Held(t)' => Held(t)
  BY DEF Held, Polled
<1>6. AgentColumn' /\ OneOwner'
  BY <1>5 DEF AgentColumn, OneOwner
<1> QED
  BY <1>2, <1>3, <1>4, <1>6

\* A start that lost its agent fails its task.
LEMMA KeepFailUnclaimed ==
  ASSUME IInv, NEW r \in Requests,
         req[r].pc = "claim_lost",
         req'[r] = Idle,
         task'[req[r].task].status = "FAILED",
         Alone(r),
         UNCHANGED <<agent, conversations>>
  PROVE  Ownership'
<1>1. TypeInv /\ Ownership
  BY DEF IInv
<1> USE <1>1, Placed
   DEF Ownership, Alone, At, Row, AgentFor, HoldsClaim, Waiting, ClaimHeld,
       Starting, Polling, Idle
<1>2. StartersOwnTheirTask' /\ PollersOwnTheirTask'
  BY DEF StartersOwnTheirTask, PollersOwnTheirTask
<1>3. TransitionsKeepOff'
  BY DEF TransitionsKeepOff
<1>4. HandleIsNewest' /\ TracksNewestConversation'
  BY DEF HandleIsNewest, TracksNewestConversation
<1>5. \A t \in Tasks : Held(t)' => Held(t)
  BY DEF Held, Polled
<1>6. AgentColumn' /\ OneOwner'
  BY <1>5 DEF AgentColumn, OneOwner
<1> QED
  BY <1>2, <1>3, <1>4, <1>6

\* The claim becomes an execution that waits for the agent.
LEMMA KeepRecordHandle ==
  ASSUME IInv, NEW r \in Requests,
         req[r].pc = "record",
         req'[r] = Idle,
         task'[req[r].task].status = "WAITING_FOR_AGENT",
         task'[req[r].task].reference = req[r].handle,
         agent'[AgentFor(r)] = "BUSY",
         \A a \in Agents \ {AgentFor(r)} : agent'[a] = agent[a],
         Alone(r),
         UNCHANGED conversations
  PROVE  Ownership'
<1>1. TypeInv /\ Ownership
  BY DEF IInv
<1> USE <1>1, Placed
   DEF Ownership, Alone, At, Row, AgentFor, HoldsClaim, Waiting, ClaimHeld,
       Starting, Polling, Idle
<1>2. StartersOwnTheirTask' /\ PollersOwnTheirTask'
  BY DEF StartersOwnTheirTask, PollersOwnTheirTask
<1>3. TransitionsKeepOff'
  BY DEF TransitionsKeepOff
<1>4. HandleIsNewest' /\ TracksNewestConversation'
  BY DEF HandleIsNewest, TracksNewestConversation
<1>5. \A t \in Tasks : Held(t)' => Held(t) \/ t = req[r].task
  BY DEF Held, Polled
<1>6. AgentColumn' /\ OneOwner'
  BY <1>5 DEF AgentColumn, OneOwner
<1> QED
  BY <1>2, <1>3, <1>4, <1>6

\* The claim becomes a pending release.
LEMMA KeepFailStart ==
  ASSUME IInv, NEW r \in Requests,
         req[r].pc = "start_failed",
         req'[r].pc = "release",
         req'[r].task = req[r].task,
         req'[r].seen = req[r].seen,
         task'[req[r].task].status = "FAILED",
         agent'[AgentFor(r)] = "BUSY",
         \A a \in Agents \ {AgentFor(r)} : agent'[a] = agent[a],
         Alone(r),
         UNCHANGED conversations
  PROVE  Ownership'
<1>1. TypeInv /\ Ownership
  BY DEF IInv
<1> USE <1>1, Placed
   DEF Ownership, Alone, At, Row, AgentFor, HoldsClaim, Waiting, ClaimHeld,
       Starting, Polling
<1>2. StartersOwnTheirTask' /\ PollersOwnTheirTask'
  BY DEF StartersOwnTheirTask, PollersOwnTheirTask
<1>3. TransitionsKeepOff'
  BY DEF TransitionsKeepOff
<1>4. HandleIsNewest' /\ TracksNewestConversation'
  BY DEF HandleIsNewest, TracksNewestConversation
<1>5. \A t \in Tasks : Held(t)' => Held(t)
  BY DEF Held, Polled
<1>6. AgentColumn' /\ OneOwner'
  BY <1>5 DEF AgentColumn, OneOwner
<1> QED
  BY <1>2, <1>3, <1>4, <1>6

\* A refresh moves on with what it read.
LEMMA KeepPolling ==
  ASSUME IInv, NEW r \in Requests,
         req[r].pc \in Polling,
         req'[r].pc \in Polling,
         req'[r].task = req[r].task,
         req'[r].seen = req[r].seen,
         \A q \in Requests \ {r} : req'[q] = req[q],
         UNCHANGED <<task, agent, conversations>>
  PROVE  Ownership'
<1>1. TypeInv /\ Ownership
  BY DEF IInv
<1> USE <1>1, Placed
   DEF Ownership, Alone, At, Row, AgentFor, HoldsClaim, Waiting, ClaimHeld,
       Starting, Polling
<1>2. StartersOwnTheirTask' /\ PollersOwnTheirTask'
  BY DEF StartersOwnTheirTask, PollersOwnTheirTask
<1>3. TransitionsKeepOff'
  BY DEF TransitionsKeepOff
<1>4. HandleIsNewest' /\ TracksNewestConversation'
  BY DEF HandleIsNewest, TracksNewestConversation
<1>5. \A t \in Tasks : Held(t)' => Held(t)
  BY DEF Held, Polled
<1>6. AgentColumn' /\ OneOwner'
  BY <1>5 DEF AgentColumn, OneOwner
<1> QED
  BY <1>2, <1>3, <1>4, <1>6

\* The execution becomes a pending release.
LEMMA KeepEndExecution ==
  ASSUME IInv, NEW r \in Requests,
         req[r].pc \in Polling,
         req'[r].pc = "release",
         req'[r].task = req[r].task,
         req'[r].seen = req[r].seen,
         \/ /\ Row(r).status = "WAITING_FOR_AGENT"
            /\ task'[req[r].task].status \in {"WAITING_FOR_REVIEW", "FAILED"}
         \/ Row(r).status # "WAITING_FOR_AGENT" /\ UNCHANGED task,
         Alone(r),
         UNCHANGED <<agent, conversations>>
  PROVE  Ownership'
<1>1. TypeInv /\ Ownership
  BY DEF IInv
<1> USE <1>1, Placed
   DEF Ownership, Alone, At, Row, AgentFor, HoldsClaim, Waiting, ClaimHeld,
       Starting, Polling
<1>2. StartersOwnTheirTask' /\ PollersOwnTheirTask'
  BY DEF StartersOwnTheirTask, PollersOwnTheirTask
<1>3. TransitionsKeepOff'
  BY DEF TransitionsKeepOff
<1>4. HandleIsNewest' /\ TracksNewestConversation'
  BY DEF HandleIsNewest, TracksNewestConversation
<1>5. \A t \in Tasks : Held(t)' => Held(t)
  BY DEF Held, Polled
<1>6. Held(req[r].task) /\ ~Held(req[r].task)'
  BY DEF Held, Polled, PollersOwnTheirTask
<1>7. AgentColumn' /\ OneOwner'
  BY <1>5, <1>6 DEF AgentColumn, OneOwner
<1> QED
  BY <1>2, <1>3, <1>4, <1>7

\* A release hands back an agent that nobody else owns.
LEMMA KeepRelease ==
  ASSUME IInv, NEW r \in Requests,
         req[r].pc = "release",
         req'[r] = Idle,
         agent'[AgentFor(r)] = "AVAILABLE",
         \A a \in Agents \ {AgentFor(r)} : agent'[a] = agent[a],
         \A q \in Requests \ {r} : req'[q] = req[q],
         UNCHANGED <<task, conversations>>
  PROVE  Ownership'
<1>1. TypeInv /\ Ownership
  BY DEF IInv
<1> USE <1>1, Placed
   DEF Ownership, Alone, At, Row, AgentFor, HoldsClaim, Waiting, ClaimHeld,
       Starting, Polling, Idle
<1>2. StartersOwnTheirTask' /\ PollersOwnTheirTask'
  BY DEF StartersOwnTheirTask, PollersOwnTheirTask
<1>3. TransitionsKeepOff'
  BY DEF TransitionsKeepOff
<1>4. HandleIsNewest' /\ TracksNewestConversation'
  BY DEF HandleIsNewest, TracksNewestConversation
<1>5. \A t \in Tasks : Held(t)' => Held(t)
  BY DEF Held, Polled
<1>6. AgentColumn' /\ OneOwner'
  BY <1>5 DEF AgentColumn, OneOwner
<1> QED
  BY <1>2, <1>3, <1>4, <1>6

\* A won transition of a task that is neither starting nor in flight.
LEMMA KeepTransition ==
  ASSUME IInv, NEW r \in Requests,
         req[r].pc = "transition",
         req'[r] = Idle,
         CasWins(r),
         task'[req[r].task].status = req[r].target,
         task'[req[r].task].reference = Row(r).reference,
         Alone(r),
         UNCHANGED <<agent, conversations>>
  PROVE  Ownership'
<1>1. TypeInv /\ Ownership
  BY DEF IInv
<1>2. /\ Row(r).status = req[r].seen
      /\ req[r].seen \notin {"RUNNING", "WAITING_FOR_AGENT"}
      /\ req[r].target \in AskedTargets \cup {"CANCELLED"}
      /\ ValidTransition(req[r].seen, req[r].target)
  BY <1>1 DEF Ownership, TransitionsKeepOff, CasWins, At
<1>3. /\ req[r].seen # "FAILED"
      /\ req[r].target \notin {"RUNNING", "WAITING_FOR_AGENT"}
  BY <1>2 DEF ValidTransition, AllowedTransitions, TaskTransitions, AskedTargets
<1> USE <1>1, <1>2, <1>3, Placed
   DEF Ownership, Alone, At, Row, AgentFor, HoldsClaim, Waiting, ClaimHeld,
       Starting, Polling, Idle
<1>4. StartersOwnTheirTask' /\ PollersOwnTheirTask'
  BY DEF StartersOwnTheirTask, PollersOwnTheirTask
<1>5. TransitionsKeepOff'
  BY DEF TransitionsKeepOff
<1>6. HandleIsNewest' /\ TracksNewestConversation'
  BY DEF HandleIsNewest, TracksNewestConversation
<1>7. \A t \in Tasks : Held(t)' => Held(t)
  BY DEF Held, Polled
<1>8. AgentColumn' /\ OneOwner'
  BY <1>7 DEF AgentColumn, OneOwner
<1> QED
  BY <1>4, <1>5, <1>6, <1>8

-----------------------------------------------------------------------------
(* What each action writes, and that it keeps Ownership.                    *)

\* A starting task is RUNNING, and its request knows; a refresh read a waiting task.
LEMMA ServedRow ==
  ASSUME IInv, NEW r \in Requests
  PROVE  /\ req[r].pc \in Starting => Row(r).status = "RUNNING"
         /\ req[r].pc \in Starting \ {"reload"} => req[r].seen = "RUNNING"
         /\ req[r].pc \in Polling =>
              /\ Row(r).status \in {"WAITING_FOR_AGENT", "RUNNING", "FAILED"}
              /\ req[r].seen = "WAITING_FOR_AGENT"
BY DEF IInv, Ownership, StartersOwnTheirTask, PollersOwnTheirTask, At

\* What a transition to FAILED writes.
LEMMA FailureWritten ==
  ASSUME TypeInv, NEW r \in Requests, req[r].pc # "idle",
         task' = [task EXCEPT ![req[r].task] = Moved(@, "FAILED")]
  PROVE  /\ task'[req[r].task].status = "FAILED"
         /\ \A u \in Tasks \ {req[r].task} : task'[u] = task[u]
<1>1. /\ task'[req[r].task] = Moved(Row(r), "FAILED")
      /\ \A u \in Tasks \ {req[r].task} : task'[u] = task[u]
  BY StatusWritten, StatesAreTaskStates DEF At
<1>2. Moved(Row(r), "FAILED").status = "FAILED"
  BY RequestTask, MovedRow, StatesAreTaskStates DEF At
<1>3. QED
  BY <1>1, <1>2

\* The calls a client may begin.
LEMMA BeginKeeps ==
  ASSUME IInv, Discipline, NEW r \in Requests, NEW t \in Tasks,
         \/ BeginExecute(r, t) \/ BeginRefresh(r, t) \/ BeginCancel(r, t)
         \/ \E new \in ServiceTargets : BeginTransition(r, t, new)
  PROVE  Ownership'
<1> USE DEF IInv, TypeInv, TypeOK
<1>1. CASE BeginExecute(r, t)
  <2>1. /\ req'[r].pc = "check_agent" /\ req'[r].task = t /\ req'[r].seen = task[t].status
        /\ \A q \in Requests \ {r} : req'[q] = req[q]
    BY <1>1 DEF BeginExecute, Idle
  <2> QED
    BY <1>1, <2>1, KeepBeginExecute DEF BeginExecute
<1>2. CASE BeginRefresh(r, t)
  <2>1. /\ req'[r].pc = "poll" /\ req'[r].task = t /\ req'[r].seen = "WAITING_FOR_AGENT"
        /\ task[t].status = "WAITING_FOR_AGENT"
        /\ \A q \in Requests \ {r} : req'[q] = req[q]
    BY <1>2 DEF BeginRefresh, InFlight, Idle
  <2> QED
    BY <1>2, <2>1, KeepBeginRefresh DEF BeginRefresh, Discipline
<1>3. CASE BeginCancel(r, t)
  <2>1. /\ req'[r].pc = "transition" /\ req'[r].task = t /\ req'[r].seen = task[t].status
        /\ req'[r].target = "CANCELLED"
        /\ \A q \in Requests \ {r} : req'[q] = req[q]
    BY <1>3 DEF BeginCancel, Idle
  <2>2. task[t].status \notin {"RUNNING", "WAITING_FOR_AGENT"}
    BY <1>3 DEF BeginCancel, Discipline, InFlight, Ownership, TracksNewestConversation, Waiting
  <2> QED
    BY <1>3, <2>1, <2>2, KeepBeginTransition DEF BeginCancel
<1>4. CASE \E new \in ServiceTargets : BeginTransition(r, t, new)
  <2> PICK new \in ServiceTargets : BeginTransition(r, t, new)
    BY <1>4
  <2>1. /\ req'[r].pc = "transition" /\ req'[r].task = t /\ req'[r].seen = task[t].status
        /\ req'[r].target = new
        /\ \A q \in Requests \ {r} : req'[q] = req[q]
    BY DEF BeginTransition, Idle
  <2>2. new \in AskedTargets
    BY DEF Discipline
  <2>3. task[t].status \notin {"RUNNING", "WAITING_FOR_AGENT"}
    BY <2>2 DEF BeginTransition, ValidTransition, AllowedTransitions, TaskTransitions,
                AskedTargets
  <2> QED
    BY <2>1, <2>2, <2>3, KeepBeginTransition DEF BeginTransition
<1> QED
  BY <1>1, <1>2, <1>3, <1>4

\* The steps of a call that only returns.
LEMMA ReturnKeeps ==
  ASSUME IInv, NEW r \in Requests,
         RejectExecute(r) \/ ProviderRaises(r) \/ PollRaises(r) \/ LockTimeout(r)
  PROVE  Ownership'
<1>1. Return(r) /\ UNCHANGED <<task, agent>>
  BY DEF RejectExecute, ProviderRaises, PollRaises, LockTimeout
<1>2. req'[r] = Idle /\ \A q \in Requests \ {r} : req'[q] = req[q]
  BY <1>1, ReturnWrites DEF IInv
<1>3. \A t \in Tasks : conversations'[t] # conversations[t] => t = req[r].task /\ req[r].pc \in Starting
  BY DEF RejectExecute, ProviderRaises, PollRaises, LockTimeout, At, Starting, ClaimHeld,
         IInv, TypeInv, TypeOK
<1> QED
  BY <1>1, <1>2, <1>3, KeepRetire

\* The steps of a start, up to the provider's answer.
LEMMA StartKeeps ==
  ASSUME IInv, NEW r \in Requests,
         \/ CheckAgent(r) \/ StartTask(r) \/ Reload(r) \/ ClaimAgent(r)
         \/ FailUnclaimed(r) \/ ProviderStarts(r) \/ ProviderFails(r)
  PROVE  Ownership'
<1> USE StatesAreTaskStates, Points
<1>0. TypeInv
  BY DEF IInv
<1>1. CASE CheckAgent(r)
  <2>1. req'[r] = [req[r] EXCEPT !.pc = "claim_task"] /\ req[r] \in Request
        /\ \A q \in Requests \ {r} : req'[q] = req[q]
    BY <1>0, <1>1, GotoWrites, RequestTask DEF CheckAgent, At
  <2>2. req'[r].pc = "claim_task" /\ req'[r].task = req[r].task /\ req'[r].seen = req[r].seen
    BY <2>1 DEF Request
  <2> QED
    BY <1>1, <2>1, <2>2, KeepCheckAgent DEF CheckAgent, At
<1>2. CASE StartTask(r)
  <2>0. ~At(r, "idle")
    BY <1>2 DEF StartTask, At
  <2>1. CASE /\ Goto(r, "reload") /\ ValidTransition(req[r].seen, "RUNNING") /\ CasWins(r)
             /\ task' = [task EXCEPT ![req[r].task] = Moved(@, "RUNNING")]
    <3>1. req'[r] = [req[r] EXCEPT !.pc = "reload"] /\ req[r] \in Request
          /\ \A q \in Requests \ {r} : req'[q] = req[q]
      BY <1>0, <1>2, <2>1, GotoWrites, RequestTask DEF StartTask, At
    <3>2. req'[r].pc = "reload" /\ req'[r].task = req[r].task /\ req'[r].seen = req[r].seen
      BY <3>1 DEF Request
    <3>3. /\ task'[req[r].task] = Moved(Row(r), "RUNNING") /\ Row(r) \in TaskRow
          /\ \A u \in Tasks \ {req[r].task} : task'[u] = task[u]
      BY <1>0, <2>0, <2>1, StatusWritten, RequestTask
    <3>4. /\ task'[req[r].task].status = "RUNNING"
          /\ task'[req[r].task].reference = Row(r).reference
      BY <3>3, MovedRow
    <3> QED
      BY <1>2, <2>1, <3>1, <3>2, <3>3, <3>4, KeepStartTask DEF StartTask, At, Alone
  <2>2. CASE Return(r) /\ UNCHANGED task
    <3>1. req'[r] = Idle /\ \A q \in Requests \ {r} : req'[q] = req[q]
      BY <1>0, <2>2, ReturnWrites
    <3>2. /\ UNCHANGED agent
          /\ \A t \in Tasks : conversations'[t] = conversations[t]
          /\ \A t \in Tasks : /\ task'[t].status = task[t].status
                              /\ task'[t].reference = task[t].reference
      BY <1>2, <2>2 DEF StartTask
    <3> QED
      BY <3>1, <3>2, KeepRetire
  <2> QED
    BY <1>2, <2>1, <2>2 DEF StartTask
<1>3. CASE Reload(r)
  <2>1. /\ req'[r].pc = "claim_agent" /\ req'[r].task = req[r].task
        /\ req'[r].seen = Row(r).status
        /\ \A q \in Requests \ {r} : req'[q] = req[q]
    BY <1>0, <1>3 DEF Reload, TypeInv, TypeOK, Request
  <2>2. req[r].pc = "reload"
    BY <1>3 DEF Reload, At
  <2> QED
    BY <1>3, <2>1, <2>2, ServedRow, KeepStarting DEF Reload, Starting, ClaimHeld
<1>4. CASE ClaimAgent(r)
  <2>1. req[r].pc = "claim_agent" /\ req[r].seen = "RUNNING"
    BY <1>4, ServedRow DEF ClaimAgent, At, Starting
  <2>2. CASE Goto(r, "calling") /\ AgentFree(r) /\ MayClaim(r)
    <3>1. req'[r] = [req[r] EXCEPT !.pc = "calling"] /\ req[r] \in Request
          /\ \A q \in Requests \ {r} : req'[q] = req[q]
      BY <1>0, <2>1, <2>2, GotoWrites, RequestTask DEF At
    <3>2. req'[r].pc = "calling" /\ req'[r].task = req[r].task /\ req'[r].seen = req[r].seen
      BY <3>1 DEF Request
    <3> QED
      BY <1>4, <2>1, <2>2, <3>1, <3>2, KeepClaimAgent DEF ClaimAgent, AgentFree, MayClaim
  <2>3. CASE Goto(r, "claim_lost")
    <3>1. req'[r] = [req[r] EXCEPT !.pc = "claim_lost"] /\ req[r] \in Request
          /\ \A q \in Requests \ {r} : req'[q] = req[q]
      BY <1>0, <2>1, <2>3, GotoWrites, RequestTask DEF At
    <3>2. req'[r].pc = "claim_lost" /\ req'[r].task = req[r].task /\ req'[r].seen = "RUNNING"
      BY <2>1, <3>1 DEF Request
    <3> QED
      BY <1>4, <2>1, <3>1, <3>2, KeepStarting DEF ClaimAgent, Starting, ClaimHeld
  <2> QED
    BY <1>4, <2>2, <2>3 DEF ClaimAgent
<1>5. CASE FailUnclaimed(r)
  <2>1. req[r].pc = "claim_lost" /\ req[r].seen = "RUNNING" /\ CasWins(r)
    BY <1>5, ServedRow DEF FailUnclaimed, At, Starting, CasWins
  <2>2. task' = [task EXCEPT ![req[r].task] = Moved(@, "FAILED")]
    BY <1>5, <2>1, RunningEdges DEF FailUnclaimed
  <2>3. /\ task'[req[r].task].status = "FAILED"
        /\ \A u \in Tasks \ {req[r].task} : task'[u] = task[u]
    BY <1>0, <2>1, <2>2, FailureWritten
  <2>4. req'[r] = Idle /\ \A q \in Requests \ {r} : req'[q] = req[q]
    BY <1>0, <1>5, ReturnWrites DEF FailUnclaimed
  <2> QED
    BY <1>5, <2>1, <2>3, <2>4, KeepFailUnclaimed DEF FailUnclaimed, Alone
<1>6. CASE ProviderStarts(r)
  <2>1. req[r].pc = "calling" /\ req[r].seen = "RUNNING" /\ req[r].task \in Tasks
    BY <1>0, <1>6, ServedRow, RequestTask DEF ProviderStarts, At, Starting, ClaimHeld
  <2>2. /\ req'[r].pc = "record" /\ req'[r].task = req[r].task /\ req'[r].seen = req[r].seen
        /\ req'[r].handle = conversations[req[r].task] + 1
        /\ \A q \in Requests \ {r} : req'[q] = req[q]
    BY <1>0, <1>6 DEF ProviderStarts, TypeInv, TypeOK, Request
  <2>3. /\ conversations'[req[r].task] = conversations[req[r].task] + 1
        /\ conversations[req[r].task] + 1 # 0
        /\ \A t \in Tasks \ {req[r].task} : conversations'[t] = conversations[t]
    BY <1>0, <1>6, <2>1 DEF ProviderStarts, TypeInv, TypeOK, References
  <2> QED
    BY <1>6, <2>1, <2>2, <2>3, KeepStarting DEF ProviderStarts, Starting, ClaimHeld
<1>7. CASE ProviderFails(r)
  <2>1. req[r].pc = "calling" /\ req[r].seen = "RUNNING"
    BY <1>7, ServedRow DEF ProviderFails, At, Starting, ClaimHeld
  <2>2. req'[r] = [req[r] EXCEPT !.pc = "start_failed"] /\ req[r] \in Request
        /\ \A q \in Requests \ {r} : req'[q] = req[q]
    BY <1>0, <1>7, <2>1, GotoWrites, RequestTask DEF ProviderFails, At
  <2>3. req'[r].pc = "start_failed" /\ req'[r].task = req[r].task /\ req'[r].seen = "RUNNING"
    BY <2>1, <2>2 DEF Request
  <2>4. \A t \in Tasks \ {req[r].task} : conversations'[t] = conversations[t]
    BY <1>0, <1>7 DEF ProviderFails, TypeInv, TypeOK
  <2> QED
    BY <1>7, <2>1, <2>2, <2>3, <2>4, KeepStarting DEF ProviderFails, Starting, ClaimHeld
<1> QED
  BY <1>1, <1>2, <1>3, <1>4, <1>5, <1>6, <1>7

\* The end of a start: the handle is recorded, or the failure.
LEMMA StartEndKeeps ==
  ASSUME IInv, NEW r \in Requests, RecordHandle(r) \/ FailStart(r)
  PROVE  Ownership'
<1> USE StatesAreTaskStates, Points
<1>0. TypeInv
  BY DEF IInv
<1>1. /\ req[r].pc \in {"record", "start_failed"}
      /\ req[r].seen = "RUNNING" /\ CasWins(r)
      /\ req[r] \in Request /\ AgentFor(r) \in Agents
  BY <1>0, ServedRow, RequestTask DEF RecordHandle, FailStart, At, Starting, ClaimHeld, CasWins
<1>2. CASE RecordHandle(r)
  <2>1. /\ agent' = [agent EXCEPT ![AgentFor(r)] = "BUSY"]
        /\ task' = [task EXCEPT ![req[r].task] = Moved(WithHandle(@, r), "WAITING_FOR_AGENT")]
        /\ Return(r)
    BY <1>1, <1>2, ServiceMoves DEF RecordHandle
  <2>2. /\ agent'[AgentFor(r)] = "BUSY"
        /\ \A a \in Agents \ {AgentFor(r)} : agent'[a] = agent[a]
    BY <1>0, <1>1, <2>1, OneAgentWritten DEF AgentStatus
  <2>3. task' = [task EXCEPT ![req[r].task] = Moved(WithHandle(Row(r), r), "WAITING_FOR_AGENT")]
    BY <2>1 DEF Row
  <2>4. /\ Row(r) \in TaskRow /\ req[r].task \in Tasks
        /\ Moved(WithHandle(Row(r), r), "WAITING_FOR_AGENT") \in TaskRow
        /\ Moved(WithHandle(Row(r), r), "WAITING_FOR_AGENT").status = "WAITING_FOR_AGENT"
        /\ Moved(WithHandle(Row(r), r), "WAITING_FOR_AGENT").reference = req[r].handle
    BY <1>0, <1>1, RequestTask, HandleRow, MovedRow DEF At
  <2>5. /\ task'[req[r].task] = Moved(WithHandle(Row(r), r), "WAITING_FOR_AGENT")
        /\ \A u \in Tasks \ {req[r].task} : task'[u] = task[u]
    BY <1>0, <2>3, <2>4, OneRowWritten
  <2>6. req'[r] = Idle /\ \A q \in Requests \ {r} : req'[q] = req[q]
    BY <1>0, <2>1, ReturnWrites
  <2> QED
    BY <1>1, <1>2, <2>2, <2>4, <2>5, <2>6, KeepRecordHandle DEF RecordHandle, At, Alone
<1>3. CASE FailStart(r)
  <2>1. /\ agent' = [agent EXCEPT ![AgentFor(r)] = "BUSY"]
        /\ task' = [task EXCEPT ![req[r].task] = Moved(@, "FAILED")]
        /\ Goto(r, "release")
    BY <1>1, <1>3, RunningEdges DEF FailStart
  <2>2. /\ agent'[AgentFor(r)] = "BUSY"
        /\ \A a \in Agents \ {AgentFor(r)} : agent'[a] = agent[a]
    BY <1>0, <1>1, <2>1, OneAgentWritten DEF AgentStatus
  <2>3. /\ task'[req[r].task].status = "FAILED"
        /\ \A u \in Tasks \ {req[r].task} : task'[u] = task[u]
    BY <1>0, <1>1, <2>1, FailureWritten
  <2>4. req'[r] = [req[r] EXCEPT !.pc = "release"]
        /\ \A q \in Requests \ {r} : req'[q] = req[q]
    BY <1>0, <1>1, <2>1, GotoWrites DEF At
  <2>5. req'[r].pc = "release" /\ req'[r].task = req[r].task /\ req'[r].seen = req[r].seen
    BY <1>1, <2>4 DEF Request
  <2> QED
    BY <1>1, <1>3, <2>2, <2>3, <2>4, <2>5, KeepFailStart DEF FailStart, At, Alone
<1> QED
  BY <1>2, <1>3

\* A refresh that ends: the execution is over, unless somebody has won the task.
LEMMA RefreshEnds ==
  ASSUME IInv, NEW r \in Requests, CompleteExecution(r) \/ FailExecution(r),
         Row(r).status = "WAITING_FOR_AGENT"
  PROVE  /\ Goto(r, "release")
         /\ task'[req[r].task].status \in {"WAITING_FOR_REVIEW", "FAILED"}
         /\ \A u \in Tasks \ {req[r].task} : task'[u] = task[u]
<1> USE StatesAreTaskStates
<1>0. TypeInv
  BY DEF IInv
<1>1. /\ req[r] \in Request /\ ~At(r, "idle") /\ CasWins(r)
      /\ Row(r) \in TaskRow /\ req[r].task \in Tasks
  BY <1>0, ServedRow, RequestTask DEF CompleteExecution, FailExecution, At, Polling, CasWins
<1>2. CASE CompleteExecution(r)
  <2>1. task' = [task EXCEPT ![req[r].task] = Moved(WithResult(Row(r), r), "WAITING_FOR_REVIEW")]
    BY <1>1, <1>2 DEF CompleteExecution, Row
  <2>2. /\ Moved(WithResult(Row(r), r), "WAITING_FOR_REVIEW") \in TaskRow
        /\ Moved(WithResult(Row(r), r), "WAITING_FOR_REVIEW").status = "WAITING_FOR_REVIEW"
    BY <1>1, ResultRow, MovedRow
  <2> QED
    BY <1>0, <1>1, <1>2, <2>1, <2>2, OneRowWritten DEF CompleteExecution
<1>3. CASE FailExecution(r)
  <2>1. task' = [task EXCEPT ![req[r].task] = Moved(@, "FAILED")]
    BY <1>1, <1>3 DEF FailExecution
  <2> QED
    BY <1>0, <1>1, <1>3, <2>1, FailureWritten DEF FailExecution, At
<1> QED
  BY <1>2, <1>3

\* A completion that comes too late writes its answer and returns; no status or
\* reference changes.
LEMMA LateCompletion ==
  ASSUME IInv, NEW r \in Requests, CompleteExecution(r),
         Row(r).status # "WAITING_FOR_AGENT"
  PROVE  /\ Return(r)
         /\ \A t \in Tasks : task'[t].status = task[t].status
                             /\ task'[t].reference = task[t].reference
<1>0. TypeInv
  BY DEF IInv
<1>1. /\ req[r] \in Request /\ ~CasWins(r)
      /\ Row(r) \in TaskRow /\ req[r].task \in Tasks
  BY <1>0, ServedRow, RequestTask DEF CompleteExecution, At, Polling, CasWins
<1>2. task' = [task EXCEPT ![req[r].task] = WithResult(Row(r), r)]
  BY <1>1 DEF CompleteExecution, Row
<1>3. /\ task'[req[r].task] = WithResult(Row(r), r)
      /\ \A u \in Tasks \ {req[r].task} : task'[u] = task[u]
  BY <1>0, <1>1, <1>2, ResultRow, OneRowWritten
<1> QED
  BY <1>1, <1>3, ResultRow DEF CompleteExecution, Row

\* The steps of a refresh.
LEMMA RefreshKeeps ==
  ASSUME IInv, NEW r \in Requests,
         PollProvider(r) \/ StorePoll(r) \/ CompleteExecution(r) \/ FailExecution(r)
  PROVE  Ownership'
<1> USE Points
<1>0. TypeInv
  BY DEF IInv
<1>1. /\ req[r].pc \in Polling
      /\ req[r].seen = "WAITING_FOR_AGENT"
      /\ req[r] \in Request /\ ~At(r, "idle") /\ ~At(r, "transition")
      /\ \A t \in Tasks : conversations'[t] = conversations[t]
  BY <1>0, ServedRow, RequestTask
     DEF PollProvider, StorePoll, CompleteExecution, FailExecution, At, Polling
<1>2. CASE PollProvider(r)
  <2>1. /\ req'[r].pc \in Polling /\ req'[r].task = req[r].task /\ req'[r].seen = req[r].seen
        /\ \A q \in Requests \ {r} : req'[q] = req[q]
    BY <1>0, <1>1, <1>2 DEF PollProvider, Goto, Polling, TypeInv, TypeOK, Request
  <2> QED
    BY <1>1, <1>2, <2>1, KeepPolling DEF PollProvider
<1>3. CASE StorePoll(r)
  <2>1. \A t \in Tasks : task'[t].status = task[t].status /\ task'[t].reference = task[t].reference
    BY <1>0, <1>3, PollWritten DEF Row
  <2>2. req'[r] = Idle /\ \A q \in Requests \ {r} : req'[q] = req[q]
    BY <1>0, <1>3, ReturnWrites DEF StorePoll
  <2> QED
    BY <1>1, <1>3, <2>1, <2>2, KeepRetire DEF StorePoll
<1>4. CASE CompleteExecution(r) /\ Row(r).status # "WAITING_FOR_AGENT"
  <2>1. req'[r] = Idle /\ \A q \in Requests \ {r} : req'[q] = req[q]
    BY <1>0, <1>4, LateCompletion, ReturnWrites
  <2> QED
    BY <1>1, <1>4, <2>1, LateCompletion, KeepRetire DEF CompleteExecution
<1>5. CASE \/ FailExecution(r)
           \/ CompleteExecution(r) /\ Row(r).status = "WAITING_FOR_AGENT"
  <2>1. Goto(r, "release") /\ UNCHANGED <<agent, conversations>>
    BY <1>5, RefreshEnds DEF CompleteExecution, FailExecution
  <2>2. req'[r] = [req[r] EXCEPT !.pc = "release"]
        /\ \A q \in Requests \ {r} : req'[q] = req[q]
    BY <1>0, <1>1, <2>1, GotoWrites
  <2>3. req'[r].pc = "release" /\ req'[r].task = req[r].task /\ req'[r].seen = req[r].seen
    BY <1>1, <2>2 DEF Request
  <2>4. /\ \/ /\ Row(r).status = "WAITING_FOR_AGENT"
              /\ task'[req[r].task].status \in {"WAITING_FOR_REVIEW", "FAILED"}
           \/ Row(r).status # "WAITING_FOR_AGENT" /\ UNCHANGED task
        /\ \A u \in Tasks \ {req[r].task} : task'[u] = task[u]
    BY <1>1, <1>5, RefreshEnds DEF FailExecution, CasWins
  <2> QED
    BY <1>1, <2>1, <2>2, <2>3, <2>4, KeepEndExecution DEF Alone
<1> QED
  BY <1>2, <1>3, <1>4, <1>5

\* A release and a transition.
LEMMA EndKeeps ==
  ASSUME IInv, NEW r \in Requests, ReleaseAgent(r) \/ Transition(r)
  PROVE  Ownership'
<1>0. TypeInv
  BY DEF IInv
<1>1. /\ req[r].pc \in {"release", "transition"} /\ req[r] \in Request
      /\ req[r].task \in Tasks /\ Row(r) \in TaskRow
  BY <1>0, RequestTask DEF ReleaseAgent, Transition, At
<1>2. req'[r] = Idle /\ \A q \in Requests \ {r} : req'[q] = req[q]
  BY <1>0, ReturnWrites DEF ReleaseAgent, Transition
<1>3. CASE ReleaseAgent(r)
  <2>1. /\ agent'[AgentFor(r)] = "AVAILABLE"
        /\ \A a \in Agents \ {AgentFor(r)} : agent'[a] = agent[a]
    BY <1>0, <1>3, RequestTask, OneAgentWritten DEF ReleaseAgent, At, AgentStatus
  <2> QED
    BY <1>2, <1>3, <2>1, KeepRelease DEF ReleaseAgent, At
<1>4. CASE Transition(r) /\ CasWins(r)
  <2>1. /\ task'[req[r].task] = Moved(Row(r), req[r].target)
        /\ \A u \in Tasks \ {req[r].task} : task'[u] = task[u]
    BY <1>0, <1>1, <1>4, StatusWritten DEF Transition, At, Request
  <2>2. /\ task'[req[r].task].status = req[r].target
        /\ task'[req[r].task].reference = Row(r).reference
    BY <1>1, <2>1, MovedRow DEF Request
  <2> QED
    BY <1>2, <1>4, <2>1, <2>2, KeepTransition DEF Transition, At, Alone
<1>5. CASE Transition(r) /\ ~CasWins(r)
  <2>1. /\ UNCHANGED <<task, agent>>
        /\ \A t \in Tasks : conversations'[t] = conversations[t]
    BY <1>5 DEF Transition
  <2> QED
    BY <1>2, <2>1, KeepRetire
<1> QED
  BY <1>3, <1>4, <1>5

-----------------------------------------------------------------------------
(* The invariant.                                                           *)

\* Before the first request nobody owns anything.
LEMMA OwnershipInit == Init => Ownership
<1> SUFFICES ASSUME Init PROVE Ownership
  OBVIOUS
<1>1. /\ \A r \in Requests : req[r].pc = "idle" /\ req[r].seen = "CREATED"
      /\ \A t \in Tasks : task[t].status \in {"CREATED", "PLANNED", "QUEUED"}
  BY ExecutionAssumption DEF Init, Idle, NotStarted
<1>2. QED
  BY <1>1 DEF Ownership, StartersOwnTheirTask, PollersOwnTheirTask,
     TransitionsKeepOff, HandleIsNewest, TracksNewestConversation, AgentColumn,
     OneOwner, Starting, Polling, ClaimHeld, HoldsClaim, At, Waiting, Held, Polled

\* Each step of a request keeps it.
LEMMA OwnershipStep ==
  ASSUME IInv, Discipline, NEW r \in Requests, RequestStep(r)
  PROVE  Ownership'
BY BeginKeeps, ReturnKeeps, StartKeeps, StartEndKeeps, RefreshKeeps, EndKeeps DEF RequestStep

\* A task grows old without changing hands.
LEMMA OwnershipAges ==
  ASSUME IInv, NEW t \in Tasks, PatienceRunsOut(t)
  PROVE  Ownership'
<1>1. \A u \in Tasks : task'[u].status = task[u].status /\ task'[u].reference = task[u].reference
  BY DEF PatienceRunsOut, IInv, TypeInv, TypeOK, TaskRow
<1>2. UNCHANGED <<agent, req, conversations>>
  BY DEF PatienceRunsOut
<1>3. \A r \in Requests : req[r].pc # "idle" => req[r].task \in Tasks
  BY Placed DEF IInv
<1>4. QED
  BY <1>1, <1>2, <1>3
     DEF IInv, Ownership, StartersOwnTheirTask, PollersOwnTheirTask,
     TransitionsKeepOff, HandleIsNewest, TracksNewestConversation, AgentColumn,
     OneOwner, Starting, Polling, ClaimHeld, HoldsClaim, At, Waiting, Held, Polled, Row, AgentFor

\* A crash undoes the claims, and the agents of the waiting tasks stay BUSY.
LEMMA OwnershipCrashes ==
  ASSUME IInv, Crash
  PROVE  Ownership'
<1>1. /\ \A r \in Requests : req'[r].pc = "idle" /\ req'[r].seen = "CREATED"
      /\ UNCHANGED <<task, agent, conversations>>
  BY DEF Crash, Idle
<1>2. QED
  BY <1>1 DEF IInv, Ownership, StartersOwnTheirTask, PollersOwnTheirTask,
     TransitionsKeepOff, HandleIsNewest, TracksNewestConversation, AgentColumn,
     OneOwner, Starting, Polling, ClaimHeld, HoldsClaim, At, Waiting, Held, Polled

\* Nothing changes in a stuttering step.
LEMMA OwnershipStutters ==
  ASSUME IInv, UNCHANGED vars
  PROVE  Ownership'
BY DEF vars, IInv, Ownership, StartersOwnTheirTask, PollersOwnTheirTask,
   TransitionsKeepOff, HandleIsNewest, TracksNewestConversation, AgentColumn,
   OneOwner, Polling, HoldsClaim, At, Waiting, Held, Polled, Row, AgentFor

\* Every request works on a row in the state it relies on, and every agent has one owner
\* at most, while the clients keep to Discipline: IInv is inductive.
THEOREM InvariantHolds ==
  ASSUME Discipline
  PROVE  Spec => []IInv
<1>1. Init => IInv
  BY TypeInit, OwnershipInit DEF IInv
<1>2. IInv /\ [Next]_vars => IInv'
  <2> SUFFICES ASSUME IInv, [Next]_vars PROVE IInv'
    OBVIOUS
  <2>1. TypeInv'
    BY TypeInductive DEF IInv
  <2>2. Ownership'
    BY NextSplits, OwnershipStep, OwnershipAges, OwnershipCrashes, OwnershipStutters
  <2> QED
    BY <2>1, <2>2 DEF IInv
<1>3. QED
  BY <1>1, <1>2, PTL DEF Spec

\* One agent never runs two executions at once, however requests interleave and
\* whatever fails, as long as the clients keep to Discipline.
THEOREM AgentsAreExclusive ==
  ASSUME Discipline
  PROVE  Spec => []OneExecutionPerAgent
<1>1. IInv => OneExecutionPerAgent
  BY Placed DEF IInv, Ownership, OneOwner, AgentColumn, OneExecutionPerAgent, WaitingOn,
     ClaimsOf, HoldsClaim, ClaimHeld, AgentFor, Held
<1>2. QED
  BY <1>1, InvariantHolds, PTL

\* Only ReleaseAgent makes an agent available.
LEMMA OnlyReleaseFrees ==
  ASSUME IInv, [Next]_vars, NEW a \in Agents, agent[a] = "BUSY", agent'[a] = "AVAILABLE"
  PROVE  \E r \in Requests : At(r, "release") /\ AgentFor(r) = a
<1>1. agent' # agent
  OBVIOUS
<1>2. PICK r \in Requests : RequestStep(r)
  BY <1>1, NextSplits DEF PatienceRunsOut, Crash, vars
<1>3. ReleaseAgent(r) \/ RecordHandle(r) \/ FailStart(r)
  BY <1>1, <1>2 DEF RequestStep, BeginExecute, BeginRefresh, BeginCancel, BeginTransition,
     CheckAgent, RejectExecute, StartTask, Reload, ClaimAgent, FailUnclaimed, ProviderStarts,
     ProviderFails, ProviderRaises, PollProvider, PollRaises, StorePoll, CompleteExecution,
     FailExecution, Transition, LockTimeout
<1>4. CASE ReleaseAgent(r)
  BY <1>4 DEF ReleaseAgent, IInv, TypeInv, TypeOK
<1>5. CASE RecordHandle(r) \/ FailStart(r)
  <2>1. agent' = [agent EXCEPT ![AgentFor(r)] = "BUSY"]
    BY <1>1, <1>5 DEF RecordHandle, FailStart
  <2> QED
    BY <2>1 DEF IInv, TypeInv, TypeOK
<1> QED
  BY <1>3, <1>4, <1>5

\* No release frees the claim of another execution.
THEOREM ReleasesAreSafe ==
  ASSUME Discipline
  PROVE  Spec => ReleaseFreesOwnClaim
<1>1. IInv /\ [Next]_vars =>
        [\A a \in Agents :
           agent[a] = "BUSY" /\ agent'[a] = "AVAILABLE" => WaitingOn(a) = {}]_vars
  BY OnlyReleaseFrees DEF IInv, Ownership, OneOwner, WaitingOn, Held
<1>2. QED
  BY <1>1, InvariantHolds, PTL DEF Spec, ReleaseFreesOwnClaim
=============================================================================
