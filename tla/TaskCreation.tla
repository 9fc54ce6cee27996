---------------------------- MODULE TaskCreation ----------------------------
(***************************************************************************)
(* POST /tasks (app/api.py) and TaskService.create_task.  A creation reads *)
(* the project, the agent, the parent and then the parent's ancestors, one *)
(* SELECT each, and inserts the row last; meanwhile other creations commit *)
(* and the agents move.  The chain of ancestors is not trusted: it may     *)
(* hold a cycle or lead nowhere (tests/test_task_service.py:191).          *)
(***************************************************************************)
CONSTANTS
  Tasks,      \* the ids uuid4 hands out, and those of the rows found at the start
  Projects,
  Agents,
  Creators,   \* request threads
  NoTask, NoProject, NoAgent,
  NoRow,      \* stands for a row that is not in the table
  Found,      \* the tables the service may find when it starts
  Payloads    \* the requests that clients send

TaskRow == [project : Projects, parent : Tasks \cup {NoTask}, agent : Agents \cup {NoAgent}]

ASSUME TaskCreationAssumption ==
  /\ NoTask \notin Tasks
  /\ NoProject \notin Projects
  /\ NoAgent \notin Agents
  /\ NoRow \notin TaskRow
  /\ Found \subseteq [Tasks -> TaskRow \cup {NoRow}]
  /\ Payloads \subseteq TaskRow

VARIABLES
  tasks,    \* the tasks table: the references of every row
  create,   \* what every creation has read
  status,   \* agents.status, "absent" for an agent that was never registered
  found     \* history: the tasks the service found when it started

vars == <<tasks, create, status, found>>

-----------------------------------------------------------------------------

AgentStatus == {"AVAILABLE", "BUSY", "UNAVAILABLE", "ERROR", "DISABLED"}

IsUsable(s) == s = "AVAILABLE"

\* The step a creation takes next; walk: the next SELECT of _assert_no_cycle.
Creation == [pc : {"idle", "agent", "parent", "walk", "insert"},
             project : Projects \cup {NoProject}, parent : Tasks \cup {NoTask},
             agent : Agents \cup {NoAgent}, id : Tasks \cup {NoTask},
             current : Tasks \cup {NoTask}, seen : SUBSET Tasks]

Idle == [pc |-> "idle", project |-> NoProject, parent |-> NoTask, agent |-> NoAgent,
         id |-> NoTask, current |-> NoTask, seen |-> {}]

At(c, p) == create[c].pc = p

Rows == {t \in Tasks : tasks[t] # NoRow}

\* uuid4: an id that no row has or refers to, and no request works with.
Fresh(id) ==
  /\ id \notin Rows
  /\ \A t \in Rows : tasks[t].parent # id
  /\ \A c \in Creators : id \notin {create[c].id, create[c].parent}

Init ==
  /\ tasks \in Found
  /\ create = [c \in Creators |-> Idle]
  /\ status = [a \in Agents |-> "absent"]
  /\ found = Rows

-----------------------------------------------------------------------------

\* The payload is well formed and the project exists; otherwise 422 or 404.
Submit(c, payload) ==
  /\ At(c, "idle")
  /\ create' = [create EXCEPT ![c] = [Idle EXCEPT
       !.pc = IF payload.agent = NoAgent THEN "parent" ELSE "agent",
       !.project = payload.project, !.parent = payload.parent, !.agent = payload.agent]]
  /\ UNCHANGED <<tasks, status, found>>

\* _validate_agent_assignment; the agent may become BUSY right after.
CheckAgent(c) ==
  /\ At(c, "agent")
  /\ IsUsable(status[create[c].agent])
  /\ create' = [create EXCEPT ![c].pc = "parent"]
  /\ UNCHANGED <<tasks, status, found>>

BuildOrphan(c) ==
  /\ At(c, "parent")
  /\ create[c].parent = NoTask
  /\ \E id \in {t \in Tasks : Fresh(t)} :
       create' = [create EXCEPT ![c].pc = "insert", ![c].id = id]
  /\ UNCHANGED <<tasks, status, found>>

\* Mutant: the parent may belong to any project.
InAnyProject(row, c) == TRUE

InProject(row, c) == row.project = create[c].project

\* The first half of _validate_parent.
CheckParent(c) ==
  LET parent == create[c].parent IN
  /\ At(c, "parent")
  /\ parent \in Rows
  /\ InProject(tasks[parent], c)
  /\ \E id \in {t \in Tasks : Fresh(t)} :
       create' = [create EXCEPT ![c].pc = "walk", ![c].id = id, ![c].current = parent]
  /\ UNCHANGED <<tasks, status, found>>

\* SELECT parent_task_id: a row that is missing ends the walk like a NULL does.
ParentOf(t) == IF t \in Rows THEN tasks[t].parent ELSE NoTask

\* Mutant: seen stays empty.
WalkUnseen(c) ==
  LET current == create[c].current IN
  /\ At(c, "walk")
  /\ current \notin create[c].seen \cup {create[c].id}
  /\ create' = [create EXCEPT
       ![c].pc = IF ParentOf(current) = NoTask THEN "insert" ELSE "walk",
       ![c].current = ParentOf(current)]
  /\ UNCHANGED <<tasks, status, found>>

\* Mutant: a revisited ancestor ends the walk as if it were the root.
WalkTolerant(c) ==
  LET current == create[c].current IN
  /\ At(c, "walk")
  /\ create' = [create EXCEPT
       ![c].pc = IF ParentOf(current) \in create[c].seen \cup {NoTask} THEN "insert" ELSE "walk",
       ![c].current = ParentOf(current), ![c].seen = @ \cup {current}]
  /\ UNCHANGED <<tasks, status, found>>

\* One turn of the loop in _assert_no_cycle.
Walk(c) ==
  LET current == create[c].current IN
  /\ At(c, "walk")
  /\ current \notin create[c].seen \cup {create[c].id}
  /\ create' = [create EXCEPT
       ![c].pc = IF ParentOf(current) = NoTask THEN "insert" ELSE "walk",
       ![c].current = ParentOf(current), ![c].seen = @ \cup {current}]
  /\ UNCHANGED <<tasks, status, found>>

\* A check fails: 404 or 409, and nothing was written.
Refused(c) ==
  \/ At(c, "agent") /\ ~IsUsable(status[create[c].agent])
  \/ /\ At(c, "parent")
     /\ create[c].parent # NoTask
     /\ create[c].parent \in Rows => ~InProject(tasks[create[c].parent], c)
  \/ At(c, "walk") /\ create[c].current \in create[c].seen \cup {create[c].id}

Refuse(c) ==
  /\ Refused(c)
  /\ create' = [create EXCEPT ![c] = Idle]
  /\ UNCHANGED <<tasks, status, found>>

\* Mutant: the payload is read after the request was reset.
InsertAfterReset(c) ==
  /\ At(c, "insert")
  /\ create' = [create EXCEPT ![c] = Idle]
  /\ tasks' = [tasks EXCEPT ![create[c].id] =
       [project |-> create'[c].project, parent |-> create'[c].parent, agent |-> create'[c].agent]]
  /\ UNCHANGED <<status, found>>

\* The INSERT and its commit: answered with 201.
Insert(c) ==
  /\ At(c, "insert")
  /\ tasks' = [tasks EXCEPT ![create[c].id] =
       [project |-> create[c].project, parent |-> create[c].parent, agent |-> create[c].agent]]
  /\ create' = [create EXCEPT ![c] = Idle]
  /\ UNCHANGED <<status, found>>

\* A statement fails or the process dies, before anything was committed.
Abandon(c) ==
  /\ ~At(c, "idle")
  /\ create' = [create EXCEPT ![c] = Idle]
  /\ UNCHANGED <<tasks, status, found>>

Create(c) ==
  \/ \E payload \in Payloads : Submit(c, payload)
  \/ CheckAgent(c) \/ BuildOrphan(c) \/ CheckParent(c) \/ Walk(c)
  \/ Refuse(c) \/ Insert(c) \/ Abandon(c)

\* What happens to the agents meanwhile: one is registered, or changes its status.
AgentAppears(a) ==
  /\ status[a] = "absent"
  /\ status' = [status EXCEPT ![a] = "UNAVAILABLE"]
  /\ UNCHANGED <<tasks, create, found>>

AgentMoves(a, s) ==
  /\ status[a] # "absent"
  /\ status' = [status EXCEPT ![a] = s]
  /\ UNCHANGED <<tasks, create, found>>

Next ==
  \/ \E c \in Creators : Create(c)
  \/ \E a \in Agents : AgentAppears(a) \/ \E s \in AgentStatus : AgentMoves(a, s)

Spec == Init /\ [][Next]_vars

-----------------------------------------------------------------------------
(* Properties.                                                              *)

TypeOK ==
  /\ tasks \in [Tasks -> TaskRow \cup {NoRow}]
  /\ create \in [Creators -> Creation]
  /\ status \in [Agents -> AgentStatus \cup {"absent"}]
  /\ found \subseteq Tasks

Created == Rows \ found

\* A task that was created here has a parent that exists, in the same project,
\* whatever was created at the same time (README.md:229).
ParentsAreSound ==
  \A t \in Created : tasks[t].parent # NoTask =>
    tasks[t].parent \in Rows /\ tasks[tasks[t].parent].project = tasks[t].project

\* A set of tasks each of which has its parent in the set: a cycle, and what hangs
\* off it.
Endless(S) == \A t \in S : t \in Rows /\ tasks[t].parent \in S

\* No created task hangs off a cycle, even when the table held one before and its
\* ancestors were read one at a time: every walk up from it ends.
ChainsEnd == \A t \in Created : \A S \in SUBSET Tasks : Endless(S) => t \notin S

\* The check of the ancestors ends, although the table is not trusted.
WalksEnd == \A c \in Creators : At(c, "walk") ~> ~At(c, "walk")
=============================================================================
