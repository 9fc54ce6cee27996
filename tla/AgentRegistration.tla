-------------------------- MODULE AgentRegistration --------------------------
(***************************************************************************)
(* POST /agents over the agents table (app/agent_manager.py, app/api.py).  *)
(* The name is looked up first and the row inserted later, in a            *)
(* transaction of its own that the unique index on agents.name may refuse. *)
(* Whatever else writes an agent's status (a claim, a release, an operator *)
(* who connects the provider) is the action StatusMoves.                   *)
(***************************************************************************)
CONSTANTS
  Agents,       \* the ids uuid4 hands out
  Names,        \* the names operators ask for
  Registrars,   \* request threads
  NoAgent, NoName,
  Moves         \* the statuses that agents are moved to after their registration

AgentStatus == {"AVAILABLE", "BUSY", "UNAVAILABLE", "ERROR", "DISABLED"}

VARIABLES
  name,      \* agents.name of the rows, NoName for an id without a row
  status,    \* agents.status, "absent" for an id without a row
  register   \* what every registration is about to do

vars == <<name, status, register>>

\* commit: the name was free and the row is built, with an id of its own.
Registration == [pc : {"idle", "commit"}, name : Names \cup {NoName},
                 id : Agents \cup {NoAgent}]

Idle == [pc |-> "idle", name |-> NoName, id |-> NoAgent]

At(g, p) == register[g].pc = p

Rows == {a \in Agents : status[a] # "absent"}

Taken(n) == \E a \in Rows : name[a] = n

Init ==
  /\ name = [a \in Agents |-> NoName]
  /\ status = [a \in Agents |-> "absent"]
  /\ register = [g \in Registrars |-> Idle]

-----------------------------------------------------------------------------

\* uuid4: no row and no other request has the id.
Fresh(id) == id \notin Rows /\ \A g \in Registrars : register[g].id # id

\* The payload and its configuration are sound and the name is not taken yet.  If not,
\* the request is answered with 422 or 409 and changes nothing.
CheckName(g, n) ==
  /\ At(g, "idle")
  /\ ~Taken(n)
  /\ \E id \in {a \in Agents : Fresh(a)} :
       register' = [register EXCEPT ![g] = [pc |-> "commit", name |-> n, id |-> id]]
  /\ UNCHANGED <<name, status>>

\* Mutant: a new agent claims to be available.
CommitAvailable(g) ==
  /\ At(g, "commit")
  /\ ~Taken(register[g].name)
  /\ name' = [name EXCEPT ![register[g].id] = register[g].name]
  /\ status' = [status EXCEPT ![register[g].id] = "AVAILABLE"]
  /\ register' = [register EXCEPT ![g] = Idle]

\* The INSERT and its commit, which the unique index allows: answered with 201.
CommitAgent(g) ==
  /\ At(g, "commit")
  /\ ~Taken(register[g].name)
  /\ name' = [name EXCEPT ![register[g].id] = register[g].name]
  /\ status' = [status EXCEPT ![register[g].id] = "UNAVAILABLE"]
  /\ register' = [register EXCEPT ![g] = Idle]

\* The unique index refuses the row, or the commit fails for another reason: the
\* exception is no AgentError, so the request is answered with 500.  A crash looks
\* the same.
CommitRaises(g) ==
  /\ At(g, "commit")
  /\ register' = [register EXCEPT ![g] = Idle]
  /\ UNCHANGED <<name, status>>

Register(g) == (\E n \in Names : CheckName(g, n)) \/ CommitAgent(g) \/ CommitRaises(g)

\* Claims, releases and operators write the status of rows that exist.
StatusMoves(a, s) ==
  /\ a \in Rows
  /\ status[a] # s
  /\ status' = [status EXCEPT ![a] = s]
  /\ UNCHANGED <<name, register>>

Next ==
  \/ \E g \in Registrars : Register(g)
  \/ \E a \in Agents, s \in Moves : StatusMoves(a, s)

Spec == Init /\ [][Next]_vars
=============================================================================
