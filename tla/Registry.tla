------------------------------ MODULE Registry ------------------------------
(***************************************************************************)
(* Agents are registered, and move, while tasks that refer to them are     *)
(* created: AgentRegistration and TaskCreation over one agents table.      *)
(* TaskCreation makes its own assumptions about the agents; that the       *)
(* registration keeps to them is the property MeetsTaskCreation.           *)
(***************************************************************************)
EXTENDS TaskCreation

CONSTANTS Names, Registrars, NoName, Moves     \* as in AgentRegistration

ASSUME RegistryAssumption ==
  /\ NoName \notin Names
  /\ Moves \subseteq AgentStatus

VARIABLES name, register       \* of AgentRegistration, next to status

Registration == INSTANCE AgentRegistration

registryVars == <<tasks, create, status, found, name, register>>

RegistryInit == Init /\ Registration!Init

CreateTask(c) == Create(c) /\ UNCHANGED <<name, register>>

RegisterAgent(g) == Registration!Register(g) /\ UNCHANGED <<tasks, create, found>>

MoveAgent(a, s) == Registration!StatusMoves(a, s) /\ UNCHANGED <<tasks, create, found>>

RegistryNext ==
  \/ \E c \in Creators : CreateTask(c)
  \/ \E g \in Registrars : RegisterAgent(g)
  \/ \E a \in Agents, s \in Moves : MoveAgent(a, s)

\* A request thread that walks up the ancestors keeps running; nothing else has to.
RegistrySpec ==
  /\ RegistryInit
  /\ [][RegistryNext]_registryVars
  /\ \A c \in Creators :
       WF_registryVars((Walk(c) \/ Refuse(c)) /\ UNCHANGED <<name, register>>)

-----------------------------------------------------------------------------
(* Properties, next to those of TaskCreation.                               *)

\* Nothing that happens to the agents is more than TaskCreation expects, so what is
\* proved of TaskCreation holds here: an agent appears UNAVAILABLE and never disappears.
MeetsTaskCreation == Spec
=============================================================================
