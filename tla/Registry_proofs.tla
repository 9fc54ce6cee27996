------------------------- MODULE Registry_proofs ------------------------------
(***************************************************************************)
(* Theorems about TaskCreation, for every set of tasks, projects, agents   *)
(* and creators, and every table the service may find.  The walk up the    *)
(* ancestors reads a table that changes under it; it is right all the same *)
(* because a row never changes and no row refers to an id before it is     *)
(* committed: whatever is inserted meanwhile hangs off no cycle.           *)
(***************************************************************************)
EXTENDS Registry, TLAPS

-----------------------------------------------------------------------------
(* The invariant.                                                           *)

\* The creations that have an id for their row.
HasId(c) == create[c].pc \in {"walk", "insert"}

\* The id of a row to be inserted is unused, and its parent is in the table.
IdIsUnused(c) ==
  /\ create[c].id \in Tasks /\ create[c].id \notin Rows
  /\ \A t \in Rows : tasks[t].parent # create[c].id

ParentIsFound(c) ==
  create[c].parent # NoTask =>
    create[c].parent \in Rows /\ tasks[create[c].parent].project = create[c].project

\* Every endless set with the parent holds the ancestor the walk is at, and when the
\* walk has ended there is no such set.
WalkIsSound(c) ==
  /\ At(c, "walk") =>
       /\ create[c].parent # NoTask /\ create[c].current \in Tasks
       /\ \A S \in SUBSET Tasks : Endless(S) /\ create[c].parent \in S => create[c].current \in S
  /\ At(c, "insert") => \A S \in SUBSET Tasks : Endless(S) => create[c].parent \notin S

\* What a creation has checked, as far as it has come.
SoundCreation(c) ==
  /\ ~HasId(c) => create[c].id = NoTask
  /\ ~At(c, "idle") => create[c].project \in Projects
  /\ At(c, "agent") => create[c].agent \in Agents
  /\ HasId(c) => IdIsUnused(c) /\ ParentIsFound(c)
  /\ WalkIsSound(c)

\* No two creations have the same id.
IdsDiffer ==
  \A c, d \in Creators : create[c].id = create[d].id /\ create[c].id # NoTask => c = d

\* The table, with what the service found in it, and the agents.
SoundTable ==
  /\ found \subseteq Rows
  /\ ParentsAreSound /\ ChainsEnd

CreationInv ==
  /\ TypeOK
  /\ SoundTable
  /\ IdsDiffer
  /\ \A c \in Creators : SoundCreation(c)

-----------------------------------------------------------------------------
(* The initial state.                                                       *)

\* A request that is not being served.
LEMMA IdleIsCreation == Idle \in Creation /\ Idle.pc = "idle" /\ Idle.id = NoTask
BY DEF Idle, Creation

\* The service starts soundly, whatever it finds.
LEMMA InitSound == Init => CreationInv
<1> SUFFICES ASSUME Init PROVE CreationInv
  OBVIOUS
<1>1. /\ \A c \in Creators : create[c].pc = "idle" /\ create[c].id = NoTask
      /\ create \in [Creators -> Creation]
  BY IdleIsCreation DEF Init
<1>2. TypeOK
  BY <1>1, TaskCreationAssumption DEF Init, TypeOK, Rows
<1>3. SoundTable
  BY TaskCreationAssumption DEF Init, SoundTable, ParentsAreSound, ChainsEnd,
     Created
<1>4. IdsDiffer /\ \A c \in Creators : SoundCreation(c)
  BY <1>1 DEF IdsDiffer, SoundCreation, HasId, WalkIsSound, At
<1> QED
  BY <1>2, <1>3, <1>4 DEF CreationInv

-----------------------------------------------------------------------------
(* The steps that read.                                                     *)

\* One creation moves on, over a table and agents that stay.
LEMMA ReadSound ==
  ASSUME CreationInv, NEW c \in Creators, UNCHANGED <<tasks, status, found>>,
         NEW x \in Creation, create' = [create EXCEPT ![c] = x],
         SoundCreation(c)',
         \/ x.id = NoTask
         \/ x.id = create[c].id
         \/ \A d \in Creators : create[d].id # x.id
  PROVE  CreationInv'
<1>0. create \in [Creators -> Creation]
  BY DEF CreationInv, TypeOK
<1>1. /\ create'[c] = x /\ create' \in [Creators -> Creation]
      /\ \A d \in Creators \ {c} : create'[d] = create[d]
  BY <1>0
<1>2. TypeOK' /\ SoundTable'
  BY <1>1 DEF CreationInv, TypeOK, SoundTable, ParentsAreSound, ChainsEnd, Endless,
     Created, Rows
<1>3. IdsDiffer'
  BY <1>1 DEF CreationInv, IdsDiffer
<1>4. \A d \in Creators \ {c} : SoundCreation(d)'
  <2> SUFFICES ASSUME NEW d \in Creators \ {c} PROVE SoundCreation(d)'
    OBVIOUS
  <2>1. SoundCreation(d) /\ create'[d] = create[d]
    BY <1>1 DEF CreationInv
  <2> QED
    BY <2>1 DEF SoundCreation, HasId, At, IdIsUnused, ParentIsFound, WalkIsSound, Endless, Rows
<1> QED
  BY <1>2, <1>3, <1>4 DEF CreationInv

\* A creation that ends holds nothing.
LEMMA EndSound ==
  ASSUME CreationInv, NEW c \in Creators, Refuse(c) \/ Abandon(c)
  PROVE  CreationInv'
<1>1. create' = [create EXCEPT ![c] = Idle] /\ UNCHANGED <<tasks, status, found>>
  BY DEF Refuse, Abandon
<1>2. create'[c] = Idle
  BY <1>1 DEF CreationInv, TypeOK
<1>3. SoundCreation(c)'
  BY <1>2, IdleIsCreation DEF SoundCreation, HasId, At, WalkIsSound
<1> QED
  BY <1>1, <1>3, IdleIsCreation, ReadSound

\* A request arrives, with fields that refer to anything.
LEMMA SubmitSound ==
  ASSUME CreationInv, NEW c \in Creators, NEW payload \in Payloads, Submit(c, payload)
  PROVE  CreationInv'
<1> DEFINE x == [Idle EXCEPT
       !.pc = IF payload.agent = NoAgent THEN "parent" ELSE "agent",
       !.project = payload.project, !.parent = payload.parent, !.agent = payload.agent]
<1>1. payload \in TaskRow
  BY TaskCreationAssumption
<1>2. /\ x \in Creation /\ x.id = NoTask /\ x.project \in Projects
      /\ x.pc \in {"parent", "agent"}
      /\ x.pc = "agent" => x.agent \in Agents
      /\ x.pc = "parent" => x.agent = NoAgent
  BY <1>1, TaskCreationAssumption DEF Idle, Creation, TaskRow
<1>3. create' = [create EXCEPT ![c] = x] /\ UNCHANGED <<tasks, status, found>>
  BY DEF Submit
<1>4. create'[c] = x
  BY <1>2, <1>3 DEF CreationInv, TypeOK
<1>5. SoundCreation(c)'
  BY <1>2, <1>4 DEF SoundCreation, HasId, At, WalkIsSound
<1> QED
  BY <1>2, <1>3, <1>5, ReadSound

\* The agent is AVAILABLE at this moment.
LEMMA AgentSound ==
  ASSUME CreationInv, NEW c \in Creators, CheckAgent(c)
  PROVE  CreationInv'
<1> DEFINE x == [create[c] EXCEPT !.pc = "parent"]
<1>0. /\ create \in [Creators -> Creation] /\ create[c] \in Creation
      /\ create[c].id = NoTask /\ create[c].project \in Projects
      /\ create[c].agent \in Agents
  BY DEF CreationInv, TypeOK, SoundTable, SoundCreation, HasId, CheckAgent, At
<1>1. /\ x \in Creation /\ x.pc = "parent" /\ x.id = NoTask /\ x.project \in Projects
  BY <1>0 DEF Creation
<1>2. create' = [create EXCEPT ![c] = x] /\ UNCHANGED <<tasks, status, found>>
  BY <1>0 DEF CheckAgent
<1>3. /\ create'[c].pc = "parent" /\ create'[c].id = NoTask
      /\ create'[c].project \in Projects
  BY <1>0, <1>1, <1>2
<1>4. SoundCreation(c)'
  BY <1>3 DEF SoundCreation, HasId, At, WalkIsSound
<1> QED
  BY <1>1, <1>2, <1>4, ReadSound

\* A row without a parent is ready; a parent that is found starts the walk.
LEMMA ParentSound ==
  ASSUME CreationInv, NEW c \in Creators, BuildOrphan(c) \/ CheckParent(c)
  PROVE  CreationInv'
<1>0. /\ create \in [Creators -> Creation] /\ create[c] \in Creation
      /\ create[c].pc = "parent" /\ create[c].project \in Projects
      /\ UNCHANGED <<tasks, status, found>>
  BY DEF CreationInv, TypeOK, SoundCreation, BuildOrphan, CheckParent, At
<1>1. CASE BuildOrphan(c)
  <2> PICK id \in Tasks : Fresh(id) /\ create' = [create EXCEPT ![c].pc = "insert", ![c].id = id]
    BY <1>1 DEF BuildOrphan
  <2> DEFINE x == [create[c] EXCEPT !.pc = "insert", !.id = id]
  <2>1. /\ x \in Creation /\ x.pc = "insert" /\ x.id = id /\ x.project = create[c].project
        /\ x.agent = create[c].agent /\ x.parent = NoTask
    BY <1>0, <1>1 DEF Creation, BuildOrphan
  <2>2. create' = [create EXCEPT ![c] = x] /\ create'[c] = x
    BY <1>0
  <2>3. SoundCreation(c)'
    BY <1>0, <2>1, <2>2, TaskCreationAssumption
       DEF SoundCreation, HasId, At, IdIsUnused, ParentIsFound, WalkIsSound, Fresh, Rows
  <2>4. \A d \in Creators : create[d].id # x.id
    BY <2>1 DEF Fresh
  <2> QED
    BY <1>0, <2>1, <2>2, <2>3, <2>4, ReadSound
<1>2. CASE CheckParent(c)
  <2> DEFINE parent == create[c].parent
  <2> PICK id \in Tasks :
        /\ Fresh(id)
        /\ create' = [create EXCEPT ![c].pc = "walk", ![c].id = id, ![c].current = parent]
    BY <1>2 DEF CheckParent
  <2> DEFINE x == [create[c] EXCEPT !.pc = "walk", !.id = id, !.current = parent]
  <2>0. parent \in Rows /\ parent \in Tasks /\ parent # NoTask /\ tasks[parent].project = create[c].project
    BY <1>2, TaskCreationAssumption DEF CheckParent, InProject, Rows
  <2>1. /\ x \in Creation /\ x.pc = "walk" /\ x.id = id /\ x.project = create[c].project
        /\ x.agent = create[c].agent /\ x.parent = parent /\ x.current = parent
    BY <1>0, <2>0 DEF Creation
  <2>2. create' = [create EXCEPT ![c] = x] /\ create'[c] = x
    BY <1>0
  <2>3. SoundCreation(c)'
    BY <1>0, <2>0, <2>1, <2>2
       DEF SoundCreation, HasId, At, IdIsUnused, ParentIsFound, WalkIsSound, Fresh, Rows
  <2>4. \A d \in Creators : create[d].id # x.id
    BY <2>1 DEF Fresh
  <2> QED
    BY <1>0, <2>1, <2>2, <2>3, <2>4, ReadSound
<1> QED
  BY <1>1, <1>2

\* An endless set that holds the ancestor holds its parent; so the walk never ends in
\* one, whatever was inserted since it began.
LEMMA WalkSound ==
  ASSUME CreationInv, NEW c \in Creators, Walk(c)
  PROVE  CreationInv'
<1> DEFINE current == create[c].current
           next == ParentOf(current)
           x == [create[c] EXCEPT !.pc = IF next = NoTask THEN "insert" ELSE "walk",
                                  !.current = next, !.seen = @ \cup {current}]
<1>0. /\ create \in [Creators -> Creation] /\ create[c] \in Creation
      /\ create[c].pc = "walk" /\ SoundCreation(c)
      /\ UNCHANGED <<tasks, status, found>>
      /\ tasks \in [Tasks -> TaskRow \cup {NoRow}]
  BY DEF CreationInv, TypeOK, Walk, At
<1>1. current \in Tasks /\ next \in Tasks \cup {NoTask}
  BY <1>0 DEF SoundCreation, WalkIsSound, At, ParentOf, Rows, TaskRow
<1>2. /\ x \in Creation /\ x.pc = IF next = NoTask THEN "insert" ELSE "walk"
      /\ x.id = create[c].id /\ x.project = create[c].project /\ x.agent = create[c].agent
      /\ x.parent = create[c].parent /\ x.current = next
  BY <1>0, <1>1 DEF Creation
<1>3. create' = [create EXCEPT ![c] = x]
  BY <1>0 DEF Walk
<1>4. create'[c] = x
  BY <1>0, <1>3
<1>5. ASSUME NEW S \in SUBSET Tasks, Endless(S), create[c].parent \in S
      PROVE  next \in S /\ next # NoTask
  <2>1. current \in S
    BY <1>0, <1>5 DEF SoundCreation, WalkIsSound, At
  <2>2. next \in S
    BY <1>5, <2>1 DEF Endless, ParentOf
  <2> QED
    BY <2>2, TaskCreationAssumption
<1>6. WalkIsSound(c)'
  BY <1>0, <1>1, <1>2, <1>4, <1>5 DEF SoundCreation, WalkIsSound, At, Endless, Rows
<1>7. SoundCreation(c)'
  BY <1>0, <1>2, <1>4, <1>6 DEF SoundCreation, HasId, At, IdIsUnused, ParentIsFound, Rows
<1> QED
  BY <1>0, <1>2, <1>3, <1>7, ReadSound

-----------------------------------------------------------------------------
(* The INSERT.                                                              *)

\* The row a creation inserts.
NewRow(c) ==
  [project |-> create[c].project, parent |-> create[c].parent, agent |-> create[c].agent]

\* What the INSERT makes of the table.
LEMMA InsertWrites ==
  ASSUME CreationInv, NEW c \in Creators, Insert(c)
  PROVE  /\ NewRow(c) \in TaskRow /\ NewRow(c) # NoRow
         /\ tasks' \in [Tasks -> TaskRow \cup {NoRow}]
         /\ tasks'[create[c].id] = NewRow(c)
         /\ \A t \in Tasks \ {create[c].id} : tasks'[t] = tasks[t]
         /\ Rows' = Rows \cup {create[c].id}
         /\ create[c].id \in Tasks /\ create[c].id \notin Rows
         /\ \A t \in Rows : tasks'[t] = tasks[t]
<1>1. /\ create[c] \in Creation /\ At(c, "insert") /\ SoundCreation(c)
      /\ tasks \in [Tasks -> TaskRow \cup {NoRow}]
  BY DEF CreationInv, TypeOK, Insert
<1>2. create[c].id \in Tasks /\ create[c].id \notin Rows /\ create[c].project \in Projects
  BY <1>1 DEF SoundCreation, HasId, IdIsUnused, At
<1>3. NewRow(c) \in TaskRow /\ NewRow(c) # NoRow
  BY <1>1, <1>2, TaskCreationAssumption DEF NewRow, TaskRow, Creation
<1>4. tasks' = [tasks EXCEPT ![create[c].id] = NewRow(c)]
  BY DEF Insert, NewRow
<1>5. /\ tasks' \in [Tasks -> TaskRow \cup {NoRow}]
      /\ tasks'[create[c].id] = NewRow(c)
      /\ \A t \in Tasks \ {create[c].id} : tasks'[t] = tasks[t]
  BY <1>1, <1>2, <1>3, <1>4
<1>6. Rows' = Rows \cup {create[c].id} /\ \A t \in Rows : tasks'[t] = tasks[t]
  BY <1>2, <1>3, <1>5 DEF Rows
<1> QED
  BY <1>2, <1>3, <1>5, <1>6

\* A set that is endless after the INSERT was endless before, and has not the new row:
\* nothing refers to the row yet, and its parent is in no endless set.
LEMMA InsertClosesNoCycle ==
  ASSUME CreationInv, NEW c \in Creators, Insert(c), NEW S \in SUBSET Tasks, Endless(S)'
  PROVE  Endless(S) /\ create[c].id \notin S
<1> DEFINE id == create[c].id
           T == S \ {id}
<1>1. /\ tasks'[id] = NewRow(c) /\ Rows' = Rows \cup {id} /\ id \notin Rows
      /\ \A t \in Rows : tasks'[t] = tasks[t]
  BY InsertWrites
<1>2. SoundCreation(c) /\ At(c, "insert") /\ HasId(c)
  BY DEF CreationInv, Insert, At, HasId
<1>3. Endless(T)
  BY <1>1, <1>2 DEF Endless, SoundCreation, IdIsUnused
<1>4. id \notin S
  <2> SUFFICES ASSUME id \in S PROVE FALSE
    OBVIOUS
  <2>1. create[c].parent \in S /\ create[c].parent \in Tasks
    BY <1>1 DEF Endless, NewRow
  <2>2. create[c].parent # id
    BY <1>1, <1>2, <2>1, TaskCreationAssumption DEF SoundCreation, ParentIsFound
  <2>3. create[c].parent \in T
    BY <2>1, <2>2
  <2> QED
    BY <1>2, <1>3, <2>3 DEF SoundCreation, WalkIsSound
<1> QED
  BY <1>3, <1>4

\* The INSERT keeps the table sound, and what the other creations have checked.
LEMMA InsertSound ==
  ASSUME CreationInv, NEW c \in Creators, Insert(c)
  PROVE  CreationInv'
<1> DEFINE id == create[c].id
<1>0. /\ create \in [Creators -> Creation] /\ create' = [create EXCEPT ![c] = Idle]
      /\ UNCHANGED <<status, found>>
      /\ SoundCreation(c) /\ HasId(c) /\ At(c, "insert") /\ found \subseteq Rows
  BY DEF CreationInv, TypeOK, SoundTable, Insert, HasId, At
<1>1. /\ create'[c] = Idle /\ create' \in [Creators -> Creation]
      /\ \A d \in Creators \ {c} : create'[d] = create[d]
  BY <1>0, IdleIsCreation
<1>2. /\ NewRow(c) \in TaskRow /\ NewRow(c) # NoRow
      /\ tasks' \in [Tasks -> TaskRow \cup {NoRow}]
      /\ tasks'[id] = NewRow(c) /\ Rows' = Rows \cup {id}
      /\ id \in Tasks /\ id \notin Rows
      /\ \A t \in Rows : tasks'[t] = tasks[t]
  BY InsertWrites
<1>3. TypeOK'
  BY <1>0, <1>1, <1>2 DEF CreationInv, TypeOK
<1>4. Created' = Created \cup {id} /\ found' \subseteq Rows'
  BY <1>0, <1>2 DEF Created
<1>5. ParentsAreSound'
  <2>1. ASSUME NEW t \in Created, tasks[t].parent # NoTask
        PROVE  tasks'[t].parent \in Rows' /\ tasks'[tasks'[t].parent].project = tasks'[t].project
    BY <1>2, <2>1 DEF CreationInv, SoundTable, ParentsAreSound, Created
  <2>2. /\ tasks'[id].parent = create[c].parent /\ tasks'[id].project = create[c].project
        /\ create[c].parent # NoTask =>
             create[c].parent \in Rows' /\ tasks'[create[c].parent].project = create[c].project
    BY <1>0, <1>2 DEF NewRow, SoundCreation, ParentIsFound
  <2>3. \A t \in Created : tasks'[t] = tasks[t]
    BY <1>2 DEF Created
  <2> QED
    BY <1>4, <2>1, <2>2, <2>3 DEF ParentsAreSound
<1>6. ChainsEnd'
  BY <1>4, InsertClosesNoCycle DEF CreationInv, SoundTable, ChainsEnd
<1>8. IdsDiffer'
  BY <1>1, IdleIsCreation DEF CreationInv, IdsDiffer
<1>9. \A d \in Creators : SoundCreation(d)'
  <2>1. SoundCreation(c)'
    BY <1>1, IdleIsCreation DEF SoundCreation, HasId, At, WalkIsSound
  <2>2. ASSUME NEW d \in Creators \ {c} PROVE SoundCreation(d)'
    <3>1. SoundCreation(d) /\ create'[d] = create[d]
      BY <1>1 DEF CreationInv
    <3>2. HasId(d) => IdIsUnused(d)' /\ ParentIsFound(d)'
      <4> SUFFICES ASSUME HasId(d) PROVE IdIsUnused(d)' /\ ParentIsFound(d)'
        OBVIOUS
      <4>1. create[d].id # id
        BY <1>2, <3>1, TaskCreationAssumption DEF CreationInv, IdsDiffer
      <4>2. create[c].parent # create[d].id
        BY <1>0, <3>1, TaskCreationAssumption
           DEF SoundCreation, IdIsUnused, ParentIsFound
      <4>3. tasks'[id].parent # create[d].id
        BY <1>2, <4>2 DEF NewRow
      <4>4. IdIsUnused(d)'
        BY <1>2, <3>1, <4>1, <4>3 DEF SoundCreation, IdIsUnused
      <4>5. ParentIsFound(d)'
        BY <1>2, <3>1 DEF SoundCreation, ParentIsFound
      <4> QED
        BY <4>4, <4>5
    <3>3. WalkIsSound(d)'
      BY <3>1, InsertClosesNoCycle DEF SoundCreation, WalkIsSound, At
    <3> QED
      BY <1>0, <3>1, <3>2, <3>3 DEF SoundCreation, HasId, At
  <2> QED
    BY <2>1, <2>2
<1>10. SoundTable'
  BY <1>0, <1>4, <1>5, <1>6 DEF CreationInv, SoundTable
<1> QED
  BY <1>3, <1>8, <1>9, <1>10 DEF CreationInv

-----------------------------------------------------------------------------
(* The agents, and the theorems.                                            *)

\* Agents appear and move.
LEMMA AgentsSound ==
  ASSUME CreationInv, NEW a \in Agents,
         AgentAppears(a) \/ \E s \in AgentStatus : AgentMoves(a, s)
  PROVE  CreationInv'
<1>1. /\ UNCHANGED <<tasks, create, found>>
      /\ status' \in [Agents -> AgentStatus \cup {"absent"}]
  BY DEF AgentAppears, AgentMoves, AgentStatus, CreationInv, TypeOK
<1>2. TypeOK' /\ SoundTable'
  BY <1>1 DEF CreationInv, TypeOK, SoundTable, ParentsAreSound, ChainsEnd, Endless,
     Created, Rows
<1>3. IdsDiffer' /\ \A c \in Creators : SoundCreation(c)'
  BY <1>1 DEF CreationInv, IdsDiffer, SoundCreation, HasId, At, IdIsUnused, ParentIsFound,
     WalkIsSound, Endless, Rows
<1> QED
  BY <1>2, <1>3 DEF CreationInv

\* CreationInv is inductive.
LEMMA CreationInductive == CreationInv /\ [Next]_vars => CreationInv'
<1> SUFFICES ASSUME CreationInv, [Next]_vars PROVE CreationInv'
  OBVIOUS
<1>1. CASE \E c \in Creators : Create(c)
  BY <1>1, SubmitSound, AgentSound, ParentSound, WalkSound, EndSound, InsertSound DEF Create
<1>2. CASE \E a \in Agents : AgentAppears(a) \/ \E s \in AgentStatus : AgentMoves(a, s)
  BY <1>2, AgentsSound
<1>3. CASE UNCHANGED vars
  BY <1>3 DEF vars, CreationInv, TypeOK, SoundTable, ParentsAreSound, ChainsEnd, Endless,
     Created, Rows, IdsDiffer, SoundCreation, HasId, At, IdIsUnused,
     ParentIsFound, WalkIsSound
<1> QED
  BY <1>1, <1>2, <1>3 DEF Next

\* The invariant holds, whatever clients send and the service found.
LEMMA CreationInvHolds == Spec => []CreationInv
BY InitSound, CreationInductive, PTL DEF Spec

\* The table, the requests and the agents keep their types.
THEOREM TypeCorrect == Spec => []TypeOK
<1>1. CreationInv => TypeOK
  BY DEF CreationInv
<1>2. QED
  BY <1>1, CreationInvHolds, PTL

\* A created task has a parent that exists, in its project, whatever is created at the
\* same time.
THEOREM ParentsSound == Spec => []ParentsAreSound
<1>1. CreationInv => ParentsAreSound
  BY DEF CreationInv, SoundTable
<1>2. QED
  BY <1>1, CreationInvHolds, PTL

\* No created task hangs off a cycle, even when the table held one.
THEOREM NoCycles == Spec => []ChainsEnd
<1>1. CreationInv => ChainsEnd
  BY DEF CreationInv, SoundTable
<1>2. QED
  BY <1>1, CreationInvHolds, PTL

-----------------------------------------------------------------------------
(* The registry: agents are registered while tasks are created.             *)

Registering(g) == register[g].pc = "commit"

\* A registration about to insert has an id that no agent has.
RegistrationIsFresh(g) ==
  /\ register[g].id \in Agents /\ register[g].name \in Names
  /\ status[register[g].id] = "absent"

\* No two registrations have the same id.
RegistrationsDiffer ==
  \A g, h \in Registrars :
    Registering(g) /\ Registering(h) /\ register[g].id = register[h].id => g = h

RegistryInv ==
  /\ status \in [Agents -> AgentStatus \cup {"absent"}]
  /\ name \in [Agents -> Names \cup {NoName}]
  /\ register \in [Registrars -> Registration!Registration]
  /\ \A g \in Registrars : Registering(g) => RegistrationIsFresh(g)
  /\ RegistrationsDiffer

\* Who registers after one registration moved on to x.
LEMMA RegistrarMoved ==
  ASSUME RegistryInv, NEW g \in Registrars, NEW x \in Registration!Registration,
         register' = [register EXCEPT ![g] = x]
  PROVE  /\ register' \in [Registrars -> Registration!Registration]
         /\ register'[g] = x /\ \A h \in Registrars \ {g} : register'[h] = register[h]
BY DEF RegistryInv

\* A name that is looked up.
LEMMA LookupSound ==
  ASSUME RegistryInv, NEW g \in Registrars, NEW n \in Names, Registration!CheckName(g, n)
  PROVE  RegistryInv' /\ UNCHANGED status
<1>1. UNCHANGED <<name, status>>
  BY DEF Registration!CheckName
<1>2. PICK id \in Agents :
        /\ Registration!Fresh(id)
        /\ register' = [register EXCEPT ![g] = [pc |-> "commit", name |-> n, id |-> id]]
  BY DEF Registration!CheckName
<1> DEFINE x == [pc |-> "commit", name |-> n, id |-> id]
<1>3. x \in Registration!Registration
  BY DEF Registration!Registration
<1>4. /\ register' \in [Registrars -> Registration!Registration]
      /\ register'[g] = x /\ \A h \in Registrars \ {g} : register'[h] = register[h]
  BY <1>2, <1>3, RegistrarMoved
<1>5. status[id] = "absent" /\ \A h \in Registrars : register[h].id # id
  BY <1>2 DEF Registration!Fresh, Registration!Rows
<1>6. \A h \in Registrars : Registering(h)' => RegistrationIsFresh(h)'
  BY <1>1, <1>4, <1>5 DEF Registering, RegistrationIsFresh, RegistryInv
<1>7. RegistrationsDiffer'
  BY <1>4, <1>5 DEF Registering, RegistrationsDiffer, RegistryInv
<1> QED
  BY <1>1, <1>4, <1>6, <1>7 DEF RegistryInv

\* The row is inserted, if the index allows it.
LEMMA InsertAgentSound ==
  ASSUME RegistryInv, NEW g \in Registrars, Registration!CommitAgent(g)
  PROVE  RegistryInv' /\ \E a \in Agents :
           status[a] = "absent" /\ status' = [status EXCEPT ![a] = "UNAVAILABLE"]
<1> DEFINE id == register[g].id
<1>1. /\ Registering(g)
      /\ name' = [name EXCEPT ![id] = register[g].name]
      /\ status' = [status EXCEPT ![id] = "UNAVAILABLE"]
      /\ register' = [register EXCEPT ![g] = Registration!Idle]
  BY DEF Registration!CommitAgent, Registration!At, Registering
<1>2. Registration!Idle \in Registration!Registration /\ Registration!Idle.pc = "idle"
  BY DEF Registration!Idle, Registration!Registration
<1>3. /\ register' \in [Registrars -> Registration!Registration]
      /\ register'[g].pc = "idle" /\ \A h \in Registrars \ {g} : register'[h] = register[h]
  BY <1>1, <1>2, RegistrarMoved
<1>4. id \in Agents /\ register[g].name \in Names /\ status[id] = "absent"
  BY <1>1 DEF RegistryInv, RegistrationIsFresh
<1>5. /\ status' \in [Agents -> AgentStatus \cup {"absent"}]
      /\ name' \in [Agents -> Names \cup {NoName}]
      /\ name'[id] = register[g].name
      /\ \A a \in Agents \ {id} : status'[a] = status[a] /\ name'[a] = name[a]
  BY <1>1, <1>4 DEF RegistryInv, AgentStatus
<1>6. \A h \in Registrars : Registering(h)' => h # g /\ Registering(h) /\ register'[h] = register[h]
  BY <1>3 DEF Registering
<1>7. \A h \in Registrars : Registering(h)' => RegistrationIsFresh(h)'
  BY <1>1, <1>4, <1>5, <1>6 DEF RegistrationIsFresh, RegistrationsDiffer, RegistryInv
<1>8. RegistrationsDiffer'
  BY <1>6 DEF RegistrationsDiffer, RegistryInv
<1> QED
  BY <1>1, <1>3, <1>4, <1>5, <1>7, <1>8 DEF RegistryInv

\* The insert is refused or fails.
LEMMA RefusalSound ==
  ASSUME RegistryInv, NEW g \in Registrars, Registration!CommitRaises(g)
  PROVE  RegistryInv' /\ UNCHANGED status
<1>1. UNCHANGED <<name, status>> /\ register' = [register EXCEPT ![g] = Registration!Idle]
  BY DEF Registration!CommitRaises
<1>2. Registration!Idle \in Registration!Registration /\ Registration!Idle.pc = "idle"
  BY DEF Registration!Idle, Registration!Registration
<1>3. /\ register' \in [Registrars -> Registration!Registration]
      /\ register'[g].pc = "idle" /\ \A h \in Registrars \ {g} : register'[h] = register[h]
  BY <1>1, <1>2, RegistrarMoved
<1>4. \A h \in Registrars : Registering(h)' => Registering(h) /\ register'[h] = register[h]
  BY <1>3 DEF Registering
<1> QED
  BY <1>1, <1>3, <1>4 DEF RegistryInv, RegistrationIsFresh, RegistrationsDiffer

\* An agent that exists changes its status.
LEMMA MoveSound ==
  ASSUME RegistryInv, NEW a \in Agents, NEW s \in Moves, Registration!StatusMoves(a, s)
  PROVE  RegistryInv' /\ status[a] # "absent"
<1>1. /\ status[a] # "absent" /\ s \in AgentStatus /\ s # "absent"
      /\ status' = [status EXCEPT ![a] = s] /\ UNCHANGED <<name, register>>
  BY RegistryAssumption DEF Registration!StatusMoves, Registration!Rows, AgentStatus
<1>2. /\ status' \in [Agents -> AgentStatus \cup {"absent"}]
      /\ \A b \in Agents : status'[b] = "absent" <=> status[b] = "absent"
  BY <1>1 DEF RegistryInv
<1> QED
  BY <1>1, <1>2 DEF RegistryInv, Registering, RegistrationIsFresh, RegistrationsDiffer

\* RegistryInv is inductive, and what the registry does to the agents is what
\* TaskCreation expects.
LEMMA RegistryStep ==
  RegistryInv /\ [RegistryNext]_registryVars => RegistryInv' /\ [Next]_vars
<1> SUFFICES ASSUME RegistryInv, [RegistryNext]_registryVars PROVE RegistryInv' /\ [Next]_vars
  OBVIOUS
<1>1. CASE \E c \in Creators : CreateTask(c)
  <2>1. PICK c \in Creators : Create(c) /\ UNCHANGED <<name, register>>
    BY <1>1 DEF CreateTask
  <2>2. status' = status
    BY <2>1 DEF Create, Submit, CheckAgent, BuildOrphan, CheckParent, Walk, Refuse, Insert, Abandon
  <2>3. RegistryInv'
    BY <2>1, <2>2 DEF RegistryInv, Registering, RegistrationIsFresh, RegistrationsDiffer
  <2> QED
    BY <2>1, <2>3 DEF Next
<1>2. ASSUME NEW g \in Registrars, RegisterAgent(g) PROVE RegistryInv' /\ [Next]_vars
  <2>1. UNCHANGED <<tasks, create, found>> /\ Registration!Register(g)
    BY <1>2 DEF RegisterAgent
  <2>2. CASE Registration!CommitAgent(g)
    <3>1. RegistryInv' /\ \E a \in Agents : AgentAppears(a)
      BY <2>1, <2>2, InsertAgentSound DEF AgentAppears
    <3> QED
      BY <3>1 DEF Next
  <2>3. CASE (\E n \in Names : Registration!CheckName(g, n)) \/ Registration!CommitRaises(g)
    <3>1. RegistryInv' /\ UNCHANGED status
      BY <2>3, LookupSound, RefusalSound
    <3> QED
      BY <2>1, <3>1 DEF vars
  <2> QED
    BY <2>1, <2>2, <2>3 DEF Registration!Register
<1>3. ASSUME NEW a \in Agents, NEW s \in Moves, MoveAgent(a, s) PROVE RegistryInv' /\ [Next]_vars
  <2>1. UNCHANGED <<tasks, create, found>> /\ Registration!StatusMoves(a, s) /\ s \in AgentStatus
    BY <1>3, RegistryAssumption DEF MoveAgent
  <2>2. RegistryInv' /\ status[a] # "absent"
    BY <2>1, MoveSound
  <2>3. AgentMoves(a, s)
    BY <2>1, <2>2 DEF Registration!StatusMoves, AgentMoves
  <2> QED
    BY <2>1, <2>2, <2>3 DEF Next
<1>4. CASE UNCHANGED registryVars
  BY <1>4 DEF registryVars, vars, RegistryInv, Registering, RegistrationIsFresh,
     RegistrationsDiffer
<1> QED
  BY <1>1, <1>2, <1>3, <1>4 DEF RegistryNext

\* The registry starts without an agent and without a registration.
LEMMA RegistryStarts == RegistryInit => RegistryInv /\ Init
BY DEF RegistryInit, Registration!Init, Registration!Idle, Registration!Registration,
   RegistryInv, Registering, RegistrationsDiffer

\* Registration and the moves of agents keep to what TaskCreation assumes of them, so
\* its theorems hold of the registry.
THEOREM RegistryMeetsTaskCreation == RegistrySpec => MeetsTaskCreation
BY RegistryStep, RegistryStarts, PTL DEF RegistrySpec, MeetsTaskCreation, Spec
=============================================================================
