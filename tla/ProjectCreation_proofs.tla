------------------------ MODULE ProjectCreation_proofs ------------------------
(***************************************************************************)
(* What holds of ProjectCreation for every set of names and requests.      *)
(***************************************************************************)
EXTENDS ProjectCreation, TLAPS

\* A request that is under way has a name.
BusyHasName == \A q \in Requests : ~At(q, "idle") => req[q].name \in Names

TypeInv == TypeOK /\ BusyHasName

\* Only the workspace of a project is filled.
FilledIsProject == \A n \in Names : dir[n] = "filled" => n \in rows

\* No orphans, and the directories that a late clean-up meets without a project are
\* empty ones.
OrphanInv == TypeInv /\ FilledIsProject /\ NoOrphanWorkspace

\* A request for a name that is not raced is the only one for it, and the row does
\* not exist yet.
OneCreator ==
  /\ \A q, s \in Requests :
       req[q].name = req[s].name /\ req[q].name \notin {NoName} \cup RacedNames => q = s
  /\ \A q \in Requests : ~At(q, "idle") /\ req[q].name \notin RacedNames =>
       /\ req[q].name \notin rows
       /\ At(q, "commit") => dir[req[q].name] # "absent"

WorkspaceInv == TypeInv /\ OneCreator /\ UnracedHasWorkspace

\* The initial state, where no project and no directory exists.
LEMMA InitInv ==
  Init => OrphanInv /\ WorkspaceInv
BY CreationAssumption
   DEF Init, OrphanInv, WorkspaceInv, TypeInv, TypeOK, BusyHasName, FilledIsProject,
       NoOrphanWorkspace, OneCreator, UnracedHasWorkspace, At, Idle, PC, DirState

\* Every step keeps the types.
LEMMA TypeStep == TypeInv /\ [Next]_vars => TypeInv'
PROOF
<1> SUFFICES ASSUME TypeInv, [Next]_vars PROVE TypeInv'
  OBVIOUS
<1> USE CreationAssumption DEF TypeInv, BusyHasName, TypeOK, At, Goto, Answer, Idle, PC, DirState
<1>1. CASE UNCHANGED vars
  BY <1>1 DEF vars
<1>2. CASE Next
  <2>1. ASSUME NEW r \in Requests, NEW n \in Names, CheckName(r, n) PROVE TypeInv'
    BY <2>1 DEF CheckName
  <2>2. ASSUME NEW r \in Requests, CreateWorkspace(r) PROVE TypeInv'
    BY <2>2 DEF CreateWorkspace
  <2>3. ASSUME NEW r \in Requests, RejectWorkspace(r) PROVE TypeInv'
    BY <2>3 DEF RejectWorkspace
  <2>4. ASSUME NEW r \in Requests, MkdirFails(r) PROVE TypeInv'
    BY <2>4 DEF MkdirFails
  <2>5. ASSUME NEW r \in Requests, CommitProject(r) PROVE TypeInv'
    BY <2>5 DEF CommitProject
  <2>6. ASSUME NEW r \in Requests, CommitFails(r) PROVE TypeInv'
    BY <2>6 DEF CommitFails
  <2>7. ASSUME NEW r \in Requests, RemoveWorkspace(r) PROVE TypeInv'
    BY <2>7 DEF RemoveWorkspace
  <2>8. ASSUME NEW n \in Names, Clone(n) PROVE TypeInv'
    BY <2>8 DEF Clone
  <2>9. ASSUME Crash PROVE TypeInv'
    BY <2>9 DEF Crash
  <2> QED BY <1>2, <2>1, <2>2, <2>3, <2>4, <2>5, <2>6, <2>7, <2>8, <2>9 DEF Next, Create
<1> QED BY <1>1, <1>2

\* A creation that fails removes what it made, in whatever order requests for the
\* same name commit and clean up.
LEMMA OrphanStep == OrphanInv /\ [Next]_vars => OrphanInv'
PROOF
<1> SUFFICES ASSUME OrphanInv, [Next]_vars PROVE FilledIsProject' /\ NoOrphanWorkspace'
  BY TypeStep DEF OrphanInv
<1> USE DEF OrphanInv, TypeInv, BusyHasName, TypeOK, FilledIsProject, NoOrphanWorkspace,
            At, Goto, Answer, Idle, PC, DirState
<1>1. CASE UNCHANGED vars
  BY <1>1 DEF vars
<1>2. CASE Next
  <2>1. ASSUME NEW r \in Requests, NEW n \in Names, CheckName(r, n) PROVE FilledIsProject' /\ NoOrphanWorkspace'
    BY <2>1 DEF CheckName
  <2>2. ASSUME NEW r \in Requests, CreateWorkspace(r) PROVE FilledIsProject' /\ NoOrphanWorkspace'
    BY <2>2 DEF CreateWorkspace
  <2>3. ASSUME NEW r \in Requests, RejectWorkspace(r) PROVE FilledIsProject' /\ NoOrphanWorkspace'
    BY <2>3 DEF RejectWorkspace
  <2>4. ASSUME NEW r \in Requests, MkdirFails(r) PROVE FilledIsProject' /\ NoOrphanWorkspace'
    BY <2>4 DEF MkdirFails
  <2>5. ASSUME NEW r \in Requests, CommitProject(r) PROVE FilledIsProject' /\ NoOrphanWorkspace'
    BY <2>5 DEF CommitProject
  <2>6. ASSUME NEW r \in Requests, CommitFails(r) PROVE FilledIsProject' /\ NoOrphanWorkspace'
    BY <2>6 DEF CommitFails
  <2>7. ASSUME NEW r \in Requests, RemoveWorkspace(r) PROVE FilledIsProject' /\ NoOrphanWorkspace'
    BY <2>7 DEF RemoveWorkspace
  <2>8. ASSUME NEW n \in Names, Clone(n) PROVE FilledIsProject' /\ NoOrphanWorkspace'
    BY <2>8 DEF Clone
  <2>9. ASSUME Crash PROVE FilledIsProject' /\ NoOrphanWorkspace'
    BY <2>9 DEF Crash
  <2> QED BY <1>2, <2>1, <2>2, <2>3, <2>4, <2>5, <2>6, <2>7, <2>8, <2>9 DEF Next, Create
<1> QED BY <1>1, <1>2

\* One creation of a name at a time never meets the directory of a project.
LEMMA WorkspaceStep == WorkspaceInv /\ [Next]_vars => WorkspaceInv'
PROOF
<1> SUFFICES ASSUME WorkspaceInv, [Next]_vars PROVE OneCreator' /\ UnracedHasWorkspace'
  BY TypeStep DEF WorkspaceInv
<1> USE CreationAssumption DEF WorkspaceInv, TypeInv, BusyHasName, TypeOK, OneCreator, UnracedHasWorkspace,
            At, Goto, Answer, Idle, PC, DirState
<1>1. CASE UNCHANGED vars
  BY <1>1 DEF vars
<1>2. CASE Next
  <2>1. ASSUME NEW r \in Requests, NEW n \in Names, CheckName(r, n) PROVE OneCreator' /\ UnracedHasWorkspace'
    BY <2>1 DEF CheckName
  <2>2. ASSUME NEW r \in Requests, CreateWorkspace(r) PROVE OneCreator' /\ UnracedHasWorkspace'
    BY <2>2 DEF CreateWorkspace
  <2>3. ASSUME NEW r \in Requests, RejectWorkspace(r) PROVE OneCreator' /\ UnracedHasWorkspace'
    BY <2>3 DEF RejectWorkspace
  <2>4. ASSUME NEW r \in Requests, MkdirFails(r) PROVE OneCreator' /\ UnracedHasWorkspace'
    BY <2>4 DEF MkdirFails
  <2>5. ASSUME NEW r \in Requests, CommitProject(r) PROVE OneCreator' /\ UnracedHasWorkspace'
    BY <2>5 DEF CommitProject
  <2>6. ASSUME NEW r \in Requests, CommitFails(r) PROVE OneCreator' /\ UnracedHasWorkspace'
    BY <2>6 DEF CommitFails
  <2>7. ASSUME NEW r \in Requests, RemoveWorkspace(r) PROVE OneCreator' /\ UnracedHasWorkspace'
    BY <2>7 DEF RemoveWorkspace
  <2>8. ASSUME NEW n \in Names, Clone(n) PROVE OneCreator' /\ UnracedHasWorkspace'
    BY <2>8 DEF Clone
  <2>9. ASSUME Crash PROVE OneCreator' /\ UnracedHasWorkspace'
    BY <2>9 DEF Crash
  <2> QED BY <1>2, <2>1, <2>2, <2>3, <2>4, <2>5, <2>6, <2>7, <2>8, <2>9 DEF Next, Create
<1> QED BY <1>1, <1>2

\* Every column and request field keeps its type.
THEOREM TypeCorrect == Spec => []TypeOK
<1>1. Init => TypeInv
  BY InitInv DEF OrphanInv
<1> QED BY <1>1, TypeStep, PTL DEF Spec, TypeInv

\* No directory is left without a project, a request that will deal with it or a crash
\* that made it so, for any number of racing requests.
THEOREM NoOrphans == Spec => []NoOrphanWorkspace
<1>1. Init => OrphanInv
  BY InitInv
<1>2. OrphanInv => NoOrphanWorkspace
  BY DEF OrphanInv
<1> QED BY <1>1, <1>2, OrphanStep, PTL DEF Spec

\* When the creations of a name come one after the other, the project keeps its
\* workspace, through failed commits, failed mkdirs and crashes.
THEOREM UnracedKept == Spec => []UnracedHasWorkspace
<1>1. Init => WorkspaceInv
  BY InitInv
<1>2. WorkspaceInv => UnracedHasWorkspace
  BY DEF WorkspaceInv
<1> QED BY <1>1, <1>2, WorkspaceStep, PTL DEF Spec
=============================================================================
