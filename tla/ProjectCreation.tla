--------------------------- MODULE ProjectCreation ---------------------------
(***************************************************************************)
(* POST /projects (app/api.py) over the projects table and the projects    *)
(* root: one row and one directory for every project name.  The directory  *)
(* is made before the row is committed, and removed again when the commit  *)
(* fails.  Requests run in threads of their own; the unique index on       *)
(* projects.name decides at the commit.                                    *)
(***************************************************************************)
CONSTANTS
  Names,          \* project names that are safe directory names
  Requests,       \* request threads
  NoName,
  RacedNames,     \* the names that several requests create at the same time
  Faults          \* "filesystem": mkdir raises an OSError; "database": the commit
                  \* raises; "crash": the process dies

ASSUME CreationAssumption ==
  /\ NoName \notin Names
  /\ RacedNames \subseteq Names
  /\ Faults \subseteq {"filesystem", "database", "crash"}

VARIABLES
  rows,   \* the names of the committed projects
  dir,    \* the directory of every name under the projects root
  req,    \* the point each request has reached, and the name it creates
  interrupted   \* history: the names whose directory a crash may have left behind

vars == <<rows, dir, req, interrupted>>

PC == {"idle", "create_workspace", "commit", "remove_workspace"}

\* A directory is filled once somebody clones the repository into it.
DirState == {"absent", "empty", "filled"}

Idle == [pc |-> "idle", name |-> NoName]

At(r, p) == req[r].pc = p
Goto(r, p) == req' = [req EXCEPT ![r].pc = p]
Answer(r) == req' = [req EXCEPT ![r] = Idle]

Init ==
  /\ rows = {}
  /\ dir = [n \in Names |-> "absent"]
  /\ req = [r \in Requests |-> Idle]
  /\ interrupted = {}

-----------------------------------------------------------------------------

\* Mutant: no pre-check, the unique index is relied on alone.
CheckNothing(r, n) ==
  /\ At(r, "idle")
  /\ n \in RacedNames \/ \A q \in Requests : req[q].name # n
  /\ req' = [req EXCEPT ![r] = [pc |-> "create_workspace", name |-> n]]
  /\ UNCHANGED <<rows, dir, interrupted>>

\* The pre-check: a name that is already taken is answered with 409 at once.
CheckName(r, n) ==
  /\ At(r, "idle")
  /\ n \notin rows
  /\ n \in RacedNames \/ \A q \in Requests : req[q].name # n
  /\ req' = [req EXCEPT ![r] = [pc |-> "create_workspace", name |-> n]]
  /\ UNCHANGED <<rows, dir, interrupted>>

\* mkdir(parents=True, exist_ok=True): a directory that is there is adopted.
CreateWorkspace(r) ==
  /\ At(r, "create_workspace")
  /\ dir' = [dir EXCEPT ![req[r].name] = IF @ = "absent" THEN "empty" ELSE @]
  /\ Goto(r, "commit")
  /\ UNCHANGED <<rows, interrupted>>

\* get_workspace rejects the path before mkdir: answered with 400, no clean-up.
RejectWorkspace(r) ==
  /\ At(r, "create_workspace")
  /\ Answer(r)
  /\ UNCHANGED <<rows, dir, interrupted>>

\* mkdir fails: the catch-all handler still removes the workspace.
MkdirFails(r) ==
  /\ "filesystem" \in Faults
  /\ At(r, "create_workspace")
  /\ Goto(r, "remove_workspace")
  /\ UNCHANGED <<rows, dir, interrupted>>

\* Mutant: the name is read after the request was reset.
CommitAfterReset(r) ==
  /\ At(r, "commit")
  /\ Answer(r)
  /\ rows' = rows \cup {req'[r].name}
  /\ UNCHANGED <<dir, interrupted>>

\* The INSERT and its commit.  A duplicate is an IntegrityError: roll back, then
\* remove the workspace in a step of its own.
CommitProject(r) ==
  /\ At(r, "commit")
  /\ \/ /\ req[r].name \notin rows
        /\ rows' = rows \cup {req[r].name}
        /\ Answer(r)
     \/ /\ req[r].name \in rows
        /\ Goto(r, "remove_workspace")
        /\ UNCHANGED rows
  /\ UNCHANGED <<dir, interrupted>>

\* Mutant: a commit that failed for another reason skips the clean-up.
CommitFailsQuietly(r) ==
  /\ "database" \in Faults
  /\ At(r, "commit")
  /\ Answer(r)
  /\ UNCHANGED <<rows, dir, interrupted>>

\* Any other exception of the commit, "database is locked" say.
CommitFails(r) ==
  /\ "database" \in Faults
  /\ At(r, "commit")
  /\ Goto(r, "remove_workspace")
  /\ UNCHANGED <<rows, dir, interrupted>>

\* rmdir: only an empty directory goes, any other outcome is logged.
RemoveWorkspace(r) ==
  /\ At(r, "remove_workspace")
  /\ dir' = [dir EXCEPT ![req[r].name] = IF @ = "empty" THEN "absent" ELSE @]
  /\ interrupted' = interrupted \ {req[r].name}
  /\ Answer(r)
  /\ UNCHANGED rows

-----------------------------------------------------------------------------

\* The operator clones the repository into the workspace of a project.
Clone(n) ==
  /\ n \in rows
  /\ dir' = [dir EXCEPT ![n] = "filled"]
  /\ UNCHANGED <<rows, req, interrupted>>

\* The process dies; nothing looks for what its requests left when it comes back.
Crash ==
  /\ "crash" \in Faults
  /\ \E r \in Requests : ~At(r, "idle")
  /\ req' = [r \in Requests |-> Idle]
  /\ interrupted' = interrupted \cup {req[r].name : r \in {q \in Requests : ~At(q, "idle")}}
  /\ UNCHANGED <<rows, dir>>

Create(r) ==
  \/ \E n \in Names : CheckName(r, n)
  \/ CreateWorkspace(r) \/ RejectWorkspace(r) \/ MkdirFails(r)
  \/ CommitProject(r) \/ CommitFails(r)
  \/ RemoveWorkspace(r)

Next == (\E r \in Requests : Create(r)) \/ (\E n \in Names : Clone(n)) \/ Crash

Spec == Init /\ [][Next]_vars

-----------------------------------------------------------------------------
(* Properties.                                                              *)

\* The rows, the directories and the requests keep their types.
TypeOK ==
  /\ rows \subseteq Names
  /\ dir \in [Names -> DirState]
  /\ req \in [Requests -> [pc : PC, name : Names \cup {NoName}]]
  /\ interrupted \subseteq Names

\* Every project owns a workspace directory (README.md:426): no clean-up of a
\* failed creation removes the directory of a project that exists.
ProjectHasWorkspace == \A n \in rows : dir[n] # "absent"

\* The same for the names that no two requests create at the same time, next to races
\* for other names, through failed commits and crashes.
UnracedHasWorkspace == \A n \in rows \ RacedNames : dir[n] # "absent"

\* A directory without a project has a request that will commit or remove it, or a
\* crash left it there and no later creation of the name has cleaned up yet: a
\* creation that fails leaves no orphan (tests/test_projects.py:322), however
\* many requests race for the name.
NoOrphanWorkspace ==
  \A n \in Names : dir[n] # "absent" /\ n \notin rows =>
    \/ \E r \in Requests : req[r].name = n /\ req[r].pc \in {"commit", "remove_workspace"}
    \/ n \in interrupted
=============================================================================
