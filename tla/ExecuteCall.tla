----------------------------- MODULE ExecuteCall -----------------------------
(***************************************************************************)
(* One POST /tasks/{id}/execute on its way to the provider and back: the   *)
(* origin of the workspace becomes a repository (Repository), the adapter  *)
(* starts a conversation on it (OpenHandsAdapter), and what became of it   *)
(* is answered with an HTTP status (_task_http_error, app/api.py).  The    *)
(* rows that change meanwhile are those of module Execution.               *)
(***************************************************************************)
EXTENDS OpenHandsAdapter, Repository

CONSTANT Projects  \* what the call finds: the origin, and whether the branch is safe

ASSUME ExecuteCallAssumption ==
  Projects \subseteq [origin : [scheme : Schemes, body : Seq(Tokens)], branch : BOOLEAN]

VARIABLES
  stage,       \* how far the call is
  project,     \* the project while its repository is resolved
  repository,  \* the repository the adapter is made for
  answer       \* the HTTP status, 0 while the call is under way

callVars == <<stage, project, repository, answer>>

NoProject == [origin |-> [scheme |-> "none", body |-> <<>>], branch |-> FALSE]

CallInit ==
  /\ Init
  /\ stage = "resolve"
  /\ project \in Projects
  /\ repository = NoRepository
  /\ answer = 0

\* resolve_repository; a WorkspaceError becomes an ExecutionConflictError.
Resolve ==
  /\ stage = "resolve"
  /\ repository' = IF project.branch THEN Parsed(project.origin) ELSE NoRepository
  /\ IF repository' # NoRepository
       THEN stage' = "resolved" /\ UNCHANGED answer
       ELSE stage' = "answered" /\ answer' = 409
  /\ UNCHANGED <<project, vars>>

\* Another request claims the task or the agent first (module Execution): a conflict.
LosesClaim ==
  /\ stage = "resolved"
  /\ stage' = "answered" /\ answer' = 409
  /\ project' = NoProject /\ repository' = NoRepository
  /\ UNCHANGED vars

\* The adapter is made for the repository, and called.
CallAdapter ==
  /\ stage = "resolved"
  /\ BeginStart
  /\ stage' = "calling"
  /\ project' = NoProject /\ repository' = NoRepository
  /\ UNCHANGED answer

\* Mutant: only the deadline of start_task counts as a timeout.
StatusOfDeadline(outcome) ==
  CASE outcome = "unconfigured" -> 409
    [] outcome = "timeout" -> 504
    [] outcome \in {"provider", "malformed", "request_timeout"} -> 409

\* _task_http_error for the exceptions of start_task.
StatusOf(outcome) ==
  CASE outcome = "unconfigured" -> 409
    [] outcome \in {"timeout", "request_timeout"} -> 504
    [] outcome \in {"provider", "malformed"} -> 502

\* With a handle the call may still lose the task, to a cancel say: a conflict.
Answer ==
  /\ stage = "calling"
  /\ StartAt("done")
  /\ stage' = "answered"
  /\ answer' \in IF start.outcome = "handle" THEN {202, 409} ELSE {StatusOf(start.outcome)}
  /\ UNCHANGED <<project, repository, vars>>

AdapterMoves ==
  /\ stage \in {"calling", "answered"}
  /\ Next /\ ~StartAt("idle")
  /\ UNCHANGED callVars

CallNext == Resolve \/ LosesClaim \/ CallAdapter \/ Answer \/ AdapterMoves

\* The thread of the call keeps running, and its requests come back: httpx bounds them
\* with RequestTimeout.
CallSpec ==
  /\ CallInit /\ [][CallNext]_<<vars, callVars>>
  /\ WF_<<vars, callVars>>(Resolve \/ LosesClaim \/ CallAdapter \/ Answer \/ (AdapterMoves /\ StartStep))

-----------------------------------------------------------------------------
(* Properties, next to those of OpenHandsAdapter.                           *)

\* An execution works on the repository that the origin of the project's workspace
\* names, and on no other: not on a part of a longer path, on a host or on "..".
RepositoryIsTheOrigins ==
  stage = "resolved" =>
    /\ IsPart(Owner(repository)) /\ IsPart(Repo(repository))
    /\ Names(project.origin, repository, AnyEnding)

\* Nothing an ordinary remote can look like is turned away: if the origin names a
\* repository in one of the usual forms, the call gets past the resolution.
UsualOriginsResolve ==
  stage = "answered" /\ start.pc = "idle" /\ project.branch =>
    \A i \in 1 .. Len(project.origin.body), j \in 3 .. Len(project.origin.body) :
      LET s == SubSeq(project.origin.body, i, j) IN
      IsRepository(s) => ~Names(project.origin, s, UsualEnding)

\* A 409 hides no conversation: either the provider was never asked, whether the call
\* stopped before the adapter or in it, or the call holds the handle and lost the task
\* afterwards.  After 502 and 504 there may be a conversation nobody has a handle of.
ConflictHidesNothing ==
  answer = 409 => \/ start.outcome = "handle"
                  \/ provider.status = "NONE" /\ ~provider.exists

\* Every call is answered.
CallIsAnswered == <>(answer # 0)
=============================================================================
