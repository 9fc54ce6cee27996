# A TLA+ verification of the orchestrator

This project models the orchestrator in `src/orchestrator/app`: a FastAPI
service that keeps projects, tasks and agents in a database, moves tasks through
a state machine, and executes them asynchronously on coding agents (OpenHands
Cloud). TLC checks the models on small instances; TLAPS proves the theorems
listed below for every value of the constants.

## 1. The system

| Component | State it keeps | Operations |
|---|---|---|
| Task state machine (`task_states.py`) | none: the table of legal transitions | `validate_transition` |
| Task engine (`task_service.py`) | `tasks` rows: status, timestamps, result, error, parent, agent | create with the checks of agent, parent and ancestors; cancel and one method per transition, all through the compare-and-swap in `_transition` |
| Agent manager (`agent_manager.py`) | `agents` rows: unique name, status AVAILABLE / BUSY / ... | `register_agent`, `claim_agent`, `release_agent`, health probe |
| Execution service (`execution_service.py`) | `execution_reference`, `execution_status`, `result` of a task | `execute_task`, `refresh_execution`, `get_execution`, `_fail` |
| OpenHands adapter (`adapters/openhands.py`) | nothing between calls | `start_task` (a polling loop with a deadline), `get_status`, `get_result`, `check_health` |
| Project API and workspaces (`api.py`, `workspaces.py`) | `projects` rows, one directory for every project | create project, with clean-up when the commit fails; turn the git origin into a repository |
| Sessions and request serving (`db.py`, FastAPI) | one identity map per request: stale copies of rows; a pool of connections, a pool of threads | flush and commit, rollback, close |
| Stub adapters, schemas, configuration, logging, health, start-up | - | no state of their own |

How they interact. Every endpoint is a plain `def`, so a request runs in a thread
of its own with a session of its own; requests meet in the database and, for
workspaces, in the file system. `execute_task` makes three commits with provider
calls between them: task RUNNING (committed), agent claimed (not committed),
provider called (seconds to minutes), handle + claim + WAITING_FOR_AGENT
(committed). `refresh_execution` reads the row, calls the provider, commits the
end of the execution, and releases the agent in a second transaction. Nothing
runs in the background: an execution ends only when a client refreshes it.

What is hard here: interleavings of requests around the provider calls; acting on
the copy of a row that a session read long ago; checks (a name is free, an agent
is available, a parent exists, no ancestor is the task itself) made one SELECT at
a time, long before the row is inserted; steps that are separate transactions;
SQLite's single writer, whose lock is held during a provider call; two pools that
wait for each other; crashes (start-up reconciles nothing); answers of the
provider that arrive late, twice or out of order; deadlines; the clean-up of a
directory that another request has adopted. `PROJECT.json` lists each hazard at its
line.

What makes the components correct: a task follows the state machine whoever calls,
and the columns of its row tell one story; parents are sound and chains of parents
end; one agent has one execution; a claim is given back once, by its owner; a
RUNNING task has somebody serving it; the handle in the row is that of the
conversation that is working; a reviewed task has its result, and no late write puts an
older handle back or takes a result away; executions end; an execution works on
the repository the workspace's origin names; every project owns its directory and no
failed creation leaves one behind; `start_task` keeps its budget; every request is
answered.

## 2. Modules

| Module | What it models | Composed in |
|---|---|---|
| `TaskStates` | the states and the transition table | all modules with tasks |
| `TaskLifecycle` | abstract: one legal edge at a time, per task | refined by `Execution`, `TaskService` |
| `TaskService` | `_transition` and its callers over all columns it writes, with stale copies and a clock | |
| `TaskCreation` | `POST /tasks`: `create_task`, `_validate_agent_assignment`, `_validate_parent`, `_assert_no_cycle` | `Registry` |
| `AgentRegistration` | `POST /agents`: pre-check, insert, unique index | `Registry` |
| `Registry` | tasks are created while agents are registered and move | |
| `Execution` | requests as processes over the rows of tasks and agents: execute, refresh, `_fail`, cancel, in-process transitions, lock timeouts, crashes | |
| `ExecutionInvariant` | `Discipline`, the inductive invariants of `Execution` (`IInv` under `Discipline`, `StartInv` and `BackedInv` without it) | |
| `AdapterContract` | abstract: what the execution service relies on when it calls an adapter | refined by `OpenHandsAdapter` |
| `OpenHandsAdapter` | `start_task` and `get_status` against a provider that moves on its own | `ExecuteCall` |
| `Repository` | `_git_remote_origin`'s answer to owner/repo: `_parse_repository`, and what a reader takes an origin to name | `ExecuteCall` |
| `ExecuteCall` | one `POST /tasks/{id}/execute` from the origin over the adapter to its HTTP status | |
| `ProjectCreation` | `POST /projects`: row, directory and clean-up | |
| `RequestServing` | how a request gets and gives back its thread and its connection | |
| `MC*` | instances for TLC | |
| `*_proofs` | theorems checked by TLAPS | |

`Execution` and `TaskService` both model transitions, at two grains. `Execution` has
the requests that transition, the agents they claim and the provider they call, and
of the columns those of an execution: `execution_reference`, `execution_status`,
`result`, `started_at`. `TaskService` has the columns that `_transition` itself writes,
whatever the caller is, and of what its commit flushes besides them only `result`.

### Execution

`task[t]` is a row: `status`, `reference` (0 for NULL, n for the n-th conversation
of the task), `execution`, whether there is a `result`, and `started`, which is
`started_at` seen through `_execution_timed_out` (never, recent, expired).
`agent[a]` is the committed `agents.status`. `req[r]` is a request: `pc` names the
next atomic step, and `seen`, `loaded`, `handle` are what its session read; the
factory sets `autoflush=False, expire_on_commit=False`, so they stay as they are
until `session.refresh`. A step ends where the code commits, rolls back, reads a
row again or calls the provider, because other requests can run there:

| Action | Code |
|---|---|
| `BeginExecute`, `CheckAgent`, `RejectExecute` | pre-flight of `execute_task` (two reads, then the checks) |
| `StartTask`, `Reload` | `start_task`: the compare-and-swap, then `session.refresh` |
| `ClaimAgent`, `FailUnclaimed` | `claim_agent`; `_fail(release=False)` |
| `ProviderStarts`, `ProviderFails`, `ProviderRaises` | `adapter.start_task`: handle, AgentError, any other exception |
| `RecordHandle` | assign the handle, `wait_for_agent`, and the handler of its failure |
| `FailStart`, `FailExecution` | `_fail(release=True)` |
| `BeginRefresh`, `PollProvider`, `PollRaises`, `StorePoll`, `CompleteExecution` | `refresh_execution` |
| `ReleaseAgent` | `release_agent` and the commit after it |
| `BeginCancel`, `BeginTransition`, `Transition` | `POST /cancel`; the other callers of `TaskService` |
| `LockTimeout`, `Crash`, `PatienceRunsOut` | the environment |

A commit writes what the request changed whatever became of its compare-and-swap:
`Flushed` is SQLAlchemy's rule that an attribute is written only when it differs
from the loaded value. So a request that lost still writes `execution_status`,
`result` or `execution_reference` into a row that another one has put up for review
or ended. The claim of an agent is a transaction that stays open
while the provider is called: `HoldsClaim`, `MayWrite` and `MayClaim` model who
waits for it (`LockScope = "row"`: PostgreSQL; `"database"`: SQLite, where waiting
ends in `LockTimeout`).

Four constants say what clients do. `ConcurrentRefresh`: two refreshes of one task
may overlap. `CancelRunning`: a client may cancel a task it saw RUNNING.
`ServiceTargets`: where in-process callers of `TaskService` move tasks. `Faults`:
crashes, and exceptions that are not an AgentError, before or after the provider has
started a conversation. The code guarantees agent exclusivity only under restrictions
on them; `Discipline` in `ExecutionInvariant` is that restriction, and
`exec_stale_refresh` drops its first part. What needs no restriction is checked with
everything switched on, in `exec_lifecycle`.

### TaskService

`call[c]` is a session: the copy of the row its first `session.get` loaded, the
transition it validated against that copy, and the time it stamped. `Decide` is the
guard of `_transition` with the values it builds, `Write` the compare-and-swap with its
commit, `Reload` the `session.refresh` after a won or lost write. The commit comes
before the row count is looked at and flushes the session: `assigned` is the result that
`refresh_execution` assigned before `submit_for_review`, which reaches the row even
if the transition is lost (`Flushed`). A write may come
any time after its decision, so a stamp may be old when it is committed. `now` is
the server's clock; it does not step back (that it may is a listed limit).

### TaskCreation, AgentRegistration, Registry

`create[c]` is a request under `POST /tasks`. Its steps are the SELECTs of
`create_task`: the agent, the parent, then one ancestor at a time (`Walk`), and the
INSERT last. The table the service starts from (`Found`) is not trusted: it may hold a
cycle or a parent that is gone, as `tests/test_task_service.py:191` has it. `Fresh`
is uuid4: no row has the id or refers to it. `found` is history.

`AgentRegistration` looks the name up first and inserts later; the unique index
decides, and a registration it refuses ends with an unmapped exception
(`CommitRaises`). `StatusMoves` stands for all that writes `agents.status` afterwards.
`Registry` joins the two over one `agents` table. `TaskCreation` by itself assumes
little of the agents (one appears, its status changes); `MeetsTaskCreation` is the
property that the composition keeps to those assumptions, so that what is proved of
`TaskCreation` holds in `Registry`.

### OpenHandsAdapter, its contract, and ExecuteCall

The provider is external: a start task and a conversation that move between any
two steps of the adapter, with terminal states that are final. Statuses that the
code treats alike are one value. A request that fails for any reason raises; what
kind of failure it is decides the HTTP status, so the kinds that `_task_http_error`
tells apart are outcomes of their own. `elapsed` counts ticks since `start_task` was
called; every request, the POST included, takes up to `RequestTimeout`; `deadline` is
set when the POST is answered. (httpx applies its timeout to
connecting, writing and each read; a server that trickles its answer can exceed it.
The bound is that of a request as httpx bounds it.) `AdapterContract` has the outcomes
with which `Execution` models its provider calls: a handle names an existing
conversation, a failed start may leave one behind, "completed" and "failed" are said
only of work that finished or broke off.

`Repository` treats a URL as a scheme and tokens ("w" for letters and digits, "-"
for punctuation, "..", ".git", "/", ":"): these are the only distinctions
`_parse_repository` makes. `Parsed` is the code, operation by operation; `Names` is the
reference definition: a host, its separator, owner/repo, an ending. `ExecuteCall` puts
the two together with the status the client gets.

### ProjectCreation

`rows` are committed names (the unique index), `dir[n]` is absent, empty or filled
(once somebody cloned into it). The pre-check, `mkdir(exist_ok=True)`, the commit
and the `rmdir` of the clean-up are steps of their own. `RacedNames` are the names that
several requests create at once; `interrupted` records what a crash left behind.

### RequestServing

Starlette runs an endpoint in a thread of its pool, and FastAPI takes a thread again
to serialise the answer. The session takes a connection at its first statement, gives
it back at a commit, takes one again for the reload that follows, and keeps that one
until `get_session` closes the session, after the answer was serialised. Both pools
are outside the repository; `db.py` configures neither, so their sizes are
constants.

## 3. Runs

| Run | Instance | What it shows |
|---|---|---|
| `exec_row` | two tasks on one agent, two requests, PostgreSQL locks, fair | exclusivity, no leaked agent, no abandoned RUNNING task, releases free only their own claim, executions end and agents come back |
| `exec_database` | two tasks on one agent, two requests, SQLite locks with timeouts, crashes, unexpected exceptions, tasks executed again | `IInv`, hence exclusivity, survives them; no answer about an earlier execution puts a later one up for review |
| `exec_lifecycle` | three requests on one queued task; overlapping refreshes, cancels of the running task, in-process transitions, all faults | refinement of `TaskLifecycle`; the handle is the newest; a reviewed task has its result; flushes of late requests put no handle back and lose no result |
| `tasks_race` | three sessions on one task, two ticks | the columns of a row agree; an ended task gets at most a late result; refinement of `TaskLifecycle` |
| `registry` | two creations, two registrations; three ids, two projects, one name; three tables | references sound, chains end, every walk ends; composition refines `TaskCreation` |
| `adapter_start` | one execute call from some 1600 origins, two polling threads | repository, budget, refinement of the contract, an answer for the client, and what a 409 tells it |
| `project_race` | three creations over three names, one raced, all faults | unraced projects keep their directory, only crashes leave orphans |
| `pool` | four calls, two threads, two connections, one commit each, fair | nothing leaks; a gridlock needs the timeout; with it every call returns |
| `exec_stale_refresh`, `exec_lost_release`, `exec_late_execute`, `project_lost_workspace` | see below | violations |

The bounds. Two tasks on one agent are the least with which an agent changes hands;
two requests already show every violation except the one of `exec_late_execute`.
`exec_row` has only two requests because liveness is checked without symmetry;
what it says of safety is proved for every size. In `exec_database` a task may be
executed up to three times, with an orphaned conversation among them, which with three
requests would be too many states; the theorems have any number. In `exec_lifecycle`
three requests on one task are a start, a refresh and whoever overtakes them, or three
overlapping refreshes; of the in-process targets WAITING_FOR_AGENT and
WAITING_FOR_REVIEW are left out, because in `src/` only the execution service calls
`wait_for_agent` and `submit_for_review`, and PLANNED and QUEUED, because the task is
queued already. `exec_lost_release` has two agents: the release that times out is that
of a failed start, and the lock is held by the provider call of the other agent's
execution, which lasts longer than SQLite's five seconds. In `tasks_race` two sessions race and a third holds an older copy; two ticks tell "before"
from "after". In `registry` a found table has a root, a cycle of two or a dangling parent, so
that one or two ids are left for tasks that race to be created under it. In
`adapter_start` the timeouts are 5, 2 and 3 ticks, so that the deadline falls between
two polls, and `MaxTokens = 3` gives every path of up to three tokens alone and behind
an owner and a slash, hence each ending after a full owner/repo. In `pool` two threads and two
connections take four calls to be exhausted by calls that wait for the other pool. Symmetry is used over requests, callers and tasks that start
alike, in runs without liveness.

Deadlock is checked except in `adapter_start` (one call is followed to its end, after
which a provider in a final state stops): the other models always have a next call.

Fairness, and why:

| Where | Assumed | Because |
|---|---|---|
| `Execution` | weak: every step of a request that is being served | a thread keeps running; provider calls are bounded by their timeouts |
| | weak: `PatienceRunsOut` | time passes |
| | strong: `BeginRefresh` of each task | clients keep polling an execution in flight. This is an assumption on the clients, not on the code: without polling nothing ends, which is a listed hazard |
| `ExecuteCall` | weak: the steps of the call | the thread of the call keeps running, httpx bounds its requests |
| `Registry` | weak: `Walk`, `Refuse` | a thread that is checking keeps checking; nothing else has to happen |
| `RequestServing` | weak: the steps of a call that has what it needs | as above |
| | strong: `TakeThread`, `Serialise` | waiters for a thread are served in turn |

The refinements checked as properties: `FollowsLifecycle` (twice: `Execution` and
`TaskService` implement `TaskLifecycle`), `KeepsContract` (`OpenHandsAdapter`
implements `AdapterContract`), `MeetsTaskCreation` (`Registry` implements
`TaskCreation`).

### What the violation runs found

| Run | What happens |
|---|---|
| `exec_stale_refresh` | of two overlapping refreshes the slower one frees the agent that another task has claimed since |
| `exec_lost_release` | a lock timeout between transition and release leaves the agent BUSY for ever |
| `exec_late_execute` | an execute call left over from the first execution of a task fails the second one and leaks its agent |
| `project_lost_workspace` | the loser of a name race removes the winner's directory |

Each is a finding in `PROJECT.json`, with the line of the repository it contradicts.
Variations of these configurations show relatives of them: with `CancelRunning` and
row locks a cancel right after the commit of RUNNING makes a failed start free a
claim that is not its own (`ReleaseFreesOwnClaim`); with `LockScope = "database"` a
lock timeout in the claim leaves the task RUNNING for ever (`RunningIsServed`); with
`CancelRunning` or `ConcurrentRefresh` and a task that is executed again, the answer
about its first execution can put the second one up for review
(`ReviewIsOfCurrentExecution`), since the compare-and-swap compares the status only.
With `ConcurrentRefresh` a stale "unknown" also lands in the `execution_status` of a row
that is up for review, and a late result in a row that FAILED: `README.md:217` says that
"concurrent transitions can never corrupt state: exactly one wins", which holds of the
status but not of the columns that the loser's commit flushes. `ResultsAreBacked` and
`LateFlushesKeepProgress` say what is kept all the same.
Reading the code for the models also turned up: execute accepts a task that waits for
approval; a failure reported by the provider is not stored in `execution_status`; a
second execution of a task inherits the `started_at`, hence the patience, of the
first; a finished conversation whose sandbox is gone counts as failed; of two
registrations of one name the slower one is answered 500, where `app/api.py:448`
documents 409 (`CommitRaises`); a status poll that fails once ends the execution and
frees the agent, although the conversation may run on; an origin that ends in ".git/" keeps the suffix and
names a repository "r.git" (`Names` admits it, `UsualEnding` leaves it out); agents are
checked when a task is created but may be BUSY or DISABLED when its row is committed,
so that the check of `execute_task` is the one that counts.

## 4. Proofs

| Theorem | Says | Assumes |
|---|---|---|
| `Execution_proofs!TypeCorrect`, `ImplementsLifecycle` | types; `Execution` implements `TaskLifecycle` | - |
| `Execution_proofs!HandlesAreCurrent` | `[]TracksNewestConversation` | only `execute_task` sends tasks to WAITING_FOR_AGENT |
| `Execution_proofs!StartsAreCarriedThrough` | `[]RunningIsServed` | only `execute_task` starts tasks; row locks, no faults |
| `Execution_proofs!LocksFormNoCycle` | who holds a lock waits for none | - |
| `Exclusivity_proofs!InvariantHolds` | `[]IInv` | `Discipline` |
| `Exclusivity_proofs!AgentsAreExclusive` | `[]OneExecutionPerAgent` | `Discipline` |
| `Exclusivity_proofs!ReleasesAreSafe` | no release frees another execution's claim | `Discipline` |
| `Outcome_proofs!ResultsStayBacked` | `[]ResultsAreBacked` | only the execution service uses `wait_for_agent` and `submit_for_review` |
| `Outcome_proofs!ProgressIsKept` | late flushes put no handle back and lose no result | only `execute_task` sends tasks to WAITING_FOR_AGENT |
| `Outcome_proofs!ReviewsAreCurrent` | reviews are about the conversation in the row | `Discipline` |
| `Outcome_proofs!ClaimsAreGivenBack` | `[]NoLeakedAgent` | `Discipline`, row locks, no faults, nobody asks for approval |
| `TaskService_proofs!TypeCorrect`, `TimesOrdered`, `ColumnsTellOneStory`, `StampsStay` | types; rows are consistent; an ended task gets at most a late result | - |
| `TaskService_proofs!ImplementsLifecycle` | `TaskService` implements `TaskLifecycle` | - |
| `Registry_proofs!TypeCorrect`, `ParentsSound`, `NoCycles` | of `TaskCreation`: types; references are sound; no new cycle | - |
| `Registry_proofs!RegistryMeetsTaskCreation` | `Registry` implements `TaskCreation` | - |
| `RequestServing_proofs!PoolsAreWhole` | no thread and no connection leaks | - |
| `RequestServing_proofs!GridlockNeedsTimeout` | only a timeout ends a gridlock | - |
| `RequestServing_proofs!GridlockNeedsLoad` | a gridlock takes threads + connections calls | - |
| `RequestServing_proofs!FewCallsAreServed` | no call meets the pool's timeout | no more calls than connections |
| `ProjectCreation_proofs!TypeCorrect`, `NoOrphans` | types; only a crash leaves a directory behind | - |
| `ProjectCreation_proofs!UnracedKept` | an unraced project keeps its directory | - |
| `ExecuteCall_proofs!TypeCorrect`, `StartBounded` | types; `start_task` takes less than its budget, one interval and two requests | - |
| `ExecuteCall_proofs!ImplementsContract` | the adapter implements `AdapterContract` | - |
| `ExecuteCall_proofs!CallRunsAdapter` | `ExecuteCall` implements `OpenHandsAdapter` | - |
| `ExecuteCall_proofs!ConflictsHideNothing` | no 409 leaves a conversation without a handle | - |
| `ExecuteCall_proofs!ParsesExactly` | an origin parses to the repositories it names and no others | - |
| `ExecuteCall_proofs!RightRepository`, `RemotesResolve` | conversations work on the origin's repository; usual origins are accepted | - |

They hold for every set of tasks, agents, requests, names and callers, both lock
scopes, every pool size and every choice of timeouts and bounds that the named
assumptions of the modules allow; TLC evaluates those on every run.

*Types and lifecycle.* `TypeOK` is not inductive: a request's agent is a row only if
its task has one. `TypeInv` adds `BusyHasTask`. For the refinement the compare-and-swap
does most of the work: a won transition starts from the state the request saw, so
it is enough that what requests remember was validated (`CopiesAreValid`); a lost one
writes no status.

*Exclusivity.* "One execution per agent" follows from nothing a single step checks.
`IInv` says who relies on what: a task that is being started is RUNNING and has one
starter; a task that is being polled has one poller and holds its agent until that
poller is done (`Held`), even if an execute call that read an earlier execution wins the
task meanwhile and fails it; a pending release belongs to the request that ended the
execution. `AgentColumn` ties `agents.status` to those owners, `OneOwner` says there is
one at most. Each `Keep...` lemma takes what an action writes, field by field, and shows
`Ownership'`; the second half derives those fields from the actions. `Discipline` enters
where a client begins a call; `exec_stale_refresh` shows what happens without its first
part. It allows approvals to be asked for, so tasks may be executed any number of times.

*Starts.* Some properties need far less than `Discipline`: refreshes may overlap and
RUNNING tasks may be cancelled. `StartInv` says that a task with a starter is RUNNING or
has ended under it, that there is one starter, and that a starter past its reload
knows of a RUNNING row that it is RUNNING. A task is won only from a state that is
neither RUNNING nor final, so never while somebody starts it; a RUNNING row is left for
WAITING_FOR_AGENT by its starter alone, with the handle of the conversation it has just
started. `OnlyExecuteWaits` says that no in-process caller uses `wait_for_agent`: in
`src/` only the execution service does. It cannot be dropped: with WAITING_FOR_AGENT
among the `ServiceTargets` TLC finds a waiting task without a handle.

*Locks.* Every UPDATE commits in its step except the claim of an agent, which waits for
its turn before it opens its transaction. So whoever has one open is alone with it
(`HoldersNeverWait`).

*Outcomes.* `RowWritten` says what a step of a request may do to a row, won or lost: a
transition, the handle, the answer of a poll, or the completion with its result.
`ResultsStayBacked` and `ProgressIsKept` hold whatever the clients do. The first needs
that what a request loaded the row still has in some form (`CopiesAreBacked`): then a
flush that writes nothing because the copy had the value already finds the value in the
row. The second needs that the handle about to be recorded is newer than the one in the
row (`ReferencesTrail`), which follows from there being one starter.

`ReviewsAreCurrent` is about a hazard that the compare-and-swap does not see: the status
of a task that is executed again is the same as before. `PollsAreCurrent` says that what
a refresh loaded is still what the row holds; it is inductive on `IInv` because the agent
stays BUSY while the task is polled, so no execution of the task can start under the
refresh. An execute call that then wins the task fails to claim its agent.

`ClaimsAreGivenBack` goes the other way round: not who may act, but that somebody will.
Its invariant says that a BUSY agent has an owner. It breaks with any fault that ends a
request half-way, and with a late execute call that wins a task executed again: hence
`Calm` and `ExecutedOnce`, from which `LateExecuteLoses` follows. `exec_lost_release` and
`exec_late_execute` show that neither can be dropped. `StartsAreCarriedThrough` has the
same shape, with starters of RUNNING tasks.

*TaskService.* A copy may be older than its row, so nothing follows from its being
equal. `ServiceInv` says that a copy is itself a sound row, and that `started_at`, once
a copy has it, is the row's: a won write then starts from the same status, and a row
in a started status has a stamp that nobody writes again. A result that a session has
assigned was assigned from a copy that waits for the agent, so the row it is flushed
into was started, whatever it has become since.

*TaskCreation.* The walk reads a table that grows under it. `CreationInv` says that no
row refers to an id that was not committed yet, so that a row inserted meanwhile
cannot close a cycle with it, and that every endless set of tasks that holds the
parent holds the ancestor the walk has reached. When the walk ends at a task without
a parent there is no such set. Rows never change, so it stays so until the insert.

*Registry.* `RegistryInv` says that a registration about to insert has an id of its own
that no agent has: its insert is an agent appearing, which is all that `TaskCreation`
allows.

*RequestServing.* `ServingInv` counts: free threads and holders, free connections and
holders, with the finite-set lemmas of the library. In a gridlock no other step than
`PoolTimeout` is possible for a call that holds anything. Its calls at a checkout have all
the threads and its answered calls all the connections; they are different calls, which
bounds their number from below. With the defaults of the libraries (40 threads, 15
connections) no gridlock comes before 55 requests, and no timeout before 16.

*Projects.* `NoOrphans` needs that only the workspace of a project is ever filled, so
that the clean-up, which removes an empty directory, never stops short;
`UnracedKept` that a request for a name that is not raced is the only one for it.

*Adapter.* The deadline is looked at before every sleep, so that `elapsed` is bounded
at each point of the loop; the refinement needs that answers in flight were true when
they were given, and that terminal provider states are final.

*Repository.* `ParsesExactly` is about sequences of every length, without induction: the
parser is a chain of cuts, and each cut is described by where it falls. The first
separator is the smallest member of a set of positions, the end without trailing
slashes the largest, both from the well-foundedness of < on the naturals. `CandidateIsTail`
says that what is left is a piece of the origin behind a host and its separator,
`SuffixCut` and `SlashesCut` what was cut off; `ParsedIsNamed` and `NamedIsParsed` are the
two directions.

*ExecuteCall.* Every step of the call is a step of the adapter or leaves it alone
(`CallStep`), so the adapter's invariant holds of it (`CallRunsAdapter`). `CallInv` adds which
stage the call is in, what it knows by then, and that the provider is untouched until
the adapter is called; the properties follow from it and the lemmas on `Repository`.

Only model-checked: the liveness properties (`ExecutionsEnd`, `AgentsComeBack`,
`WalksEnd`, `CallIsAnswered`, `EveryCallReturns`). Every safety property of the passing
runs is a theorem, under the assumptions of the table.

## 5. Not modelled, and limits

- Liveness, `ENABLED` and fairness are checked by TLC only.
- No code path makes an agent AVAILABLE after registration or moves a task to
  QUEUED over HTTP; `Execution` starts from agents and tasks an operator prepared.
- `agents.status` has other values (ERROR, DISABLED, UNAVAILABLE), which nothing
  in the execution path writes (`mark_error` is never passed); `RejectExecute`
  covers an agent that is not usable.
- `AdapterContract` is not composed with `Execution`; that `Execution` gives its
  provider no more outcomes than the contract allows was compared by reading.
- What git prints: `git -C` finds the repository of an enclosing directory when the
  workspace is no clone, and that origin is then taken for the workspace's. The
  origin is an input of `ExecuteCall`.
- A workspace path that is replaced by a symbolic link between `get_workspace` and
  the check after `mkdir`; `validate_workspace`; the check of branch names, which
  is one bit of the input.
- Clocks that step, and the difference between naive and aware timestamps in
  `_execution_timed_out`. `TimesAreOrdered` is for a clock that runs forward.
- `cancel_task` of the adapter (always raises), `get_result` (repackages
  `get_status`), health probes and the read-only endpoints change no state.
- Stub adapters (raising, their only behaviour, is a failed start), configuration,
  logging, exception classes, the validation of single fields by pydantic, the text
  of prompts, results and errors.
