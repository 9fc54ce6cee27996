--------------------------- MODULE OpenHandsAdapter ---------------------------
(***************************************************************************)
(* The OpenHands adapter (app/adapters/openhands.py) and one conversation  *)
(* at the provider: start_task posts the conversation and polls its start  *)
(* task against a deadline; get_status asks for the conversation and       *)
(* translates the answer.  Every HTTP call has its own timeout.  The       *)
(* provider is external: it moves between any two steps of the adapter, so *)
(* an answer may be stale when it is used.                                 *)
(***************************************************************************)
EXTENDS Naturals

CONSTANTS
  StartTimeout,    \* openhands_start_timeout, in ticks
  PollInterval,    \* openhands_poll_interval
  RequestTimeout,  \* what one HTTP call may take: openhands_timeout
  Pollers          \* threads that call get_status for the conversation

ASSUME AdapterAssumption ==
  /\ StartTimeout \in Nat
  /\ PollInterval \in Nat \ {0}
  /\ RequestTimeout \in Nat

VARIABLES
  provider,  \* the start task and the conversation at the provider
  start,     \* the call of start_task, with its copy of the start task
  elapsed,   \* ticks since start_task was called, while it runs
  poll,      \* the calls of get_status, with the answer they received
  answers    \* the states get_status has returned

vars == <<provider, start, elapsed, poll, answers>>

-----------------------------------------------------------------------------

\* WORKING stands for the seven statuses in _STARTING_STATUSES, ODD for a status
\* the adapter does not know.
StartStatus == {"NONE", "WORKING", "READY", "ERROR", "ODD"}

\* running stands for _RUNNING_STATUSES, error for error and stuck, odd for
\* deleting, for no status yet and for a status the adapter does not know.
ExecutionStatus == {"odd", "running", "finished", "error"}

SandboxStatus == {"RUNNING", "LOST"}      \* LOST: ERROR or MISSING

Provider == [status : StartStatus, exists : BOOLEAN,
             execution : ExecutionStatus, sandbox : SandboxStatus]

\* What _request and the JSON helpers raise, for every failure of an HTTP call.
RequestErrors == {"provider", "malformed", "request_timeout"}

Errors == {"unconfigured"} \cup RequestErrors

Start == [pc : {"idle", "post", "inspect", "sleep", "poll", "done"},
          status : StartStatus, reference : BOOLEAN, deadline : Nat,
          outcome : {"none", "handle", "timeout"} \cup Errors]

Poll == [pc : {"idle", "translate"}, execution : ExecutionStatus, sandbox : SandboxStatus]

State == {"running", "completed", "failed", "unknown"}

Init ==
  /\ provider = [status |-> "NONE", exists |-> FALSE,
                 execution |-> "odd", sandbox |-> "RUNNING"]
  /\ start = [pc |-> "idle", status |-> "NONE", reference |-> FALSE, deadline |-> 0,
              outcome |-> "none"]
  /\ elapsed = 0
  /\ poll = [p \in Pollers |-> [pc |-> "idle", execution |-> "odd", sandbox |-> "RUNNING"]]
  /\ answers = {}

StartAt(pc) == start.pc = pc
StartGoto(pc) == start' = [start EXCEPT !.pc = pc]
StartEnds(outcome) == start' = [start EXCEPT !.pc = "done", !.outcome = outcome]

\* An HTTP call takes up to its timeout, whatever comes of it.
RequestTakesTime == \E ticks \in 0 .. RequestTimeout : elapsed' = elapsed + ticks

-----------------------------------------------------------------------------
(* start_task                                                               *)

\* Without an API key or a repository the call is refused before any request.
BeginStart ==
  /\ StartAt("idle")
  /\ StartGoto("post") \/ StartEnds("unconfigured")
  /\ UNCHANGED <<provider, elapsed, poll, answers>>

\* The provider takes the POST: its start task may already be over, or ready.
TakesPost(status, exists) ==
  /\ status # "NONE"
  /\ exists => status = "READY"
  /\ provider' = [provider EXCEPT !.status = status, !.exists = exists]

\* The answer arrives: the deadline counts from here, the time of the POST does not.
PostAnswered ==
  /\ StartAt("post")
  /\ RequestTakesTime
  /\ \E status \in StartStatus, exists \in BOOLEAN :
       /\ TakesPost(status, exists)
       /\ start' = [start EXCEPT !.pc = "inspect", !.status = status, !.reference = exists,
                                 !.deadline = elapsed' + StartTimeout]
  /\ UNCHANGED <<poll, answers>>

\* A timeout, a transport error, an HTTP error or a malformed answer: the provider
\* may have taken the POST, and the conversation then appears on its own account.
PostFails ==
  /\ StartAt("post")
  /\ RequestTakesTime
  /\ \/ UNCHANGED provider
     \/ \E status \in StartStatus : TakesPost(status, FALSE)
  /\ \E error \in RequestErrors : StartEnds(error)
  /\ UNCHANGED <<poll, answers>>

Ready == start.status = "READY" /\ start.reference
Pending == start.status \in {"WORKING", "READY"} /\ ~Ready

\* The body of the loop: a ready conversation, a failed start, the deadline.
InspectStart ==
  /\ StartAt("inspect")
  /\ \/ Ready /\ StartEnds("handle")
     \/ start.status \in {"ERROR", "ODD"} /\ StartEnds("provider")
     \/ Pending /\ elapsed >= start.deadline /\ StartEnds("timeout")
     \/ Pending /\ elapsed < start.deadline /\ StartGoto("sleep")
  /\ UNCHANGED <<provider, elapsed, poll, answers>>

\* Mutant: the budget counts the requests only, not the sleeps between them.
SleepUncounted ==
  /\ StartAt("sleep")
  /\ StartGoto("poll")
  /\ UNCHANGED <<provider, elapsed, poll, answers>>

Sleep ==
  /\ StartAt("sleep")
  /\ elapsed' = elapsed + PollInterval
  /\ StartGoto("poll")
  /\ UNCHANGED <<provider, poll, answers>>

\* Mutant: an empty list of start tasks polls again at once, past the deadline.
PollStartAgain ==
  /\ StartAt("poll")
  /\ RequestTakesTime
  /\ \/ start' = [start EXCEPT !.pc = "inspect", !.status = provider.status,
                               !.reference = provider.exists]
     \/ StartGoto("sleep")
     \/ \E error \in RequestErrors : StartEnds(error)
  /\ UNCHANGED <<provider, poll, answers>>

\* One poll of the start task: its answer, an empty list, or a failed request.
PollStart ==
  /\ StartAt("poll")
  /\ RequestTakesTime
  /\ \/ start' = [start EXCEPT !.pc = "inspect", !.status = provider.status,
                               !.reference = provider.exists]
     \/ StartGoto("inspect")
     \/ \E error \in RequestErrors : StartEnds(error)
  /\ UNCHANGED <<provider, poll, answers>>

-----------------------------------------------------------------------------
(* get_status                                                               *)

\* Mutant: an answer of HTTP 200 that names no failure is taken for success.
TranslatedOptimistically(p) ==
  IF poll[p].sandbox = "LOST" \/ poll[p].execution = "error" THEN "failed" ELSE "completed"

\* Mutant: the provider's own word is returned.
TranslatedVerbatim(p) == poll[p].execution

\* The order of the tests matters: a lost sandbox is a failure whatever became of
\* the work.
Translated(p) ==
  CASE poll[p].sandbox = "LOST"         -> "failed"
    [] poll[p].sandbox # "LOST" /\ poll[p].execution = "finished" -> "completed"
    [] poll[p].sandbox # "LOST" /\ poll[p].execution = "error"    -> "failed"
    [] poll[p].sandbox # "LOST" /\ poll[p].execution = "running"  -> "running"
    [] poll[p].sandbox # "LOST" /\ poll[p].execution = "odd"      -> "unknown"

\* The provider answers with the conversation, or with an empty list ("odd").
\* A request that fails raises and leaves no trace.
AskStatus(p) ==
  /\ start.outcome = "handle"
  /\ poll[p].pc = "idle"
  /\ \/ poll' = [poll EXCEPT ![p] = [pc |-> "translate", execution |-> provider.execution,
                                      sandbox |-> provider.sandbox]]
     \/ poll' = [poll EXCEPT ![p] = [pc |-> "translate", execution |-> "odd",
                                      sandbox |-> "RUNNING"]]
  /\ UNCHANGED <<provider, start, elapsed, answers>>

GetStatus(p) ==
  /\ poll[p].pc = "translate"
  /\ answers' = answers \cup {Translated(p)}
  /\ poll' = [poll EXCEPT ![p] = [pc |-> "idle", execution |-> "odd", sandbox |-> "RUNNING"]]
  /\ UNCHANGED <<provider, start, elapsed>>

-----------------------------------------------------------------------------
(* The provider (external).                                                 *)

StartTaskMoves ==
  /\ provider.status = "WORKING"
  /\ \E status \in {"READY", "ERROR", "ODD"} :
       provider' = [provider EXCEPT !.status = status]
  /\ UNCHANGED <<start, elapsed, poll, answers>>

\* app_conversation_id is populated some time after READY, or with it.
ConversationAppears ==
  /\ provider.status = "READY" /\ ~provider.exists
  /\ provider' = [provider EXCEPT !.exists = TRUE]
  /\ UNCHANGED <<start, elapsed, poll, answers>>

ExecutionMoves ==
  /\ provider.exists
  /\ provider.execution \in {"odd", "running"}
  /\ \E execution \in ExecutionStatus \ {provider.execution} :
       provider' = [provider EXCEPT !.execution = execution]
  /\ UNCHANGED <<start, elapsed, poll, answers>>

SandboxIsLost ==
  /\ provider.exists /\ provider.sandbox = "RUNNING"
  /\ provider' = [provider EXCEPT !.sandbox = "LOST"]
  /\ UNCHANGED <<start, elapsed, poll, answers>>

-----------------------------------------------------------------------------

StartStep == BeginStart \/ PostAnswered \/ PostFails \/ InspectStart \/ Sleep \/ PollStart

Next ==
  \/ StartStep
  \/ \E p \in Pollers : AskStatus(p) \/ GetStatus(p)
  \/ StartTaskMoves \/ ConversationAppears \/ ExecutionMoves \/ SandboxIsLost

Spec == Init /\ [][Next]_vars

-----------------------------------------------------------------------------
(* Properties.                                                              *)

\* The provider's record and the calls keep their types.
TypeOK ==
  /\ provider \in Provider
  /\ start \in Start
  /\ elapsed \in Nat
  /\ poll \in [Pollers -> Poll]
  /\ answers \subseteq State

\* From its call to its end, start_task takes less than its budget, one interval and
\* two requests, the POST and the last poll, however often the start task is not
\* listed: what a caller that holds a transaction open meanwhile has to reckon with.
StartIsBounded == elapsed < StartTimeout + PollInterval + 2 * RequestTimeout

\* The call of start_task, as the contract sees it.
CallState == CASE start.pc = "idle" -> "none"
               [] start.outcome = "handle" -> "handle"
               [] start.outcome \in {"timeout"} \cup Errors -> "raised"
               [] OTHER -> "calling"

\* The adapter keeps the promise that ExecutionService relies on, stale answers,
\* lost sandboxes and unlisted conversations included.
Contract ==
  INSTANCE AdapterContract WITH
    exists   <- provider.exists,
    finished <- provider.execution = "finished",
    broken   <- provider.execution = "error" \/ provider.sandbox = "LOST",
    call     <- CallState
KeepsContract == Contract!Spec
=============================================================================
