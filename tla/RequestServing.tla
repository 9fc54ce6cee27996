--------------------------- MODULE RequestServing ---------------------------
(***************************************************************************)
(* How a request gets a thread and a database connection.  Every endpoint  *)
(* is a plain `def` (app/api.py): Starlette runs it in a thread of its     *)
(* pool, and FastAPI takes a thread again to serialise what it returned.   *)
(* The session takes a connection of the engine's pool (app/db.py) for its *)
(* first statement and gives it back at a commit, but the reload that      *)
(* follows takes one again, which is kept, also while the provider is      *)
(* called, until get_session closes the session.  The thread pool and the  *)
(* connection pool are not part of the repository.                         *)
(***************************************************************************)
EXTENDS Naturals, FiniteSets

CONSTANTS
  Calls,        \* HTTP requests that may be under way at the same time
  Threads,      \* the size of the thread pool
  Connections,  \* the size of the connection pool, with its overflow
  MaxCommits    \* bound on the commits of one call

ASSUME ServingAssumption ==
  /\ IsFiniteSet(Calls)
  /\ Threads \in Nat \ {0}
  /\ Connections \in Nat \ {0}
  /\ MaxCommits \in Nat

VARIABLES
  call,     \* the step every call is at, and whether its session has a connection
  threads,  \* the threads that are free
  pool      \* the connections that are free

vars == <<call, threads, pool>>

PC == {"idle", "arrived", "checkout", "working", "finished", "closing"}

Call == [pc : PC, connected : BOOLEAN, commits : 0 .. MaxCommits]

Idle == [pc |-> "idle", connected |-> FALSE, commits |-> 0]

At(c, p) == call[c].pc = p

Init ==
  /\ call = [c \in Calls |-> Idle]
  /\ threads = Threads
  /\ pool = Connections

-----------------------------------------------------------------------------

\* The session exists, without a connection.
Arrive(c) ==
  /\ At(c, "idle")
  /\ call' = [call EXCEPT ![c].pc = "arrived"]
  /\ UNCHANGED <<threads, pool>>

\* The endpoint starts; its first statement is a session.get.
TakeThread(c) ==
  /\ At(c, "arrived")
  /\ threads > 0
  /\ threads' = threads - 1
  /\ call' = [call EXCEPT ![c].pc = "checkout"]
  /\ UNCHANGED pool

Checkout(c) ==
  /\ At(c, "checkout")
  /\ pool > 0
  /\ pool' = pool - 1
  /\ call' = [call EXCEPT ![c].pc = "working", ![c].connected = TRUE]
  /\ UNCHANGED threads

\* Mutant: a checkout that timed out is tried again, by the same thread.
TimesOutAndRetries(c) ==
  /\ At(c, "checkout")
  /\ pool = 0
  /\ UNCHANGED vars

\* No connection came free for 30 seconds: the TimeoutError is mapped to nothing and
\* answered with 500.
PoolTimeout(c) ==
  /\ At(c, "checkout")
  /\ pool = 0
  /\ threads' = threads + 1
  /\ call' = [call EXCEPT ![c].pc = "closing"]
  /\ UNCHANGED pool

\* session.commit() gives the connection back; the next statement takes another.
Commit(c) ==
  /\ At(c, "working")
  /\ call[c].commits < MaxCommits
  /\ pool' = pool + 1
  /\ call' = [call EXCEPT ![c].pc = "checkout", ![c].connected = FALSE, ![c].commits = @ + 1]
  /\ UNCHANGED threads

\* The endpoint returns a row, or raises an HTTPException, which needs no thread to be
\* serialised.  The session is still open.
Finish(c) ==
  /\ At(c, "working")
  /\ threads' = threads + 1
  /\ \E next \in {"finished", "closing"} : call' = [call EXCEPT ![c].pc = next]
  /\ UNCHANGED pool

\* Mutant: the answer is serialised on the event loop.
SerialiseInline(c) ==
  /\ At(c, "finished")
  /\ call' = [call EXCEPT ![c].pc = "closing"]
  /\ UNCHANGED <<threads, pool>>

\* FastAPI validates the answer in a thread, which it takes and gives back.
Serialise(c) ==
  /\ At(c, "finished")
  /\ threads > 0
  /\ call' = [call EXCEPT ![c].pc = "closing"]
  /\ UNCHANGED <<threads, pool>>

\* Mutant: get_session has no finally; only a call that succeeded closes its session.
CloseAnswered(c) ==
  /\ At(c, "closing")
  /\ call' = [call EXCEPT ![c] = Idle]
  /\ pool' = IF call[c].connected /\ call[c].commits > 0 THEN pool + 1 ELSE pool
  /\ UNCHANGED threads

\* The finally of get_session, which runs outside the thread pool's limit.
Close(c) ==
  /\ At(c, "closing")
  /\ call' = [call EXCEPT ![c] = Idle]
  /\ pool' = IF call[c].connected THEN pool + 1 ELSE pool
  /\ UNCHANGED threads

Serve(c) ==
  \/ Arrive(c) \/ TakeThread(c) \/ Checkout(c) \/ PoolTimeout(c) \/ Commit(c)
  \/ Finish(c) \/ Serialise(c) \/ Close(c)

Next == \E c \in Calls : Serve(c)

\* A thread that runs keeps running: its statements, and the calls of the provider,
\* which have timeouts, come back.  Waiters for a thread are served in turn.
Fairness ==
  \A c \in Calls :
    /\ SF_vars(TakeThread(c)) /\ SF_vars(Serialise(c))
    /\ WF_vars(Checkout(c) \/ PoolTimeout(c))
    /\ WF_vars(Finish(c) \/ Commit(c))
    /\ WF_vars(Close(c))

Spec == Init /\ [][Next]_vars

FairSpec == Spec /\ Fairness

-----------------------------------------------------------------------------
(* Properties.                                                              *)

TypeOK ==
  /\ call \in [Calls -> Call]
  /\ threads \in 0 .. Threads
  /\ pool \in 0 .. Connections

HasThread == {c \in Calls : call[c].pc \in {"checkout", "working"}}
HasConnection == {c \in Calls : call[c].connected}

\* No way out of a call, an error or a timeout, keeps a thread or a connection.
NothingLeaks ==
  /\ threads + Cardinality(HasThread) = Threads
  /\ pool + Cardinality(HasConnection) = Connections

\* Every thread waits for a connection, and every connection belongs to an answer that
\* waits for a thread.
Gridlock ==
  /\ threads = 0 /\ pool = 0
  /\ \A c \in HasThread : At(c, "checkout")
  /\ \A c \in HasConnection : At(c, "finished")

\* Once the two pools wait for each other, no request makes progress until one of
\* them is failed by the timeout of the connection pool.
OnlyTimeoutsEndGridlock ==
  [][Gridlock /\ ~Gridlock' => \E c \in Calls : PoolTimeout(c)]_vars

\* And the timeout suffices: every request is answered, however few the connections.
EveryCallReturns == \A c \in Calls : At(c, "arrived") ~> At(c, "idle")
=============================================================================
