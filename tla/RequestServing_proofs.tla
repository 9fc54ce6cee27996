------------------------ MODULE RequestServing_proofs ------------------------
(***************************************************************************)
(* Theorems about RequestServing, for every finite set of calls and every  *)
(* size of the two pools: a thread and a connection are free or belong to  *)
(* a call, and only the timeout of the connection pool ends a gridlock.    *)
(***************************************************************************)
EXTENDS RequestServing, FiniteSetTheorems, TLAPS

\* A session has a connection from its checkout until it commits or is closed.
ConnectedWhereNeeded ==
  \A c \in Calls :
    /\ call[c].pc \in {"idle", "arrived", "checkout"} => ~call[c].connected
    /\ At(c, "working") => call[c].connected

\* The pools are counted right.
ServingInv == TypeOK /\ ConnectedWhereNeeded /\ NothingLeaks

-----------------------------------------------------------------------------
(* Counting.                                                                *)

\* A pool of which the members of U have one each, and one more is taken.
LEMMA OneTaken ==
  ASSUME NEW U, IsFiniteSet(U), NEW c, c \notin U, NEW V, V = U \cup {c},
         NEW Size \in Nat, NEW free \in Nat, free + Cardinality(U) = Size, free > 0
  PROVE  /\ free - 1 \in 0 .. Size
         /\ (free - 1) + Cardinality(V) = Size
<1>1. Cardinality(V) = Cardinality(U) + 1 /\ Cardinality(U) \in Nat
  BY FS_AddElement, FS_CardinalityType
<1> QED
  BY <1>1

\* One is given back.
LEMMA OneReturned ==
  ASSUME NEW U, IsFiniteSet(U), NEW c \in U, NEW V, V = U \ {c},
         NEW Size \in Nat, NEW free \in Nat, free + Cardinality(U) = Size
  PROVE  /\ free + 1 \in 0 .. Size
         /\ (free + 1) + Cardinality(V) = Size
<1>1. Cardinality(V) = Cardinality(U) - 1 /\ Cardinality(U) \in Nat /\ Cardinality(V) \in Nat
  BY FS_RemoveElement, FS_CardinalityType
<1> QED
  BY <1>1

\* A call that holds what it held leaves the holders as they are.
LEMMA Unmoved ==
  ASSUME NEW U, NEW c
  PROVE  (IF c \in U THEN U \cup {c} ELSE U \ {c}) = U
OBVIOUS

\* The holders of a thread and of a connection are finitely many.
LEMMA HoldersAreFinite == IsFiniteSet(HasThread) /\ IsFiniteSet(HasConnection)
BY FS_Subset, ServingAssumption DEF HasThread, HasConnection

\* Who has a thread and who a connection after one call moved on to x.
LEMMA HoldersAfter ==
  ASSUME ServingInv, NEW c \in Calls, NEW x \in Call, call' = [call EXCEPT ![c] = x]
  PROVE  /\ call' \in [Calls -> Call] /\ call'[c] = x
         /\ \A d \in Calls \ {c} : call'[d] = call[d]
         /\ HasThread' = IF x.pc \in {"checkout", "working"}
                           THEN HasThread \cup {c} ELSE HasThread \ {c}
         /\ HasConnection' = IF x.connected
                               THEN HasConnection \cup {c} ELSE HasConnection \ {c}
<1>1. /\ call' \in [Calls -> Call] /\ call'[c] = x
      /\ \A d \in Calls \ {c} : call'[d] = call[d]
  BY DEF ServingInv, TypeOK
<1> QED
  BY <1>1 DEF HasThread, HasConnection

-----------------------------------------------------------------------------
(* The steps.                                                               *)

\* The types of what a step reads.
LEMMA ServingTypes ==
  ASSUME ServingInv, NEW c \in Calls
  PROVE  /\ call \in [Calls -> Call] /\ call[c] \in Call
         /\ threads \in Nat /\ pool \in Nat
         /\ threads + Cardinality(HasThread) = Threads
         /\ pool + Cardinality(HasConnection) = Connections
         /\ Threads \in Nat /\ Connections \in Nat
BY ServingAssumption DEF ServingInv, TypeOK, NothingLeaks

\* A call that moves on keeps its thread, takes one or gives one back.
LEMMA ThreadsCounted ==
  ASSUME ServingInv, NEW c \in Calls, NEW x \in Call, call' = [call EXCEPT ![c] = x],
         \/ threads' = threads /\ (c \in HasThread <=> x.pc \in {"checkout", "working"})
         \/ threads > 0 /\ threads' = threads - 1 /\ c \notin HasThread /\ x.pc = "checkout"
         \/ threads' = threads + 1 /\ c \in HasThread /\ x.pc \notin {"checkout", "working"}
  PROVE  threads' \in 0 .. Threads /\ threads' + Cardinality(HasThread') = Threads
<1>1. CASE threads' = threads /\ (c \in HasThread <=> x.pc \in {"checkout", "working"})
  <2>1. HasThread' = IF c \in HasThread THEN HasThread \cup {c} ELSE HasThread \ {c}
    BY <1>1, HoldersAfter
  <2>2. HasThread' = HasThread
    BY <2>1, Unmoved
  <2> QED
    BY <1>1, <2>2, ServingTypes DEF ServingInv, TypeOK
<1>2. CASE threads > 0 /\ threads' = threads - 1 /\ c \notin HasThread /\ x.pc = "checkout"
  <2>1. HasThread' = HasThread \cup {c}
    BY <1>2, HoldersAfter
  <2> QED
    BY <1>2, <2>1, ServingTypes, HoldersAreFinite, OneTaken
<1>3. CASE threads' = threads + 1 /\ c \in HasThread /\ x.pc \notin {"checkout", "working"}
  <2>1. HasThread' = HasThread \ {c}
    BY <1>3, HoldersAfter
  <2> QED
    BY <1>3, <2>1, ServingTypes, HoldersAreFinite, OneReturned
<1> QED
  BY <1>1, <1>2, <1>3

\* And so for its connection.
LEMMA ConnectionsCounted ==
  ASSUME ServingInv, NEW c \in Calls, NEW x \in Call, call' = [call EXCEPT ![c] = x],
         \/ pool' = pool /\ (x.connected <=> call[c].connected)
         \/ pool > 0 /\ pool' = pool - 1 /\ ~call[c].connected /\ x.connected
         \/ pool' = pool + 1 /\ call[c].connected /\ ~x.connected
  PROVE  pool' \in 0 .. Connections /\ pool' + Cardinality(HasConnection') = Connections
<1>0. c \in HasConnection <=> call[c].connected
  BY DEF HasConnection
<1>1. CASE pool' = pool /\ (x.connected <=> call[c].connected)
  <2>1. HasConnection' = IF c \in HasConnection
                            THEN HasConnection \cup {c} ELSE HasConnection \ {c}
    BY <1>0, <1>1, HoldersAfter
  <2>2. HasConnection' = HasConnection
    BY <2>1, Unmoved
  <2> QED
    BY <1>1, <2>2, ServingTypes DEF ServingInv, TypeOK
<1>2. CASE pool > 0 /\ pool' = pool - 1 /\ ~call[c].connected /\ x.connected
  <2>1. HasConnection' = HasConnection \cup {c}
    BY <1>2, HoldersAfter
  <2> QED
    BY <1>0, <1>2, <2>1, ServingTypes, HoldersAreFinite, OneTaken
<1>3. CASE pool' = pool + 1 /\ call[c].connected /\ ~x.connected
  <2>1. HasConnection' = HasConnection \ {c}
    BY <1>3, HoldersAfter
  <2> QED
    BY <1>0, <1>3, <2>1, ServingTypes, HoldersAreFinite, OneReturned
<1> QED
  BY <1>1, <1>2, <1>3

\* A step of one call keeps the counts when it writes them as above.
LEMMA MoveServes ==
  ASSUME ServingInv, NEW c \in Calls, NEW x \in Call, call' = [call EXCEPT ![c] = x],
         x.pc \in {"idle", "arrived", "checkout"} => ~x.connected,
         x.pc = "working" => x.connected,
         \/ threads' = threads /\ (c \in HasThread <=> x.pc \in {"checkout", "working"})
         \/ threads > 0 /\ threads' = threads - 1 /\ c \notin HasThread /\ x.pc = "checkout"
         \/ threads' = threads + 1 /\ c \in HasThread /\ x.pc \notin {"checkout", "working"},
         \/ pool' = pool /\ (x.connected <=> call[c].connected)
         \/ pool > 0 /\ pool' = pool - 1 /\ ~call[c].connected /\ x.connected
         \/ pool' = pool + 1 /\ call[c].connected /\ ~x.connected
  PROVE  ServingInv'
<1>1. threads' \in 0 .. Threads /\ threads' + Cardinality(HasThread') = Threads
  BY ThreadsCounted
<1>2. pool' \in 0 .. Connections /\ pool' + Cardinality(HasConnection') = Connections
  BY ConnectionsCounted
<1>3. /\ call' \in [Calls -> Call] /\ call'[c] = x
      /\ \A d \in Calls \ {c} : call'[d] = call[d]
  BY HoldersAfter
<1>4. ConnectedWhereNeeded'
  BY <1>3 DEF ServingInv, ConnectedWhereNeeded, At
<1> QED
  BY <1>1, <1>2, <1>3, <1>4 DEF ServingInv, TypeOK, NothingLeaks

\* Before a call has its connection.
LEMMA ArrivalServes ==
  ASSUME ServingInv, NEW c \in Calls,
         Arrive(c) \/ TakeThread(c) \/ Checkout(c) \/ PoolTimeout(c)
  PROVE  ServingInv'
<1>0. call \in [Calls -> Call] /\ call[c] \in Call
  BY ServingTypes
<1>1. call[c].pc \in {"idle", "arrived", "checkout"} /\ ~call[c].connected
  BY DEF Arrive, TakeThread, Checkout, PoolTimeout, At, ServingInv, ConnectedWhereNeeded
<1>2. CASE Arrive(c)
  <2> DEFINE x == [call[c] EXCEPT !.pc = "arrived"]
  <2>1. x \in Call /\ x.pc = "arrived" /\ x.connected = call[c].connected
    BY <1>0 DEF Call, PC
  <2>2. call' = [call EXCEPT ![c] = x] /\ threads' = threads /\ pool' = pool /\ c \notin HasThread
    BY <1>0, <1>2 DEF Arrive, At, HasThread
  <2> QED
    BY <1>1, <2>1, <2>2, MoveServes
<1>3. CASE TakeThread(c)
  <2> DEFINE x == [call[c] EXCEPT !.pc = "checkout"]
  <2>1. x \in Call /\ x.pc = "checkout" /\ x.connected = call[c].connected
    BY <1>0 DEF Call, PC
  <2>2. /\ call' = [call EXCEPT ![c] = x] /\ threads > 0 /\ threads' = threads - 1
        /\ pool' = pool /\ c \notin HasThread
    BY <1>0, <1>3 DEF TakeThread, At, HasThread
  <2> QED
    BY <1>1, <2>1, <2>2, MoveServes
<1>4. CASE Checkout(c)
  <2> DEFINE x == [call[c] EXCEPT !.pc = "working", !.connected = TRUE]
  <2>1. x \in Call /\ x.pc = "working" /\ x.connected
    BY <1>0 DEF Call, PC
  <2>2. /\ call' = [call EXCEPT ![c] = x] /\ threads' = threads
        /\ pool > 0 /\ pool' = pool - 1 /\ c \in HasThread
    BY <1>0, <1>4 DEF Checkout, At, HasThread
  <2> QED
    BY <1>1, <2>1, <2>2, MoveServes
<1>5. CASE PoolTimeout(c)
  <2> DEFINE x == [call[c] EXCEPT !.pc = "closing"]
  <2>1. x \in Call /\ x.pc = "closing" /\ x.connected = call[c].connected
    BY <1>0 DEF Call, PC
  <2>2. /\ call' = [call EXCEPT ![c] = x] /\ threads' = threads + 1
        /\ pool' = pool /\ c \in HasThread
    BY <1>0, <1>5 DEF PoolTimeout, At, HasThread
  <2> QED
    BY <1>1, <2>1, <2>2, MoveServes
<1> QED
  BY <1>2, <1>3, <1>4, <1>5

\* From its first statement to the end of its session.
LEMMA WorkServes ==
  ASSUME ServingInv, NEW c \in Calls, Commit(c) \/ Finish(c) \/ Serialise(c) \/ Close(c)
  PROVE  ServingInv'
<1>0. call \in [Calls -> Call] /\ call[c] \in Call /\ MaxCommits \in Nat
  BY ServingTypes, ServingAssumption
<1>1. At(c, "working") => call[c].connected
  BY DEF ServingInv, ConnectedWhereNeeded
<1>2. CASE Commit(c)
  <2> DEFINE x == [call[c] EXCEPT !.pc = "checkout", !.connected = FALSE, !.commits = @ + 1]
  <2>1. x \in Call /\ x.pc = "checkout" /\ ~x.connected
    BY <1>0, <1>2 DEF Commit, Call, PC
  <2>2. /\ call' = [call EXCEPT ![c] = x] /\ threads' = threads /\ pool' = pool + 1
        /\ c \in HasThread /\ call[c].connected
    BY <1>0, <1>1, <1>2 DEF Commit, At, HasThread
  <2> QED
    BY <2>1, <2>2, MoveServes
<1>3. CASE Finish(c)
  <2> PICK next \in {"finished", "closing"} : call' = [call EXCEPT ![c].pc = next]
    BY <1>3 DEF Finish
  <2> DEFINE x == [call[c] EXCEPT !.pc = next]
  <2>1. x \in Call /\ x.pc = next /\ x.connected = call[c].connected
    BY <1>0 DEF Call, PC
  <2>2. /\ call' = [call EXCEPT ![c] = x] /\ threads' = threads + 1 /\ pool' = pool
        /\ c \in HasThread
    BY <1>0, <1>3 DEF Finish, At, HasThread
  <2> QED
    BY <2>1, <2>2, MoveServes
<1>4. CASE Serialise(c)
  <2> DEFINE x == [call[c] EXCEPT !.pc = "closing"]
  <2>1. x \in Call /\ x.pc = "closing" /\ x.connected = call[c].connected
    BY <1>0 DEF Call, PC
  <2>2. call' = [call EXCEPT ![c] = x] /\ threads' = threads /\ pool' = pool /\ c \notin HasThread
    BY <1>0, <1>4 DEF Serialise, At, HasThread
  <2> QED
    BY <2>1, <2>2, MoveServes
<1>5. CASE Close(c)
  <2>1. Idle \in Call /\ Idle.pc = "idle" /\ ~Idle.connected
    BY <1>0 DEF Idle, Call, PC
  <2>2. /\ call' = [call EXCEPT ![c] = Idle] /\ threads' = threads /\ c \notin HasThread
        /\ pool' = IF call[c].connected THEN pool + 1 ELSE pool
    BY <1>5 DEF Close, At, HasThread
  <2> QED
    BY <2>1, <2>2, MoveServes
<1> QED
  BY <1>2, <1>3, <1>4, <1>5

\* At the start the pools are full.
LEMMA ServingInit == Init => ServingInv
<1> SUFFICES ASSUME Init PROVE ServingInv
  OBVIOUS
<1>1. Idle \in Call /\ Idle.pc = "idle" /\ ~Idle.connected
  BY ServingAssumption DEF Idle, Call, PC
<1>2. \A c \in Calls : call[c] = Idle
  BY DEF Init
<1>3. HasThread = {} /\ HasConnection = {}
  BY <1>1, <1>2 DEF HasThread, HasConnection
<1>4. NothingLeaks
  BY <1>3, FS_EmptySet, ServingAssumption DEF Init, NothingLeaks
<1>5. TypeOK /\ ConnectedWhereNeeded
  BY <1>1, <1>2, ServingAssumption DEF Init, TypeOK, ConnectedWhereNeeded, At
<1> QED
  BY <1>4, <1>5 DEF ServingInv

\* ServingInv is inductive.
LEMMA ServingInductive == ServingInv /\ [Next]_vars => ServingInv'
<1> SUFFICES ASSUME ServingInv, [Next]_vars PROVE ServingInv'
  OBVIOUS
<1>1. CASE Next
  BY <1>1, ArrivalServes, WorkServes DEF Next, Serve
<1>2. CASE UNCHANGED vars
  BY <1>2 DEF vars, ServingInv, TypeOK, ConnectedWhereNeeded, NothingLeaks, HasThread,
     HasConnection, At
<1> QED
  BY <1>1, <1>2

\* The pools are counted right in every state.
LEMMA ServingInvHolds == Spec => []ServingInv
BY ServingInit, ServingInductive, PTL DEF Spec

-----------------------------------------------------------------------------
(* The theorems.                                                            *)

\* No way out of a call, an error or a timeout, keeps a thread or a connection.
THEOREM PoolsAreWhole == Spec => []NothingLeaks
<1>1. ServingInv => NothingLeaks
  BY DEF ServingInv
<1>2. QED
  BY <1>1, ServingInvHolds, PTL

\* In a gridlock a call can arrive, or end without having had anything; nothing else
\* moves but the timeout.
LEMMA GridlockStays ==
  ASSUME ServingInv, Gridlock, NEW c \in Calls, Serve(c), ~PoolTimeout(c)
  PROVE  Gridlock'
<1>0. /\ call \in [Calls -> Call] /\ call[c] \in Call
      /\ threads = 0 /\ pool = 0 /\ ~(threads > 0) /\ ~(pool > 0)
      /\ \A d \in HasThread : At(d, "checkout")
      /\ \A d \in HasConnection : At(d, "finished")
  BY ServingTypes DEF Gridlock
<1>1. ~At(c, "working")
  BY <1>0 DEF HasThread, At
<1>2. Arrive(c) \/ Close(c)
  BY <1>0, <1>1 DEF Serve, TakeThread, Checkout, Commit, Finish, Serialise
<1>3. /\ ~call[c].connected /\ c \notin HasThread
      /\ threads' = 0 /\ pool' = 0
      /\ call'[c].pc \in {"idle", "arrived"} /\ ~call'[c].connected
      /\ \A d \in Calls \ {c} : call'[d] = call[d]
  <2>1. CASE Arrive(c)
    BY <1>0, <2>1 DEF Arrive, At, HasThread, ServingInv, ConnectedWhereNeeded, Call
  <2>2. CASE Close(c)
    <3>1. ~call[c].connected
      BY <1>0, <2>2 DEF Close, At, HasConnection
    <3> QED
      BY <1>0, <2>2, <3>1 DEF Close, At, HasThread, Idle
  <2> QED
    BY <1>2, <2>1, <2>2
<1> QED
  BY <1>0, <1>3 DEF Gridlock, HasThread, HasConnection, At

\* Once the pools wait for each other, only the timeout of the connection pool helps.
THEOREM GridlockNeedsTimeout == Spec => OnlyTimeoutsEndGridlock
<1>1. ServingInv /\ [Next]_vars =>
        [Gridlock /\ ~Gridlock' => \E c \in Calls : PoolTimeout(c)]_vars
  BY GridlockStays DEF Next
<1>2. QED
  BY <1>1, ServingInvHolds, PTL DEF Spec, OnlyTimeoutsEndGridlock

-----------------------------------------------------------------------------
(* How much load it takes.                                                  *)

\* A subset of the calls, and two subsets that share no call, have at most as many
\* members as there are calls.
LEMMA AtMostCalls ==
  ASSUME NEW S \in SUBSET Calls, NEW T \in SUBSET Calls, S \cap T = {}
  PROVE  Cardinality(S) + Cardinality(T) <= Cardinality(Calls)
<1>1. IsFiniteSet(Calls) /\ IsFiniteSet(S) /\ IsFiniteSet(T)
  BY FS_Subset, ServingAssumption
<1>2. Cardinality(S \cup T) = Cardinality(S) + Cardinality(T) - Cardinality(S \cap T)
  BY <1>1, FS_Union
<1>3. Cardinality(S \cap T) = 0
  BY FS_EmptySet
<1>4. S \cup T \subseteq Calls
  OBVIOUS
<1>5. Cardinality(S \cup T) <= Cardinality(Calls)
  BY <1>1, <1>4, FS_Subset
<1>6. Cardinality(S) \in Nat /\ Cardinality(T) \in Nat
  BY <1>1, FS_CardinalityType
<1> QED
  BY <1>2, <1>3, <1>5, <1>6

\* The pools can wait for each other only when at least as many calls are under way
\* as there are threads and connections together.
THEOREM GridlockNeedsLoad ==
  Spec => [](Gridlock => Cardinality(Calls) >= Threads + Connections)
<1>1. ServingInv => (Gridlock => Cardinality(Calls) >= Threads + Connections)
  <2> SUFFICES ASSUME ServingInv, Gridlock
               PROVE  Cardinality(Calls) >= Threads + Connections
    OBVIOUS
  <2>1. HasThread \in SUBSET Calls /\ HasConnection \in SUBSET Calls
    BY DEF HasThread, HasConnection
  <2>2. HasThread \cap HasConnection = {}
    BY DEF Gridlock, At
  <2>3. Cardinality(HasThread) + Cardinality(HasConnection) <= Cardinality(Calls)
    BY <2>1, <2>2, AtMostCalls
  <2>4. IsFiniteSet(Calls) /\ Cardinality(Calls) \in Nat
        /\ Cardinality(HasThread) \in Nat /\ Cardinality(HasConnection) \in Nat
    BY HoldersAreFinite, FS_CardinalityType, ServingAssumption
  <2>5. Cardinality(HasThread) = Threads /\ Cardinality(HasConnection) = Connections
    BY <2>4, ServingAssumption DEF ServingInv, NothingLeaks, Gridlock
  <2> QED
    BY <2>3, <2>4, <2>5, ServingAssumption
<1>2. QED
  BY <1>1, ServingInvHolds, PTL

\* As long as there are no more calls than connections, no call is failed by the
\* timeout of the connection pool, however they share the threads.
THEOREM FewCallsAreServed ==
  ASSUME Cardinality(Calls) <= Connections
  PROVE  Spec => [][\A c \in Calls : ~PoolTimeout(c)]_vars
<1>1. ServingInv => \A c \in Calls : ~PoolTimeout(c)
  <2> SUFFICES ASSUME ServingInv, NEW c \in Calls, At(c, "checkout"), pool = 0
               PROVE  FALSE
    BY DEF PoolTimeout
  <2>1. HasConnection \in SUBSET Calls /\ {c} \in SUBSET Calls /\ HasConnection \cap {c} = {}
    BY DEF HasConnection, ServingInv, ConnectedWhereNeeded, At
  <2>2. Cardinality(HasConnection) + Cardinality({c}) <= Cardinality(Calls)
    BY <2>1, AtMostCalls
  <2>3. Cardinality({c}) = 1
    BY FS_Singleton
  <2>4. Cardinality(Calls) \in Nat /\ Cardinality(HasConnection) \in Nat
    BY HoldersAreFinite, FS_CardinalityType, ServingAssumption
  <2>5. Cardinality(HasConnection) = Connections
    BY <2>4, ServingAssumption DEF ServingInv, NothingLeaks
  <2> QED
    BY <2>2, <2>3, <2>4, <2>5, ServingAssumption
<1>2. QED
  BY <1>1, ServingInvHolds, PTL DEF Spec
=============================================================================
