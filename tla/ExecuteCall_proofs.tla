-------------------------- MODULE ExecuteCall_proofs --------------------------
(***************************************************************************)
(* What holds of ExecuteCall for every choice of the three timeouts and    *)
(* for origins of every length: the adapter within it, which implements    *)
(* AdapterContract; the repository that an origin names; and what a client *)
(* may conclude from the answer.                                           *)
(***************************************************************************)
EXTENDS ExecuteCall, TLAPS, SequenceTheorems, WellFoundedInduction


-----------------------------------------------------------------------------
(* The adapter.                                                             *)

\* The clock at every point of the loop: the deadline is set when the POST has taken
\* its time and looked at before each sleep, so one interval and one request are all
\* that can follow it.
Budget ==
  /\ start.pc \in {"idle", "post"} => elapsed = 0
  /\ start.deadline <= RequestTimeout + StartTimeout
  /\ StartAt("inspect") => elapsed < RequestTimeout + StartTimeout + PollInterval + RequestTimeout
  /\ StartAt("sleep") => elapsed < RequestTimeout + StartTimeout
  /\ StartAt("poll") => elapsed < RequestTimeout + StartTimeout + PollInterval
  /\ elapsed < RequestTimeout + StartTimeout + PollInterval + RequestTimeout

\* The copies the adapter works on were true of the provider once, and what they say
\* of the work stays true.
Copies ==
  /\ start.reference => provider.exists
  /\ start.outcome = "handle" => StartAt("done") /\ provider.exists
  /\ start.outcome \in {"timeout"} \cup Errors => StartAt("done")
  /\ StartAt("done") => start.outcome # "none"
  /\ start.pc \in {"idle", "post"} => ~provider.exists
  /\ ~provider.exists => provider.execution = "odd" /\ provider.sandbox = "RUNNING"
  /\ StartAt("idle") => provider.status = "NONE"
  /\ StartAt("post") => provider.status = "NONE"
  /\ provider.exists => provider.status = "READY"
  /\ \A p \in Pollers : poll[p].pc = "translate" =>
       /\ start.outcome = "handle"
       /\ poll[p].execution = "finished" => provider.execution = "finished"
       /\ poll[p].execution = "error" => provider.execution = "error"
       /\ poll[p].sandbox = "LOST" => provider.sandbox = "LOST"

IInv == TypeOK /\ Budget /\ Copies

\* The initial state satisfies the invariant.
LEMMA InvInit == Init => IInv
BY AdapterAssumption
   DEF Init, IInv, TypeOK, Budget, Copies, Provider, Start, Poll, State, Errors, RequestErrors,
       StartStatus, ExecutionStatus, SandboxStatus, StartAt, Ready

\* What the POST may take leaves the budget and the interval.
LEMMA PostTicks ==
  ASSUME NEW n \in 0 .. RequestTimeout
  PROVE  /\ n \in Nat /\ n + StartTimeout \in Nat
         /\ n + StartTimeout <= RequestTimeout + StartTimeout
         /\ n < RequestTimeout + StartTimeout + PollInterval + RequestTimeout
BY AdapterAssumption

\* Every step of the adapter and of the provider keeps it.
LEMMA InvStep == IInv /\ [Next]_vars => IInv'
<1> SUFFICES ASSUME IInv, [Next]_vars PROVE IInv'
  OBVIOUS
<1> USE AdapterAssumption
    DEF IInv, TypeOK, Budget, Copies, Provider, Start, Poll, State,
        Errors, RequestErrors,
        StartStatus, ExecutionStatus, SandboxStatus, StartAt, StartGoto, StartEnds, Ready,
        RequestTakesTime
<1>1. CASE UNCHANGED vars
  BY <1>1 DEF vars
<1>2. CASE BeginStart
  BY <1>2 DEF BeginStart
<1>3. CASE PostAnswered
  <2>1. StartAt("post") /\ elapsed = 0 /\ UNCHANGED <<poll, answers>>
    BY <1>3 DEF PostAnswered
  <2>2. /\ elapsed' \in Nat /\ elapsed' + StartTimeout \in Nat
        /\ elapsed' + StartTimeout <= RequestTimeout + StartTimeout
        /\ elapsed' < RequestTimeout + StartTimeout + PollInterval + RequestTimeout
    <3>1. elapsed' \in 0 .. RequestTimeout
      BY <1>3, <2>1 DEF PostAnswered
    <3> QED BY <3>1, PostTicks
  <2>3. PICK status \in StartStatus, exists \in BOOLEAN :
          /\ exists => status = "READY"
          /\ provider' = [provider EXCEPT !.status = status, !.exists = exists]
          /\ start' = [start EXCEPT !.pc = "inspect", !.status = status, !.reference = exists,
                                    !.deadline = elapsed' + StartTimeout]
    BY <1>3 DEF PostAnswered, TakesPost
  <2>4. /\ start' \in Start /\ start'.pc = "inspect" /\ start'.reference = exists
        /\ start'.deadline = elapsed' + StartTimeout /\ start'.outcome = start.outcome
    BY <2>2, <2>3
  <2>5. /\ provider' \in Provider /\ provider'.exists = exists
        /\ provider'.status = status /\ provider'.execution = provider.execution
        /\ provider'.sandbox = provider.sandbox
    BY <2>3
  <2>6. TypeOK'
    <3>1. elapsed' \in Nat /\ poll' \in [Pollers -> Poll] /\ answers' \subseteq State
      BY <2>1, <2>2
    <3> QED BY <2>4, <2>5, <3>1 DEF TypeOK
  <2>7. Budget'
    BY <2>2, <2>4
  <2>8. Copies'
    BY <2>1, <2>3, <2>4, <2>5
  <2> QED BY <2>6, <2>7, <2>8
<1>4. CASE PostFails
  <2>1. StartAt("post") /\ elapsed = 0 /\ UNCHANGED <<poll, answers>>
    BY <1>4 DEF PostFails
  <2>2. elapsed' \in Nat /\ elapsed' < RequestTimeout + StartTimeout + PollInterval + RequestTimeout
    <3>1. elapsed' \in 0 .. RequestTimeout
      BY <1>4, <2>1 DEF PostFails
    <3> QED BY <3>1, PostTicks
  <2>3. provider' = provider \/ \E status \in StartStatus :
          provider' = [provider EXCEPT !.status = status, !.exists = FALSE]
    BY <1>4 DEF PostFails, TakesPost
  <2>4. PICK error \in RequestErrors : StartEnds(error)
    BY <1>4 DEF PostFails
  <2>5. /\ start' \in Start /\ start'.pc = "done" /\ start'.outcome = error
        /\ start'.reference = start.reference /\ start'.deadline = start.deadline
    BY <2>4
  <2>6. /\ provider' \in Provider /\ ~provider'.exists
        /\ provider'.execution = provider.execution /\ provider'.sandbox = provider.sandbox
    BY <2>1, <2>3
  <2>7. TypeOK'
    BY <2>1, <2>2, <2>5, <2>6
  <2>8. Budget'
    BY <2>2, <2>5
  <2>9. Copies'
    BY <2>1, <2>5, <2>6
  <2> QED BY <2>7, <2>8, <2>9
<1>5. CASE InspectStart
  <2>1. UNCHANGED <<provider, elapsed, poll, answers>> /\ StartAt("inspect")
    BY <1>5 DEF InspectStart
  <2>2. CASE Ready /\ StartEnds("handle")
    BY <2>1, <2>2
  <2>3. CASE StartEnds("provider")
    BY <2>1, <2>3
  <2>4. CASE ~Ready /\ elapsed >= start.deadline /\ StartEnds("timeout")
    BY <2>1, <2>4
  <2>5. CASE elapsed < start.deadline /\ StartGoto("sleep")
    BY <2>1, <2>5
  <2> QED BY <1>5, <2>2, <2>3, <2>4, <2>5 DEF InspectStart, Pending
<1>6. CASE Sleep
  BY <1>6 DEF Sleep
<1>7. CASE PollStart
  <2>1. UNCHANGED <<provider, poll, answers>> /\ StartAt("poll")
    BY <1>7 DEF PollStart
  <2>2. elapsed' \in Nat /\ elapsed' < RequestTimeout + StartTimeout + PollInterval + RequestTimeout
    BY <1>7 DEF PollStart
  <2>3. CASE start' = [start EXCEPT !.pc = "inspect", !.status = provider.status,
                                    !.reference = provider.exists]
    BY <2>1, <2>2, <2>3
  <2>4. CASE StartGoto("inspect")
    BY <2>1, <2>2, <2>4
  <2>5. ASSUME NEW error \in RequestErrors, StartEnds(error) PROVE IInv'
    BY <2>1, <2>2, <2>5
  <2> QED BY <1>7, <2>3, <2>4, <2>5 DEF PollStart
<1>8. ASSUME NEW p \in Pollers, AskStatus(p) PROVE IInv'
  BY <1>8 DEF AskStatus
<1>9. ASSUME NEW p \in Pollers, GetStatus(p) PROVE IInv'
  <2>1. Translated(p) \in State
    BY DEF Translated
  <2> QED BY <1>9, <2>1 DEF GetStatus
<1>10. CASE StartTaskMoves
  BY <1>10 DEF StartTaskMoves
<1>11. CASE ConversationAppears
  BY <1>11 DEF ConversationAppears
<1>12. CASE ExecutionMoves
  BY <1>12 DEF ExecutionMoves
<1>13. CASE SandboxIsLost
  BY <1>13 DEF SandboxIsLost
<1> QED BY <1>1, <1>2, <1>3, <1>4, <1>5, <1>6, <1>7, <1>8, <1>9, <1>10, <1>11, <1>12, <1>13
        DEF Next, StartStep

\* The invariant holds of every behaviour.
LEMMA Invariant == Spec => []IInv
BY InvInit, InvStep, PTL DEF Spec

\* The provider's record and the calls keep their types.
THEOREM TypeCorrect == Spec => []TypeOK
<1>1. IInv => TypeOK
  BY DEF IInv
<1> QED BY <1>1, Invariant, PTL

\* For every choice of the timeouts, start_task takes less than its budget, one
\* interval and two requests, the POST included.
THEOREM StartBounded == Spec => []StartIsBounded
<1>1. IInv => StartIsBounded
  BY AdapterAssumption DEF IInv, TypeOK, Budget, StartIsBounded
<1> QED BY <1>1, Invariant, PTL

-----------------------------------------------------------------------------
(* The refinement: every step of the adapter is a step of the contract.     *)

\* What the provider does on its own account is what the contract lets it do.
LEMMA ProviderStep ==
  ASSUME IInv, provider' \in Provider, start.pc # "idle",
         UNCHANGED <<CallState, answers>>,
         provider.exists => provider'.exists,
         provider.execution = "finished" => provider'.execution = "finished",
         provider.execution = "error" => provider'.execution = "error",
         provider.sandbox = "LOST" => provider'.sandbox = "LOST",
         ~provider'.exists => provider'.execution = "odd" /\ provider'.sandbox = "RUNNING"
  PROVE  Contract!Next
<1>1. CallState # "none"
  BY DEF CallState
<1> QED BY <1>1 DEF Contract!Next, Contract!Provider, CallState

\* What the contract says of an answer is what the adapter read.
LEMMA AnswerStep ==
  ASSUME IInv, NEW p \in Pollers, GetStatus(p)
  PROVE  Contract!Next
<1> USE DEF IInv, TypeOK, Copies, Poll, ExecutionStatus, SandboxStatus, Provider
<1>1. CallState = "handle" /\ CallState' = CallState
  BY DEF GetStatus, CallState, StartAt, Start, Errors, RequestErrors
<1>2. /\ Translated(p) \in State
      /\ Translated(p) = "completed" => provider.execution = "finished"
      /\ Translated(p) = "failed" => provider.execution = "error" \/ provider.sandbox = "LOST"
  BY DEF GetStatus, Translated, State
<1>3. Contract!Answer(Translated(p))
  BY <1>1, <1>2 DEF Contract!Answer, GetStatus
<1> QED BY <1>2, <1>3 DEF Contract!Next, State

\* Every step of the adapter and of the provider is a step of the contract, or none.
LEMMA ContractStep ==
  IInv /\ [Next]_vars =>
    [Contract!Next]_<<provider.exists, provider.execution = "finished",
                      provider.execution = "error" \/ provider.sandbox = "LOST",
                      CallState, answers>>
<1> DEFINE mapped == <<provider.exists, provider.execution = "finished",
                       provider.execution = "error" \/ provider.sandbox = "LOST",
                       CallState, answers>>
<1> SUFFICES ASSUME IInv, Next PROVE Contract!Next \/ UNCHANGED mapped
  BY DEF vars, CallState
<1> USE AdapterAssumption
    DEF IInv, TypeOK, Copies, Provider, Start, StartStatus, ExecutionStatus, SandboxStatus,
        Errors, RequestErrors, StartAt, StartGoto, StartEnds
<1>1. CASE BeginStart
  <2>1. CallState = "none" /\ UNCHANGED <<provider, answers>>
    BY <1>1 DEF BeginStart, CallState
  <2>2. CASE StartGoto("post")
    <3>1. CallState' = "calling"
      BY <2>2, <1>1 DEF BeginStart, CallState
    <3> QED BY <2>1, <3>1 DEF Contract!Next, Contract!Call
  <2>3. CASE StartEnds("unconfigured")
    <3>1. CallState' = "raised"
      BY <2>3 DEF CallState
    <3> QED BY <2>1, <3>1 DEF Contract!Next, Contract!Raise
  <2> QED BY <1>1, <2>2, <2>3 DEF BeginStart
<1>2. CASE PostAnswered
  <2>1. UNCHANGED <<CallState, answers>>
    BY <1>2 DEF PostAnswered, CallState
  <2> QED BY <1>2, <2>1, ProviderStep DEF PostAnswered, TakesPost
<1>3. CASE PostFails
  <2>1. CallState = "calling" /\ CallState' = "raised"
    BY <1>3 DEF PostFails, CallState
  <2>2. /\ UNCHANGED <<provider.exists, provider.execution = "finished", answers>>
        /\ UNCHANGED (provider.execution = "error" \/ provider.sandbox = "LOST")
    BY <1>3 DEF PostFails, TakesPost
  <2> QED BY <2>1, <2>2 DEF Contract!Next, Contract!Raise
<1>4. CASE InspectStart
  <2>1. CallState = "calling" /\ UNCHANGED <<provider, answers>>
    BY <1>4 DEF InspectStart, CallState
  <2>2. CASE Ready /\ StartEnds("handle")
    <3>1. CallState' = "handle" /\ provider.exists
      BY <2>2, <1>4 DEF InspectStart, CallState, Ready
    <3> QED BY <2>1, <3>1 DEF Contract!Next, Contract!Return
  <2>3. CASE StartEnds("provider") \/ StartEnds("timeout")
    <3>1. CallState' = "raised"
      BY <2>3 DEF CallState
    <3> QED BY <2>1, <3>1 DEF Contract!Next, Contract!Raise
  <2>4. CASE StartGoto("sleep")
    <3>1. CallState' = "calling"
      BY <2>4, <1>4 DEF InspectStart, CallState
    <3> QED BY <2>1, <3>1
  <2> QED BY <1>4, <2>2, <2>3, <2>4 DEF InspectStart
<1>5. CASE Sleep
  <2>1. UNCHANGED <<CallState, provider, answers>>
    BY <1>5 DEF Sleep, CallState
  <2> QED BY <2>1
<1>6. CASE PollStart
  <2>1. CallState = "calling" /\ UNCHANGED <<provider, answers>>
    BY <1>6 DEF PollStart, CallState
  <2>2. CallState' = "calling" \/ CallState' = "raised"
    BY <1>6 DEF PollStart, CallState
  <2> QED BY <2>1, <2>2 DEF Contract!Next, Contract!Raise
<1>7. ASSUME NEW p \in Pollers, AskStatus(p) PROVE UNCHANGED mapped
  <2>1. UNCHANGED <<CallState, provider, answers>>
    BY <1>7 DEF AskStatus, CallState
  <2> QED BY <2>1
<1>8. ASSUME NEW p \in Pollers, GetStatus(p) PROVE Contract!Next
  BY <1>8, AnswerStep
<1>9. CASE StartTaskMoves \/ ConversationAppears \/ ExecutionMoves \/ SandboxIsLost
  <2>1. start.pc # "idle" /\ UNCHANGED <<CallState, answers>>
    BY <1>9 DEF StartTaskMoves, ConversationAppears, ExecutionMoves, SandboxIsLost, CallState
  <2> QED BY <1>9, <2>1, ProviderStep
          DEF StartTaskMoves, ConversationAppears, ExecutionMoves, SandboxIsLost
<1> QED BY <1>1, <1>2, <1>3, <1>4, <1>5, <1>6, <1>7, <1>8, <1>9 DEF Next, StartStep

\* The adapter implements the contract that ExecutionService relies on.
THEOREM ImplementsContract == Spec => KeepsContract
<1>1. Init => Contract!Init
  BY DEF Init, Contract!Init, CallState, Errors, RequestErrors
<1>2. IInv /\ [Next]_vars =>
        [Contract!Next]_<<provider.exists, provider.execution = "finished",
                          provider.execution = "error" \/ provider.sandbox = "LOST",
                          CallState, answers>>
  BY ContractStep
<1> QED BY <1>1, <1>2, Invariant, PTL DEF Spec, KeepsContract, Contract!Spec

-----------------------------------------------------------------------------
(* The repository that an origin names.                                     *)

\* A set of natural numbers has a smallest member.
LEMMA Smallest ==
  ASSUME NEW S \in SUBSET Nat, S # {}
  PROVE  Min(S) \in S /\ \A i \in S : Min(S) <= i
<1> DEFINE less == {p \in Nat \X Nat : p[1] < p[2]}
<1>1. IsWellFoundedOn(less, Nat)
  BY NatLessThanWellFounded DEF OpToRel
<1>2. PICK m \in S : \A i \in S : ~(<<i, m>> \in less)
  <2> HIDE DEF less
  <2>1. S \subseteq Nat
    OBVIOUS
  <2> QED BY <1>1, <2>1, WFMin, Zenon
<1>3. \A i, j \in Nat : i < j => <<i, j>> \in less
  OBVIOUS
<1>4. ASSUME NEW i \in S PROVE m <= i
  <2> HIDE DEF less
  <2>1. i \in Nat /\ m \in Nat
    OBVIOUS
  <2>2. ~(i < m)
    BY <1>2, <1>3, <2>1
  <2> QED BY <2>1, <2>2
<1> QED BY <1>4 DEF Min

\* A bounded one has a largest member.
LEMMA Largest ==
  ASSUME NEW n \in Nat, NEW S \in SUBSET (0 .. n), S # {}
  PROVE  Max(S) \in S /\ \A i \in S : i <= Max(S)
<1> DEFINE T == {n - i : i \in S}
<1>1. T \in SUBSET Nat /\ T # {}
  <2>1. \A i \in S : n - i \in Nat
    OBVIOUS
  <2> QED BY <2>1
<1>2. Min(T) \in T /\ \A i \in T : Min(T) <= i
  <2> HIDE DEF T
  <2> QED BY <1>1, Smallest
<1>3. PICK m \in S : Min(T) = n - m
  BY <1>2
<1>4. \A i \in S : n - m <= n - i
  BY <1>2, <1>3
<1>5. \A i \in S : m >= i
  BY <1>4
<1>6. Max(S) \in S /\ \A i \in S : Max(S) >= i
  BY <1>5 DEF Max
<1> QED BY <1>6

\* The first occurrence of a token, or 0.
LEMMA FirstToken ==
  ASSUME NEW s \in Seq(Tokens), NEW token
  PROVE  /\ First(s, token) \in 0 .. Len(s)
         /\ Has(s, token) <=> First(s, token) # 0
         /\ First(s, token) # 0 => s[First(s, token)] = token
         /\ \A i \in 1 .. Len(s) : s[i] = token => First(s, token) \in 1 .. i
<1> DEFINE I == {i \in 1 .. Len(s) : s[i] = token}
           k == First(s, token)
<1>1. k = IF I # {} THEN Min(I) ELSE 0
  BY DEF First, SelectInSeq
<1>2. I \in SUBSET Nat
  OBVIOUS
<1>3. I # {} => Min(I) \in I /\ \A i \in I : Min(I) <= i
  <2> HIDE DEF I
  <2> QED BY <1>2, Smallest
<1>4. Has(s, token) <=> I # {}
  BY DEF Has
<1> HIDE DEF k, I
<1>6. \A i : i \in I <=> i \in 1 .. Len(s) /\ s[i] = token
  BY DEF I
<1>7. Len(s) \in Nat
  OBVIOUS
<1>5. /\ k \in 0 .. Len(s)
      /\ Has(s, token) <=> k # 0
      /\ k # 0 => s[k] = token
      /\ \A i \in 1 .. Len(s) : s[i] = token => k \in 1 .. i
  BY <1>1, <1>3, <1>4, <1>6, <1>7
<1> QED BY <1>5 DEF k

\* A piece of a sequence, element by element.
LEMMA Piece ==
  ASSUME NEW s \in Seq(Tokens), NEW a \in 0 .. Len(s), NEW b \in a .. Len(s)
  PROVE  /\ SubSeq(s, a + 1, b) \in Seq(Tokens)
         /\ Len(SubSeq(s, a + 1, b)) = b - a
         /\ \A i \in 1 .. b - a : SubSeq(s, a + 1, b)[i] = s[a + i]
<1>1. Len(s) \in Nat /\ a \in Int /\ a + 1 \in Int /\ b \in Int
  OBVIOUS
<1>2. \A i \in a + 1 .. b : s[i] \in Tokens
  BY <1>1
<1> DEFINE q == SubSeq(s, a + 1, b)
<1>3. /\ q \in Seq(Tokens)
      /\ Len(q) = IF a + 1 <= b THEN b - (a + 1) + 1 ELSE 0
      /\ \A i \in 1 .. b - (a + 1) + 1 : q[i] = s[a + 1 + i - 1]
  BY <1>1, <1>2, SubSeqProperties
<1> HIDE DEF q
<1>4. Len(q) = b - a
  BY <1>1, <1>3
<1>5. ASSUME NEW i \in 1 .. b - a PROVE q[i] = s[a + i]
  <2>1. a + 1 + i - 1 = a + i /\ i \in 1 .. b - (a + 1) + 1
    BY <1>1
  <2> QED BY <1>3, <2>1
<1> QED BY <1>3, <1>4, <1>5 DEF q

\* The beginning of a sequence, element by element.
LEMMA Beginning ==
  ASSUME NEW s \in Seq(Tokens), NEW n \in 0 .. Len(s)
  PROVE  /\ SubSeq(s, 1, n) \in Seq(Tokens)
         /\ Len(SubSeq(s, 1, n)) = n
         /\ \A i \in 1 .. n : SubSeq(s, 1, n)[i] = s[i]
<1>1. SubSeq(s, 0 + 1, n) = SubSeq(s, 1, n) /\ 0 \in 0 .. Len(s) /\ n \in 0 .. Len(s)
  OBVIOUS
<1>2. /\ SubSeq(s, 0 + 1, n) \in Seq(Tokens)
      /\ Len(SubSeq(s, 0 + 1, n)) = n - 0
      /\ \A i \in 1 .. n - 0 : SubSeq(s, 0 + 1, n)[i] = s[0 + i]
  BY <1>1, Piece
<1> QED BY <1>1, <1>2

\* One .git at the very end is cut off, nothing else.
LEMMA SuffixCut ==
  ASSUME NEW s \in Seq(Tokens)
  PROVE  \E n \in 0 .. Len(s) :
           /\ WithoutSuffix[s] = SubSeq(s, 1, n)
           /\ \/ n = Len(s) /\ (n # 0 => s[n] # ".git")
              \/ n + 1 = Len(s) /\ s[n + 1] = ".git"
<1>1. Len(s) \in Nat /\ (s # <<>> <=> Len(s) # 0)
  OBVIOUS
<1>2. CASE s # <<>> /\ s[Len(s)] = ".git"
  <2>1. WithoutSuffix[s] = SubSeq(s, 1, Len(s) - 1)
    BY <1>2 DEF WithoutSuffix, Last, Front
  <2> QED BY <1>1, <1>2, <2>1
<1>3. CASE ~(s # <<>> /\ s[Len(s)] = ".git")
  <2>1. WithoutSuffix[s] = s
    BY <1>3 DEF WithoutSuffix, Last
  <2>2. SubSeq(s, 1, Len(s)) = s
    BY SubSeqFull
  <2>3. Len(s) # 0 => s[Len(s)] # ".git"
    BY <1>1, <1>3
  <2> WITNESS Len(s) \in 0 .. Len(s)
  <2> QED BY <2>1, <2>2, <2>3
<1> QED BY <1>2, <1>3

\* The slashes at the end are cut off, nothing else.
LEMMA SlashesCut ==
  ASSUME NEW s \in Seq(Tokens)
  PROVE  \E n \in 0 .. Len(s) :
           /\ WithoutSlashes[s] = SubSeq(s, 1, n)
           /\ n # 0 => s[n] # "/"
           /\ \A i \in n + 1 .. Len(s) : s[i] = "/"
<1> DEFINE S == {0} \cup {i \in DOMAIN s : s[i] # "/"}
<1>1. Len(s) \in Nat /\ DOMAIN s = 1 .. Len(s)
  OBVIOUS
<1>2. S \in SUBSET (0 .. Len(s)) /\ S # {}
  BY <1>1
<1>3. Max(S) \in S /\ \A i \in S : i <= Max(S)
  <2> HIDE DEF S
  <2> QED BY <1>1, <1>2, Largest
<1>4. WithoutSlashes[s] = SubSeq(s, 1, Max(S))
  BY DEF WithoutSlashes
<1>5. \A i \in 1 .. Len(s) : s[i] # "/" => i \in S
  BY <1>1
<1>6. Max(S) # 0 => s[Max(S)] # "/"
  <2>1. \A n \in S : n # 0 => s[n] # "/"
    OBVIOUS
  <2> HIDE DEF S
  <2> QED BY <1>3, <2>1
<1> DEFINE m == Max(S)
<1>7. m \in 0 .. Len(s)
  <2> HIDE DEF S
  <2> QED BY <1>2, <1>3
<1>8. \A i \in m + 1 .. Len(s) : s[i] = "/"
  <2> SUFFICES ASSUME NEW i \in m + 1 .. Len(s), s[i] # "/" PROVE FALSE
    OBVIOUS
  <2>1. i \in 1 .. Len(s)
    <3> HIDE DEF m
    <3> QED BY <1>1, <1>7
  <2>2. i <= m
    <3>1. i \in S
      BY <1>5, <2>1
    <3> HIDE DEF S
    <3> QED BY <1>3, <3>1
  <2> HIDE DEF m
  <2> QED BY <1>7, <2>1, <2>2
<1>9. m # 0 => s[m] # "/"
  BY <1>6
<1> HIDE DEF S
<1> WITNESS m \in 0 .. Len(s)
<1> QED BY <1>4, <1>8, <1>9

Origin == [scheme : Schemes, body : Seq(Tokens)]

\* Where the host and its separator end, if the origin has them.
Host(o) == CASE o.scheme = "scp"  -> First(o.body, ":")
             [] o.scheme = "url"  -> First(o.body, "/")
             [] OTHER -> 0

\* The candidate is what follows the host, or there is none.
LEMMA CandidateIsTail ==
  ASSUME NEW o \in Origin
  PROVE  /\ Host(o) \in 0 .. Len(o.body)
         /\ \/ /\ Candidate(o) = SubSeq(o.body, Host(o) + 1, Len(o.body))
               /\ o.scheme = "scp" => Host(o) > 0
               /\ o.scheme = "url" /\ Host(o) = 0 => ~Has(Candidate(o), "/")
               /\ o.scheme # "none"
               /\ o.scheme = "bare" => ~Has(o.body, ":")
            \/ Candidate(o) = NoRepository
<1>1. o.body \in Seq(Tokens) /\ o.scheme \in Schemes
  BY DEF Origin
<1>2. Len(o.body) \in Nat
  BY <1>1
<1>3. CASE o.scheme = "scp"
  <2>1. /\ Host(o) = First(o.body, ":")
        /\ Host(o) \in 0 .. Len(o.body)
        /\ Has(o.body, ":") <=> Host(o) # 0
    BY <1>1, <1>3, FirstToken DEF Host
  <2>2. Candidate(o) = IF Has(o.body, ":") THEN SubSeq(o.body, Host(o) + 1, Len(o.body))
                       ELSE NoRepository
    <3>1. 1 + Host(o) = Host(o) + 1
      BY <1>2, <2>1
    <3> QED BY <1>3, <2>1, <3>1 DEF Candidate, AfterFirst
  <2>3. CASE Has(o.body, ":")
    <3>1. Candidate(o) = SubSeq(o.body, Host(o) + 1, Len(o.body)) /\ Host(o) > 0
      BY <1>2, <2>1, <2>2, <2>3
    <3> QED BY <1>3, <2>1, <3>1
  <2>4. CASE ~Has(o.body, ":")
    BY <2>1, <2>2, <2>4
  <2> QED BY <2>3, <2>4
<1>4. CASE o.scheme = "url"
  <2>1. /\ Host(o) = First(o.body, "/")
        /\ Host(o) \in 0 .. Len(o.body)
        /\ Has(o.body, "/") <=> Host(o) # 0
    BY <1>1, <1>4, FirstToken DEF Host
  <2>2. Candidate(o) = SubSeq(o.body, Host(o) + 1, Len(o.body))
    <3>1. 1 + Host(o) = Host(o) + 1
      BY <1>2, <2>1
    <3> QED BY <1>4, <2>1, <3>1 DEF Candidate, AfterFirst
  <2>3. Host(o) = 0 => Candidate(o) = o.body
    BY <1>1, <2>1, <2>2, SubSeqFull
  <2> QED BY <1>2, <1>4, <2>1, <2>2, <2>3
<1>5. CASE o.scheme = "bare"
  <2>1. Host(o) = 0
    BY <1>5 DEF Host
  <2>2. Candidate(o) = IF Has(o.body, ":") THEN NoRepository ELSE o.body
    BY <1>5 DEF Candidate
  <2>3. SubSeq(o.body, 1, Len(o.body)) = o.body
    BY <1>1, SubSeqFull
  <2> QED BY <1>2, <1>5, <2>1, <2>2, <2>3
<1>6. CASE o.scheme = "none"
  BY <1>2, <1>6 DEF Host, Candidate
<1> QED BY <1>1, <1>3, <1>4, <1>5, <1>6 DEF Schemes

\* What _parse_repository accepts is owner/repo, two well-formed parts, and the origin
\* names it: a host and its separator before it, nothing but an ending after it.
LEMMA ParsedIsNamed ==
  ASSUME NEW o \in Origin, Parsed(o) # NoRepository
  PROVE  /\ IsPart(Owner(Parsed(o))) /\ IsPart(Repo(Parsed(o)))
         /\ Names(o, Parsed(o), AnyEnding)
<1> DEFINE body == o.body
           h == Host(o)
           c == Candidate(o)
           w == WithoutSuffix[c]
           p == WithoutSlashes[w]
<1>1. body \in Seq(Tokens) /\ Len(body) \in Nat /\ h \in 0 .. Len(body)
  BY CandidateIsTail DEF Origin
<1>2. NoRepository \in Seq(Tokens) /\ Len(NoRepository) = 0 /\ ~Has(NoRepository, "/")
  BY DEF NoRepository, Has
<1>3. c \in Seq(Tokens)
  <2>1. Len(body) \in h .. Len(body)
    BY <1>1
  <2>2. SubSeq(body, h + 1, Len(body)) \in Seq(Tokens)
    BY <1>1, <2>1, Piece
  <2> QED BY <1>2, <2>2, CandidateIsTail
<1>4. PICK n \in 0 .. Len(c) :
        /\ w = SubSeq(c, 1, n)
        /\ \/ n = Len(c) /\ (n # 0 => c[n] # ".git")
           \/ n + 1 = Len(c) /\ c[n + 1] = ".git"
  BY <1>3, SuffixCut
<1>5. /\ w \in Seq(Tokens) /\ Len(w) = n
      /\ \A i \in 1 .. n : w[i] = c[i]
  BY <1>3, <1>4, Beginning
<1>6. PICK k \in 0 .. n :
        /\ p = SubSeq(w, 1, k)
        /\ \A i \in k + 1 .. n : w[i] = "/"
  BY <1>5, SlashesCut
<1>7. /\ p \in Seq(Tokens) /\ Len(p) = k
      /\ \A i \in 1 .. k : p[i] = c[i]
  <2>1. k \in 0 .. Len(w)
    BY <1>3, <1>5
  <2> HIDE DEF w, p
  <2> QED BY <1>5, <1>6, <2>1, Beginning
<1>8. /\ Parsed(o) = p /\ p # NoRepository /\ Has(p, "/")
      /\ IsPart(Owner(p)) /\ IsPart(Repo(p))
  BY <1>7 DEF Parsed, Checked
<1>9. Has(c, "/")
  BY <1>3, <1>7, <1>8 DEF Has
<1>10. /\ c = SubSeq(body, h + 1, Len(body))
       /\ o.scheme \in {"scp", "url"} => h > 0
       /\ o.scheme # "none"
       /\ o.scheme = "bare" => ~Has(body, ":")
  BY <1>1, <1>2, <1>9, CandidateIsTail
<1>11. /\ Len(c) = Len(body) - h
       /\ \A i \in 1 .. Len(c) : c[i] = body[h + i]
  <2>1. Len(body) \in h .. Len(body)
    BY <1>1
  <2> HIDE DEF h, body, c
  <2> QED BY <1>1, <1>10, <2>1, Piece
<1> HIDE DEF h, c, w, p, body
<1>12. SubSeq(body, h + 1, h + k) = p
  <2> DEFINE q == SubSeq(body, h + 1, h + k)
  <2>1. /\ q \in Seq(Tokens) /\ Len(q) = k
        /\ \A i \in 1 .. k : q[i] = body[h + i]
    <3>1. h + k \in h .. Len(body) /\ h + k - h = k
      BY <1>1, <1>7, <1>11
    <3>2. /\ q \in Seq(Tokens) /\ Len(q) = h + k - h
          /\ \A i \in 1 .. h + k - h : q[i] = body[h + i]
      BY <1>1, <3>1, Piece
    <3> HIDE DEF q
    <3> QED BY <3>1, <3>2
  <2>2. \A i \in 1 .. k : q[i] = p[i]
    <3> HIDE DEF q
    <3> QED BY <1>7, <1>11, <2>1
  <2> HIDE DEF q
  <2>3. q = p
    BY <1>7, <2>1, <2>2, SeqEqual
  <2> QED BY <2>3 DEF q
<1>13. AnyEnding(SubSeq(body, h + k + 1, Len(body)))
  <2> DEFINE e == SubSeq(body, h + k + 1, Len(body))
  <2>1. /\ e \in Seq(Tokens) /\ Len(e) = Len(c) - k
        /\ \A i \in 1 .. Len(c) - k : e[i] = c[k + i]
    <3>1. h + k \in 0 .. Len(body) /\ Len(body) \in h + k .. Len(body)
      BY <1>1, <1>7, <1>11
    <3>2. /\ e \in Seq(Tokens) /\ Len(e) = Len(body) - (h + k)
          /\ \A i \in 1 .. Len(body) - (h + k) : e[i] = body[h + k + i]
      BY <1>1, <3>1, Piece
    <3> HIDE DEF e
    <3>3. Len(body) - (h + k) = Len(c) - k
      BY <1>1, <1>11
    <3>4. ASSUME NEW i \in 1 .. Len(c) - k PROVE e[i] = c[k + i]
      <4>1. k + i \in 1 .. Len(c) /\ h + (k + i) = h + k + i
        BY <1>1, <1>3
      <4> QED BY <1>11, <3>2, <3>3, <4>1
    <3> QED BY <3>2, <3>3, <3>4
  <2> HIDE DEF e
  <2>2. PICK l \in 0 .. Len(e) :
          /\ WithoutSuffix[e] = SubSeq(e, 1, l)
          /\ \/ l = Len(e) /\ (l # 0 => e[l] # ".git")
             \/ l + 1 = Len(e) /\ e[l + 1] = ".git"
    BY <2>1, SuffixCut
  <2>3. k + l <= n
    BY <1>4, <1>6, <2>1, <2>2
  <2>4. \A i \in 1 .. l : e[i] = "/"
    BY <1>5, <1>6, <2>1, <2>2, <2>3
  <2>5. /\ WithoutSuffix[e] \in Seq(Tokens) /\ Len(WithoutSuffix[e]) = l
        /\ \A i \in 1 .. l : WithoutSuffix[e][i] = e[i]
    BY <2>1, <2>2, Beginning
  <2>6. Slashes(WithoutSuffix[e])
    BY <2>4, <2>5 DEF Slashes
  <2> QED BY <2>6 DEF e, AnyEnding
<1>14. /\ o.scheme = "scp"  => h > 0 /\ First(body, ":") = h
       /\ o.scheme = "url"  => h > 0 /\ First(body, "/") = h
       /\ o.scheme = "bare" => h = 0 /\ ~Has(body, ":")
       /\ o.scheme \in {"scp", "url", "bare"}
  BY <1>10 DEF h, body, Host, Origin, Schemes
<1>15. h \in 0 .. Len(body) - Len(p)
  BY <1>1, <1>7, <1>11
<1>16. Names(o, p, AnyEnding)
  BY <1>7, <1>12, <1>13, <1>14, <1>15 DEF Names, body
<1> QED BY <1>8, <1>16

\* owner/repo is accepted, and is what is accepted, wherever the origin names it: the
\* host and its separator are cut off, the slashes at the end and one .git after them.
LEMMA NamedIsParsed ==
  ASSUME NEW o \in Origin, NEW s \in Seq(Tokens),
         IsRepository(s), Names(o, s, AnyEnding)
  PROVE  Parsed(o) = s
<1> DEFINE body == o.body
           c == Candidate(o)
           len == Len(s)
<1>1. body \in Seq(Tokens) /\ Len(body) \in Nat /\ len \in Nat
  BY DEF Origin
<1>2. PICK i \in 0 .. Len(body) - len :
        /\ SubSeq(body, i + 1, i + len) = s
        /\ \/ o.scheme = "scp" /\ i > 0 /\ First(body, ":") = i
           \/ o.scheme = "url" /\ i > 0 /\ First(body, "/") = i
           \/ o.scheme = "bare" /\ i = 0 /\ ~Has(body, ":")
        /\ AnyEnding(SubSeq(body, i + len + 1, Len(body)))
  BY DEF Names
<1>3. len > 2 /\ s[1] = "w" /\ s[len] = "w"
  BY DEF IsRepository, Last
<1>4. Checked[s] = s
  BY DEF Checked, IsRepository
<1>5. c = SubSeq(body, i + 1, Len(body))
  <2>1. CASE o.scheme = "scp" /\ i > 0 /\ First(body, ":") = i
    <3>1. Has(body, ":") /\ 1 + i = i + 1
      BY <1>1, <2>1, FirstToken
    <3> QED BY <2>1, <3>1 DEF Candidate, AfterFirst
  <2>2. CASE o.scheme = "url" /\ i > 0 /\ First(body, "/") = i
    <3>1. 1 + i = i + 1
      BY <1>1
    <3> QED BY <2>2, <3>1 DEF Candidate, AfterFirst
  <2>3. CASE o.scheme = "bare" /\ i = 0 /\ ~Has(body, ":")
    <3>1. c = body
      BY <2>3 DEF Candidate
    <3> QED BY <1>1, <2>3, <3>1, SubSeqFull
  <2> QED BY <1>2, <2>1, <2>2, <2>3
<1> DEFINE e == SubSeq(body, i + len + 1, Len(body))
<1> HIDE DEF body, c, len, e
<1>6. /\ c \in Seq(Tokens) /\ Len(c) = Len(body) - i
      /\ \A k \in 1 .. Len(c) : c[k] = body[i + k]
  <2>1. i \in 0 .. Len(body) /\ Len(body) \in i .. Len(body)
    BY <1>1
  <2> QED BY <1>1, <1>5, <2>1, Piece
<1>7. \A k \in 1 .. len : s[k] = c[k]
  <2>1. i \in 0 .. Len(body) /\ i + len \in i .. Len(body) /\ i + len - i = len
    BY <1>1
  <2>2. \A k \in 1 .. i + len - i : SubSeq(body, i + 1, i + len)[k] = body[i + k]
    BY <1>1, <2>1, Piece
  <2>3. \A k \in 1 .. len : s[k] = body[i + k]
    BY <1>2, <2>1, <2>2
  <2> QED BY <1>1, <1>6, <2>3
<1>8. /\ e \in Seq(Tokens) /\ Len(e) = Len(c) - len
      /\ \A k \in 1 .. Len(c) - len : e[k] = c[len + k]
  <2>1. i + len \in 0 .. Len(body) /\ Len(body) \in i + len .. Len(body)
    BY <1>1
  <2>2. /\ e \in Seq(Tokens) /\ Len(e) = Len(body) - (i + len)
        /\ \A k \in 1 .. Len(body) - (i + len) : e[k] = body[i + len + k]
    BY <1>1, <2>1, Piece DEF e
  <2>3. Len(body) - (i + len) = Len(c) - len
    BY <1>1, <1>6
  <2>4. ASSUME NEW k \in 1 .. Len(c) - len PROVE e[k] = c[len + k]
    <3>1. len + k \in 1 .. Len(c) /\ i + (len + k) = i + len + k
      BY <1>1, <1>6
    <3> QED BY <1>6, <2>2, <2>3, <3>1
  <2> QED BY <2>2, <2>3, <2>4
<1>9. PICK l \in Nat :
        /\ \A k \in len + 1 .. len + l : c[k] = "/"
        /\ \/ Len(c) = len + l
           \/ Len(c) = len + l + 1 /\ c[len + l + 1] = ".git"
  <2>1. Slashes(WithoutSuffix[e])
    BY <1>2 DEF e, AnyEnding
  <2>2. PICK l \in 0 .. Len(e) :
          /\ WithoutSuffix[e] = SubSeq(e, 1, l)
          /\ \/ l = Len(e) /\ (l # 0 => e[l] # ".git")
             \/ l + 1 = Len(e) /\ e[l + 1] = ".git"
    BY <1>8, SuffixCut
  <2>3. \A k \in 1 .. l : e[k] = "/"
    <3>1. /\ WithoutSuffix[e] \in Seq(Tokens) /\ Len(WithoutSuffix[e]) = l
          /\ \A k \in 1 .. l : WithoutSuffix[e][k] = e[k]
      BY <1>8, <2>2, Beginning
    <3> QED BY <2>1, <3>1 DEF Slashes
  <2>4. l \in Nat /\ Len(c) \in Nat /\ Len(e) \in Nat /\ Len(e) = Len(c) - len
    <3>1. Len(c) \in Nat /\ Len(e) \in Nat
      BY <1>6, <1>8
    <3> QED BY <1>8, <3>1
  <2>5. ASSUME NEW k \in len + 1 .. len + l PROVE c[k] = "/"
    <3>1. k - len \in 1 .. l /\ k - len \in 1 .. Len(c) - len /\ len + (k - len) = k
      BY <1>1, <2>4
    <3> QED BY <1>8, <2>3, <3>1
  <2>6. CASE l = Len(e)
    <3>1. Len(c) = len + l
      BY <1>1, <2>4, <2>6
    <3> QED BY <2>4, <2>5, <3>1
  <2>7. CASE l + 1 = Len(e) /\ e[l + 1] = ".git"
    <3>1. Len(c) = len + l + 1 /\ len + (l + 1) = len + l + 1 /\ l + 1 \in 1 .. Len(c) - len
      BY <1>1, <2>4, <2>7
    <3> QED BY <1>8, <2>4, <2>5, <2>7, <3>1
  <2> QED BY <2>2, <2>6, <2>7
<1>10. c[len] = "w"
  BY <1>1, <1>3, <1>7 DEF len
<1>11. ASSUME NEW w \in Seq(Tokens), Len(w) = len, \A k \in 1 .. len : w[k] = c[k]
       PROVE  w = s
  BY <1>1, <1>7, <1>11, SeqEqual DEF len
<1> DEFINE w == WithoutSuffix[c]
           p == WithoutSlashes[w]
<1>12. PICK n \in 0 .. Len(c) :
         /\ w = SubSeq(c, 1, n)
         /\ \/ n = Len(c) /\ (n # 0 => c[n] # ".git")
            \/ n + 1 = Len(c) /\ c[n + 1] = ".git"
  BY <1>6, SuffixCut
<1>13. /\ w \in Seq(Tokens) /\ Len(w) = n
       /\ \A k \in 1 .. n : w[k] = c[k]
  BY <1>6, <1>12, Beginning
<1>14. PICK m \in 0 .. n :
         /\ p = SubSeq(w, 1, m)
         /\ m # 0 => w[m] # "/"
         /\ \A k \in m + 1 .. n : w[k] = "/"
  BY <1>13, SlashesCut
<1> HIDE DEF w, p
<1>15. /\ p \in Seq(Tokens) /\ Len(p) = m
       /\ \A k \in 1 .. m : p[k] = c[k]
  BY <1>13, <1>14, Beginning
<1>16. n = len + l
  <2>1. Len(c) \in Nat /\ n \in Nat
    BY <1>6
  <2>2. CASE Len(c) = len + l
    <3>1. c[Len(c)] \in {"w", "/"}
      <4>1. l = 0 \/ len + l \in len + 1 .. len + l
        BY <1>1
      <4> QED BY <1>1, <1>9, <1>10, <2>2, <4>1
    <3> QED BY <1>1, <1>12, <2>1, <2>2, <3>1
  <2>3. CASE Len(c) = len + l + 1 /\ c[len + l + 1] = ".git"
    BY <1>1, <1>12, <2>1, <2>3
  <2> QED BY <1>9, <2>2, <2>3
<1>17. m = len
  <2>1. len \in 1 .. n /\ w[len] = "w"
    BY <1>1, <1>3, <1>10, <1>13, <1>16
  <2>2. m >= len
    BY <1>1, <1>14, <2>1
  <2>3. ASSUME m > len PROVE FALSE
    <3>1. m \in len + 1 .. len + l /\ m \in 1 .. n /\ m # 0
      BY <1>1, <1>14, <1>16, <2>3
    <3> QED BY <1>9, <1>13, <1>14, <3>1
  <2> QED BY <1>1, <1>14, <2>2, <2>3
<1>18. p = s
  BY <1>11, <1>15, <1>17
<1> QED BY <1>4, <1>18 DEF Parsed, c, w, p

\* The usual endings are endings.
LEMMA UsualIsAny == \A e : UsualEnding(e) => AnyEnding(e)
<1>1. \A t \in Tokens : <<t>> \in Seq(Tokens) /\ Len(<<t>>) = 1 /\ <<t>>[1] = t
  OBVIOUS
<1>2. <<>> \in Seq(Tokens) /\ Len(<<>>) = 0
  OBVIOUS
<1>3. AnyEnding(<<>>)
  BY <1>2 DEF AnyEnding, WithoutSuffix, Slashes
<1>4. AnyEnding(<<".git">>)
  <2> DEFINE g == <<".git">>
  <2>1. g \in Seq(Tokens) /\ Len(g) = 1 /\ g[1] = ".git" /\ g # <<>>
    BY <1>1 DEF Tokens
  <2>2. WithoutSuffix[g] = SubSeq(g, 1, 0)
    <3> HIDE DEF g
    <3> QED BY <2>1 DEF WithoutSuffix, Last, Front
  <2>3. SubSeq(g, 1, 0) \in Seq(Tokens) /\ Len(SubSeq(g, 1, 0)) = 0
    <3> HIDE DEF g
    <3> QED BY <2>1, Beginning
  <2> QED BY <2>2, <2>3 DEF AnyEnding, Slashes
<1>5. AnyEnding(<<"/">>)
  BY <1>1 DEF AnyEnding, WithoutSuffix, Slashes, Last, Tokens
<1> QED BY <1>3, <1>4, <1>5 DEF UsualEnding

\* What _parse_repository makes of an origin, for origins of every length: owner/repo is
\* the answer if and only if the origin names it, whatever slashes or .git follow.
THEOREM ParsesExactly ==
  ASSUME NEW o \in Origin, NEW s \in Seq(Tokens), IsRepository(s)
  PROVE  Parsed(o) = s <=> Names(o, s, AnyEnding)
<1>1. s # NoRepository
  BY DEF IsRepository, NoRepository
<1> QED BY <1>1, ParsedIsNamed, NamedIsParsed

-----------------------------------------------------------------------------
(* The call: resolution, adapter, answer.                                   *)

\* Where the call is, seen from the adapter; what the resolution left behind; and what
\* a conflict means.
CallInv ==
  /\ project \in Projects \cup {NoProject}
  /\ stage \in {"resolve", "resolved"} => project \in Projects /\ StartAt("idle") /\ answer = 0
  /\ stage = "calling" => ~StartAt("idle") /\ answer = 0
  /\ stage = "resolved" => repository # NoRepository /\ repository = Parsed(project.origin)
  /\ stage = "answered" /\ StartAt("idle") /\ project.branch =>
       Parsed(project.origin) = NoRepository
  /\ answer = 409 => StartAt("idle") \/ start.outcome \in {"handle", "unconfigured"}
  /\ start.outcome = "unconfigured" =>
       StartAt("done") /\ provider.status = "NONE" /\ ~provider.exists

\* What the call does to the adapter's variables is a step of the adapter, or none.
LEMMA CallStep == [CallNext]_<<vars, callVars>> => [Next]_vars
BY DEF CallNext, Resolve, LosesClaim, CallAdapter, Answer, AdapterMoves, Next, StartStep,
       vars, callVars

\* Whatever the call goes through, the adapter in it behaves as OpenHandsAdapter says, so
\* its theorems hold of every call.
THEOREM CallRunsAdapter == CallSpec => Spec
<1>1. CallInit => Init
  BY DEF CallInit
<1> QED BY <1>1, CallStep, PTL DEF CallSpec, Spec

\* The initial states satisfy the invariant.
LEMMA CallInvInit == CallInit => CallInv
BY DEF CallInit, Init, CallInv, StartAt

\* Once start_task is under way it never begins again, is not refused any more, and when
\* it is over it stays so.
LEMMA StartMoves ==
  ASSUME IInv, Next, ~StartAt("idle")
  PROVE  /\ start'.pc # "idle"
         /\ StartAt("done") => UNCHANGED start
         /\ start.outcome # "unconfigured" => start'.outcome # "unconfigured"
<1> USE DEF StartAt, StartGoto, StartEnds
<1>1. start \in Start
  BY DEF IInv, TypeOK
<1>2. CASE PostAnswered
  BY <1>1, <1>2 DEF PostAnswered, Start
<1>3. CASE PostFails
  <2>1. PICK error \in RequestErrors : StartEnds(error)
    BY <1>3 DEF PostFails
  <2> QED BY <1>1, <1>3, <2>1 DEF PostFails, RequestErrors, Start
<1>4. CASE InspectStart
  BY <1>1, <1>4 DEF InspectStart, Start
<1>5. CASE Sleep
  BY <1>1, <1>5 DEF Sleep, Start
<1>6. CASE PollStart
  <2>1. \/ start' = [start EXCEPT !.pc = "inspect", !.status = provider.status,
                                  !.reference = provider.exists]
        \/ StartGoto("inspect")
        \/ \E error \in RequestErrors : StartEnds(error)
    BY <1>6 DEF PollStart
  <2> QED BY <1>1, <1>6, <2>1 DEF PollStart, RequestErrors, Start
<1>7. CASE UNCHANGED start
  BY <1>7
<1> QED BY <1>2, <1>3, <1>4, <1>5, <1>6, <1>7
        DEF Next, StartStep, BeginStart, AskStatus, GetStatus, StartTaskMoves,
            ConversationAppears, ExecutionMoves, SandboxIsLost

\* Every step of the call, of the adapter and of the provider keeps it.
LEMMA CallInvStep == IInv /\ CallInv /\ [CallNext]_<<vars, callVars>> => CallInv'
<1> SUFFICES ASSUME IInv, CallInv, [CallNext]_<<vars, callVars>> PROVE CallInv'
  OBVIOUS
<1> USE DEF CallInv, StartAt
<1>1. CASE UNCHANGED <<vars, callVars>>
  BY <1>1 DEF vars, callVars
<1>2. CASE Resolve
  BY <1>2 DEF Resolve, vars
<1>3. CASE LosesClaim
  BY <1>3 DEF LosesClaim, vars, NoProject
<1>4. CASE CallAdapter
  <2>1. BeginStart /\ stage = "resolved" /\ stage' = "calling" /\ project' = NoProject /\ answer' = 0
    BY <1>4 DEF CallAdapter
  <2>2. provider.status = "NONE" /\ ~provider.exists /\ UNCHANGED provider
    BY <2>1 DEF BeginStart, IInv, Copies
  <2>3. CASE StartGoto("post")
    <3>1. start'.pc = "post" /\ start'.outcome = start.outcome
      BY <2>3 DEF StartGoto, IInv, TypeOK, Start
    <3>2. start.outcome # "unconfigured"
      BY <2>1 DEF BeginStart, IInv, Copies, Errors
    <3> QED BY <2>1, <3>1, <3>2
  <2>4. CASE StartEnds("unconfigured")
    <3>1. start'.pc = "done"
      BY <2>4 DEF StartEnds, IInv, TypeOK, Start
    <3> QED BY <2>1, <2>2, <3>1
  <2> QED BY <2>1, <2>3, <2>4 DEF BeginStart
<1>5. CASE Answer
  <2>1. start.outcome \in {"handle", "timeout"} \cup Errors
    BY <1>5 DEF Answer, IInv, Copies, TypeOK, Start
  <2>2. answer' = 409 => start.outcome \in {"handle", "unconfigured"}
    BY <1>5, <2>1 DEF Answer, StatusOf, Errors, RequestErrors
  <2> QED BY <1>5, <2>2 DEF Answer, vars
<1>6. CASE AdapterMoves
  <2>1. UNCHANGED callVars /\ ~StartAt("idle") /\ Next
    BY <1>6 DEF AdapterMoves
  <2>2. CASE StartAt("done")
    <3>1. UNCHANGED start
      BY <2>1, <2>2, StartMoves
    <3>2. start.outcome = "unconfigured" => UNCHANGED provider
      BY <2>1, <2>2 DEF Next, StartStep, BeginStart, PostAnswered, PostFails, InspectStart, Sleep,
                PollStart, AskStatus, GetStatus, StartTaskMoves, ConversationAppears,
                ExecutionMoves, SandboxIsLost
    <3> QED BY <2>1, <3>1, <3>2 DEF callVars
  <2>3. CASE ~StartAt("done")
    <3>1. start.outcome \notin {"handle", "unconfigured"} /\ answer # 409
      BY <2>1, <2>3 DEF IInv, Copies, Errors
    <3>2. start'.pc # "idle" /\ start'.outcome # "unconfigured"
      BY <2>1, <3>1, StartMoves
    <3> QED BY <2>1, <3>1, <3>2 DEF callVars
  <2> QED BY <2>2, <2>3
<1> QED BY <1>1, <1>2, <1>3, <1>4, <1>5, <1>6 DEF CallNext

\* The invariants of the adapter and of the call hold in every call.
LEMMA CallInvariant == CallSpec => [](IInv /\ CallInv)
<1>1. CallInit => IInv /\ CallInv
  BY CallInvInit, InvInit DEF CallInit
<1>2. IInv /\ CallInv /\ [CallNext]_<<vars, callVars>> => (IInv /\ CallInv)'
  BY CallInvStep, CallStep, InvStep
<1> QED BY <1>1, <1>2, PTL DEF CallSpec

\* The projects have well-formed origins.
LEMMA ProjectOrigin == CallInv => project.origin \in Origin
<1>1. \A p \in Projects : p.origin \in Origin
  BY ExecuteCallAssumption DEF Origin
<1>2. NoProject.origin \in Origin
  BY EmptySeq DEF NoProject, Origin, Schemes
<1> QED BY <1>1, <1>2 DEF CallInv

\* A conflict means that the provider was not asked, or that the call has the handle.
THEOREM ConflictsHideNothing == CallSpec => []ConflictHidesNothing
<1>1. IInv /\ CallInv => ConflictHidesNothing
  BY DEF IInv, Copies, CallInv, ConflictHidesNothing
<1> QED BY <1>1, CallInvariant, PTL

\* The repository of an execution is the one its project's origin names, for origins of
\* every length.
THEOREM RightRepository == CallSpec => []RepositoryIsTheOrigins
<1>1. CallInv => RepositoryIsTheOrigins
  BY ProjectOrigin, ParsedIsNamed DEF CallInv, RepositoryIsTheOrigins
<1> QED BY <1>1, CallInvariant, PTL

\* No usual remote is turned away, however long its parts are.
THEOREM RemotesResolve == CallSpec => []UsualOriginsResolve
<1>1. ASSUME CallInv PROVE UsualOriginsResolve
  <2> DEFINE body == project.origin.body
  <2> SUFFICES ASSUME stage = "answered", start.pc = "idle", project.branch,
                      NEW i \in 1 .. Len(body), NEW j \in 3 .. Len(body),
                      IsRepository(SubSeq(body, i, j)),
                      Names(project.origin, SubSeq(body, i, j), UsualEnding)
               PROVE  FALSE
    BY DEF UsualOriginsResolve
  <2>1. project.origin \in Origin /\ body \in Seq(Tokens)
    BY <1>1, ProjectOrigin DEF Origin
  <2>2. SubSeq(body, i, j) \in Seq(Tokens)
    <3>1. \A k \in i .. j : body[k] \in Tokens
      BY <2>1
    <3> QED BY <3>1, SubSeqProperties
  <2>3. Names(project.origin, SubSeq(body, i, j), AnyEnding)
    BY UsualIsAny DEF Names
  <2>4. Parsed(project.origin) = SubSeq(body, i, j)
    BY <2>1, <2>2, <2>3, NamedIsParsed
  <2>5. SubSeq(body, i, j) # NoRepository
    BY DEF IsRepository, NoRepository
  <2> QED BY <1>1, <2>4, <2>5 DEF CallInv, StartAt
<1> QED BY <1>1, CallInvariant, PTL
===============================================================================
