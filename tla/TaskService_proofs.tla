-------------------------- MODULE TaskService_proofs --------------------------
(***************************************************************************)
(* Theorems about TaskService, for every set of tasks and callers and      *)
(* every bound on the clock.  A copy may be older than its row; what makes *)
(* a won write safe is that the row was as the copy is when the copy was   *)
(* read, and that started_at, once written, is never written again.  What  *)
(* a lost write flushes is a result, from a copy whose task had started.   *)
(***************************************************************************)
EXTENDS TaskService, TLAPS

-----------------------------------------------------------------------------
(* The invariant.                                                           *)

\* The stamps of a row, or of a copy of one, agree with its status.
SoundRow(row) ==
  /\ row.started <= now /\ row.completed <= now
  /\ row.completed # 0 => row.started <= row.completed
  /\ (row.completed # 0) <=> (row.status \in TerminalStates)
  /\ row.status = "COMPLETED" => row.result
  /\ row.result => row.started # 0
  /\ row.error <=> (row.status = "FAILED")
  /\ row.status \in NotStarted => row.started = 0
  /\ row.status \in Begun => row.started # 0

\* A session's copy is a row of the past: what it says of started_at is still so.
SoundCall(c) ==
  ~At(c, "idle") =>
    /\ call[c].task \in Tasks
    /\ SoundRow(call[c].copy)
    /\ call[c].copy.started # 0 => Row(c).started = call[c].copy.started
    /\ At(c, "write") =>
         /\ ValidTransition(call[c].copy.status, call[c].target)
         /\ call[c].stamp # 0 /\ call[c].stamp <= now
         /\ call[c].copy.started <= call[c].stamp
         /\ call[c].assigned => BringsResult(c, call[c].target)

\* Rows and copies are sound, and a prepared write is valid for its copy.
ServiceInv ==
  /\ TypeOK
  /\ \A t \in Tasks : SoundRow(task[t])
  /\ \A c \in Callers : SoundCall(c)

-----------------------------------------------------------------------------
(* The initial state.                                                       *)

\* A new task, and a session that is closed, are well typed and sound.
LEMMA CreatedIsSound ==
  /\ Created \in TaskRow /\ Idle \in Call
  /\ now \in Nat => SoundRow(Created)
BY ServiceAssumption DEF Created, Idle, TaskRow, Call, Time, TaskState, SoundRow, TerminalStates,
   NotStarted, Begun

\* The service starts soundly.
LEMMA InitSound == Init => ServiceInv
<1> SUFFICES ASSUME Init PROVE ServiceInv
  OBVIOUS
<1>1. TypeOK
  BY CreatedIsSound, ServiceAssumption DEF Init, TypeOK, Time
<1>2. now \in Nat
  BY DEF Init
<1>3. \A t \in Tasks : task[t] = Created
  BY DEF Init
<1>4. \A c \in Callers : call[c].pc = "idle"
  BY DEF Init, Idle
<1> QED
  BY <1>1, <1>2, <1>3, <1>4, CreatedIsSound DEF ServiceInv, SoundCall, At

-----------------------------------------------------------------------------
(* A won write.                                                             *)

\* What the states a transition may lead to have in common.
LEMMA EdgesAgree ==
  ASSUME NEW s \in TaskState, NEW new \in TaskState, ValidTransition(s, new)
  PROVE  /\ s \notin TerminalStates
         /\ new \in NotStarted => s \in NotStarted
         /\ new \in Begun => new = "RUNNING" \/ s \in Begun
         /\ s \in Begun \cup NotStarted
BY DEF ValidTransition, AllowedTransitions, TaskTransitions, TaskState, TerminalStates,
   NotStarted, Begun

\* The row that the values of a won write leave.
LEMMA WrittenRow ==
  ASSUME ServiceInv, NEW c \in Callers, At(c, "write"), Wins(c)
  PROVE  LET row == Written(Row(c), c) IN
         /\ row \in TaskRow
         /\ row.started <= now /\ row.completed <= now
         /\ row.completed # 0 => row.started <= row.completed
         /\ (row.completed # 0) <=> (row.status \in TerminalStates)
         /\ row.error <=> (row.status = "FAILED")
         /\ row.status \in NotStarted => row.started = 0
         /\ row.status \in Begun => row.started # 0
         /\ row.status = call[c].target
         /\ Row(c).started # 0 => row.started = Row(c).started
         /\ row.result <=> (Row(c).result \/ row.status = "COMPLETED")
         /\ Row(c).result => row.started # 0
         /\ ValidTransition(Row(c).status, call[c].target)
<1> DEFINE row == Written(Row(c), c)
           old == Row(c)
           copy == call[c].copy
           new == call[c].target
           stamp == call[c].stamp
<1>1. /\ old \in TaskRow /\ SoundRow(old) /\ copy \in TaskRow /\ SoundRow(copy)
      /\ new \in TaskState /\ stamp \in Time \ {0} /\ stamp <= now /\ now \in Time
      /\ copy.started # 0 => old.started = copy.started
      /\ old.status = copy.status /\ copy.started <= stamp
      /\ ValidTransition(old.status, new)
  BY DEF ServiceInv, TypeOK, SoundCall, At, Row, Call, Wins
<1>2. /\ old.status \notin TerminalStates
      /\ new \in NotStarted => old.status \in NotStarted
      /\ new \in Begun => new = "RUNNING" \/ old.status \in Begun
      /\ old.status \in Begun \cup NotStarted
  BY <1>1, EdgesAgree DEF TaskRow
<1>3. /\ row \in TaskRow
      /\ row.status = new
      /\ row.started = IF new = "RUNNING" /\ copy.started = 0 THEN stamp ELSE old.started
      /\ row.completed = IF new \in TerminalStates THEN stamp ELSE old.completed
      /\ row.result = (old.result \/ new = "COMPLETED")
      /\ row.error = (old.error \/ new = "FAILED")
  BY <1>1 DEF Written, TaskRow, Row
<1>4. copy.started = old.started
  <2>1. copy.status = old.status
    BY <1>1
  <2> QED
    BY <1>1, <1>2, <2>1 DEF SoundRow
<1>5. /\ row.started <= now /\ row.completed <= now
      /\ row.completed # 0 => row.started <= row.completed
      /\ (row.completed # 0) <=> (row.status \in TerminalStates)
      /\ row.error <=> (row.status = "FAILED")
      /\ row.status \in NotStarted => row.started = 0
      /\ row.status \in Begun => row.started # 0
      /\ old.result => row.started # 0
  BY <1>1, <1>2, <1>3, <1>4 DEF SoundRow, TaskRow, Time, TerminalStates, NotStarted, Begun
<1> QED
  BY <1>1, <1>3, <1>4, <1>5

\* A session that assigned a result read it for a task that had started.
LEMMA ResultOfStarted ==
  ASSUME ServiceInv, NEW c \in Callers, At(c, "write"), call[c].assigned
  PROVE  /\ BringsResult(c, call[c].target)
         /\ Row(c).started # 0
<1>1. /\ SoundRow(call[c].copy) /\ BringsResult(c, call[c].target)
      /\ call[c].copy.started # 0 => Row(c).started = call[c].copy.started
  BY DEF ServiceInv, SoundCall, At
<1> QED
  BY <1>1 DEF SoundRow, BringsResult, Begun

\* The row that a write leaves, whether it is won or lost.
NewRow(c) == Flushed(IF Wins(c) THEN Written(Row(c), c) ELSE Row(c), c)

\* It is sound, keeps started_at and withdraws no result.
LEMMA FlushedRow ==
  ASSUME ServiceInv, NEW c \in Callers, At(c, "write")
  PROVE  /\ NewRow(c) \in TaskRow /\ SoundRow(NewRow(c))
         /\ NewRow(c).status = IF Wins(c) THEN call[c].target ELSE Row(c).status
         /\ Row(c).started # 0 => NewRow(c).started = Row(c).started
         /\ Row(c).result => NewRow(c).result
<1> DEFINE old == IF Wins(c) THEN Written(Row(c), c) ELSE Row(c)
           row == NewRow(c)
<1>1. Row(c) \in TaskRow /\ SoundRow(Row(c)) /\ call[c].assigned \in BOOLEAN
  BY DEF ServiceInv, TypeOK, SoundCall, At, Row, Call
<1>2. /\ old \in TaskRow
      /\ old.started <= now /\ old.completed <= now
      /\ old.completed # 0 => old.started <= old.completed
      /\ (old.completed # 0) <=> (old.status \in TerminalStates)
      /\ old.error <=> (old.status = "FAILED")
      /\ old.status \in NotStarted => old.started = 0
      /\ old.status \in Begun => old.started # 0
      /\ old.status = "COMPLETED" => old.result
      /\ old.result => Row(c).result \/ old.status = "COMPLETED"
      /\ Row(c).result => old.result /\ old.started # 0
      /\ Row(c).started # 0 => old.started = Row(c).started
      /\ old.status = IF Wins(c) THEN call[c].target ELSE Row(c).status
  <2>1. CASE Wins(c)
    BY <2>1, WrittenRow
  <2>2. CASE ~Wins(c)
    BY <1>1, <2>2 DEF SoundRow
  <2> QED
    BY <2>1, <2>2
<1>3. /\ row \in TaskRow
      /\ row.status = old.status /\ row.started = old.started
      /\ row.completed = old.completed /\ row.error = old.error
      /\ row.result = (old.result \/ call[c].assigned)
  BY <1>1, <1>2 DEF NewRow, Flushed, TaskRow
<1>4. call[c].assigned => old.started # 0
  BY <1>1, <1>2, ResultOfStarted DEF TaskRow
<1>5. SoundRow(row)
  BY <1>2, <1>3, <1>4 DEF SoundRow, Begun
<1> QED
  BY <1>2, <1>3, <1>5

-----------------------------------------------------------------------------
(* The steps.                                                               *)

\* What is sound stays sound when rows and clock stay, and another session moves on.
LEMMA OthersSound ==
  ASSUME ServiceInv, NEW c \in Callers, UNCHANGED <<task, now>>,
         call' \in [Callers -> Call], SoundCall(c)',
         \A d \in Callers \ {c} : call'[d] = call[d]
  PROVE  ServiceInv'
<1>1. TypeOK'
  BY DEF ServiceInv, TypeOK
<1>2. \A t \in Tasks : SoundRow(task[t])'
  BY DEF ServiceInv, SoundRow
<1>3. \A d \in Callers \ {c} : SoundCall(d)'
  BY DEF ServiceInv, SoundCall, SoundRow, BringsResult, At, Row
<1> QED
  BY <1>1, <1>2, <1>3 DEF ServiceInv

\* A session that reads its row holds a sound copy.
LEMMA ReadSound ==
  ASSUME ServiceInv, NEW c \in Callers, NEW t \in Tasks, UNCHANGED <<task, now>>,
         call' = [call EXCEPT ![c] = [Idle EXCEPT !.pc = "open", !.task = t, !.copy = task[t]]]
  PROVE  ServiceInv'
<1> DEFINE x == [Idle EXCEPT !.pc = "open", !.task = t, !.copy = task[t]]
<1>1. task[t] \in TaskRow /\ SoundRow(task[t]) /\ call \in [Callers -> Call]
  BY DEF ServiceInv, TypeOK
<1>2. x \in Call /\ x.pc = "open" /\ x.task = t /\ x.copy = task[t]
  BY <1>1, CreatedIsSound DEF Idle, Call
<1>3. call'[c] = x /\ call' \in [Callers -> Call] /\ \A d \in Callers \ {c} : call'[d] = call[d]
  BY <1>1, <1>2
<1>4. SoundCall(c)'
  BY <1>1, <1>2, <1>3 DEF SoundCall, SoundRow, At, Row
<1> QED
  BY <1>3, <1>4, OthersSound

\* A step of a session that writes no row.
LEMMA SessionSound ==
  ASSUME ServiceInv, NEW c \in Callers,
         \/ \E t \in Tasks : Open(c, t)
         \/ \E new \in TaskState : Decide(c, new)
         \/ Reload(c) \/ Close(c)
  PROVE  ServiceInv'
<1>0. call \in [Callers -> Call] /\ now \in Time \ {0} /\ now \in Nat
  BY ServiceAssumption DEF ServiceInv, TypeOK, Time
<1>1. CASE \E t \in Tasks : Open(c, t)
  BY <1>1, ReadSound DEF Open
<1>2. CASE \E new \in TaskState : Decide(c, new)
  <2> PICK new \in TaskState : Decide(c, new)
    BY <1>2
  <2>0. BringsResult(c, new) \in BOOLEAN
    BY DEF BringsResult
  <2> PICK assigned \in {FALSE, BringsResult(c, new)} :
         call' = [call EXCEPT ![c].pc = "write", ![c].target = new, ![c].stamp = now,
                              ![c].assigned = assigned]
    BY DEF Decide
  <2> DEFINE x == [call[c] EXCEPT !.pc = "write", !.target = new, !.stamp = now,
                                  !.assigned = assigned]
  <2>1. call[c] \in Call /\ call[c].pc = "open" /\ SoundCall(c)
    BY DEF ServiceInv, TypeOK, Decide, At
  <2>2. /\ x \in Call /\ x.pc = "write" /\ x.task = call[c].task /\ x.copy = call[c].copy
        /\ x.target = new /\ x.stamp = now /\ x.assigned = assigned
    BY <1>0, <2>0, <2>1 DEF Call
  <2>3. call' = [call EXCEPT ![c] = x]
    BY <1>0
  <2>4. call'[c] = x /\ call' \in [Callers -> Call] /\ \A d \in Callers \ {c} : call'[d] = call[d]
    BY <1>0, <2>2, <2>3
  <2>5. /\ UNCHANGED <<task, now>> /\ ValidTransition(call[c].copy.status, new)
        /\ call[c].task \in Tasks /\ SoundRow(call[c].copy) /\ call[c].copy \in TaskRow
        /\ call[c].copy.started # 0 => Row(c).started = call[c].copy.started
    BY <2>1 DEF Decide, SoundCall, At, Call
  <2>6. now # 0 /\ now <= now /\ call[c].copy.started <= now
    BY <1>0, <2>5 DEF SoundRow
  <2>7. SoundCall(c)'
    <3>1. assigned => BringsResult(c, new)
      OBVIOUS
    <3>2. /\ call'[c].copy = call[c].copy /\ call'[c].task = call[c].task /\ Row(c)' = Row(c)
          /\ SoundRow(call[c].copy)' /\ BringsResult(c, new)' = BringsResult(c, new)
      BY <2>2, <2>4, <2>5 DEF SoundRow, BringsResult, Row
    <3> QED
      BY <2>2, <2>4, <2>5, <2>6, <3>1, <3>2 DEF SoundCall, SoundRow, At
  <2> QED
    BY <2>4, <2>5, <2>7, OthersSound
<1>3. CASE Reload(c)
  <2>1. call[c].task \in Tasks
    BY <1>3 DEF Reload, ServiceInv, SoundCall, At
  <2> QED
    BY <1>3, <2>1, ReadSound DEF Reload, Row
<1>4. CASE Close(c)
  <2>1. /\ call'[c] = Idle /\ call' \in [Callers -> Call]
        /\ \A d \in Callers \ {c} : call'[d] = call[d]
    BY <1>0, <1>4, CreatedIsSound DEF Close
  <2>2. SoundCall(c)'
    BY <2>1 DEF SoundCall, At, Idle
  <2> QED
    BY <1>4, <2>1, <2>2, OthersSound DEF Close
<1> QED
  BY <1>1, <1>2, <1>3, <1>4

\* What a write does to the rows, and to its session.
LEMMA WriteWrites ==
  ASSUME ServiceInv, NEW c \in Callers, Write(c)
  PROVE  /\ call[c].task \in Tasks /\ call[c].target \in TaskState
         /\ task' \in [Tasks -> TaskRow]
         /\ task'[call[c].task] = NewRow(c)
         /\ \A t \in Tasks \ {call[c].task} : task'[t] = task[t]
         /\ call' \in [Callers -> Call]
         /\ call'[c] = [Idle EXCEPT !.pc = "reload", !.task = call[c].task]
         /\ \A d \in Callers \ {c} : call'[d] = call[d]
<1> DEFINE x == [Idle EXCEPT !.pc = "reload", !.task = call[c].task]
<1>1. /\ call \in [Callers -> Call] /\ task \in [Tasks -> TaskRow]
      /\ call[c].task \in Tasks /\ call[c].target \in TaskState
  BY DEF ServiceInv, TypeOK, SoundCall, Write, At, Call
<1>2. NewRow(c) \in TaskRow
  BY FlushedRow DEF Write
<1>3. task' = [task EXCEPT ![call[c].task] = NewRow(c)] /\ call' = [call EXCEPT ![c] = x]
  BY <1>1 DEF Write, Row, NewRow
<1>4. x \in Call
  BY <1>1, CreatedIsSound DEF Idle, Call
<1> QED
  BY <1>1, <1>2, <1>3, <1>4

\* The UPDATE keeps the rows sound, and what the other copies say of started_at.
LEMMA WriteSound ==
  ASSUME ServiceInv, NEW c \in Callers, Write(c)
  PROVE  ServiceInv'
<1>0. now' = now /\ now \in Nat
  BY ServiceAssumption DEF Write, ServiceInv, TypeOK, Time
<1>1. \A t \in Tasks : SoundRow(task'[t]) /\ (task[t].started # 0 => task'[t].started = task[t].started)
  <2> SUFFICES ASSUME NEW t \in Tasks
               PROVE  SoundRow(task'[t]) /\ (task[t].started # 0 => task'[t].started = task[t].started)
    OBVIOUS
  <2>1. /\ SoundRow(NewRow(c))
        /\ Row(c).started # 0 => NewRow(c).started = Row(c).started
    BY FlushedRow DEF Write
  <2>2. CASE t = call[c].task
    <3>1. task'[t] = NewRow(c) /\ task[t] = Row(c)
      BY <2>2, WriteWrites DEF Row
    <3> QED
      BY <2>1, <3>1
  <2>3. CASE t # call[c].task
    <3>1. task'[t] = task[t] /\ SoundRow(task[t])
      BY <2>3, WriteWrites DEF ServiceInv
    <3> QED
      BY <3>1
  <2> QED
    BY <2>2, <2>3
<1>2. TypeOK' /\ \A t \in Tasks : SoundRow(task[t])'
  BY <1>0, <1>1, WriteWrites DEF ServiceInv, TypeOK, SoundRow
<1>3. SoundCall(c)'
  <2>1. /\ call'[c].pc = "reload" /\ call'[c].task \in Tasks
        /\ call'[c].copy = Created
    BY WriteWrites DEF Idle
  <2> QED
    BY <1>0, <2>1, CreatedIsSound DEF SoundCall, SoundRow, Created, At
<1>4. ASSUME NEW d \in Callers \ {c}, call'[d].pc # "idle"
      PROVE  SoundCall(d)'
  <2>1. call'[d] = call[d]
    BY WriteWrites
  <2>2. SoundCall(d) /\ call[d].task \in Tasks
    BY <1>4, <2>1 DEF ServiceInv, SoundCall, At
  <2>3. call[d].copy.started # 0 => Row(d)'.started = call[d].copy.started
    BY <1>1, <1>4, <2>1, <2>2 DEF SoundCall, At, Row
  <2> QED
    BY <1>0, <1>4, <2>1, <2>2, <2>3 DEF SoundCall, SoundRow, BringsResult, At
<1> QED
  BY <1>2, <1>3, <1>4 DEF ServiceInv, SoundCall, At

\* A later clock leaves sound what is sound.
LEMMA TickSound ==
  ASSUME ServiceInv, Tick
  PROVE  ServiceInv'
<1>1. now \in Nat /\ now' = now + 1 /\ now' \in Time \ {0} /\ UNCHANGED <<task, call>>
  BY ServiceAssumption DEF ServiceInv, TypeOK, Tick, Time
<1>2. TypeOK'
  BY <1>1 DEF ServiceInv, TypeOK
<1>3. \A t \in Tasks : SoundRow(task[t])'
  BY <1>1 DEF ServiceInv, TypeOK, TaskRow, Time, SoundRow
<1>4. \A c \in Callers : SoundCall(c)'
  <2> SUFFICES ASSUME NEW c \in Callers, call[c].pc # "idle" PROVE SoundCall(c)'
    BY <1>1 DEF SoundCall, At
  <2>1. call[c].copy \in TaskRow /\ call[c].stamp \in Time /\ SoundCall(c)
    BY DEF ServiceInv, TypeOK, Call
  <2> QED
    BY <1>1, <2>1 DEF SoundCall, SoundRow, BringsResult, TaskRow, Time, At, Row
<1> QED
  BY <1>2, <1>3, <1>4 DEF ServiceInv

\* ServiceInv is inductive.
LEMMA ServiceInductive == ServiceInv /\ [Next]_vars => ServiceInv'
<1> SUFFICES ASSUME ServiceInv, [Next]_vars PROVE ServiceInv'
  OBVIOUS
<1>1. CASE Next
  BY <1>1, SessionSound, WriteSound, TickSound DEF Next
<1>2. CASE UNCHANGED vars
  BY <1>2 DEF vars, ServiceInv, TypeOK, SoundCall, SoundRow, BringsResult, At, Row
<1> QED
  BY <1>1, <1>2

\* The invariant holds, whatever the callers do with their copies.
LEMMA ServiceInvHolds == Spec => []ServiceInv
BY InitSound, ServiceInductive, PTL DEF Spec

-----------------------------------------------------------------------------
(* The theorems.                                                            *)

\* Rows, sessions and the clock keep their types.
THEOREM TypeCorrect == Spec => []TypeOK
<1>1. ServiceInv => TypeOK
  BY DEF ServiceInv
<1>2. QED
  BY <1>1, ServiceInvHolds, PTL

\* A task starts before it ends, and neither stamp lies in the future.
THEOREM TimesOrdered == Spec => []TimesAreOrdered
<1>1. ServiceInv => TimesAreOrdered
  BY DEF ServiceInv, SoundRow, TimesAreOrdered
<1>2. QED
  BY <1>1, ServiceInvHolds, PTL

\* The columns of a row tell one story, whoever won which race.
THEOREM ColumnsTellOneStory == Spec => []ColumnsAgree
<1>1. ServiceInv => ColumnsAgree
  BY DEF ServiceInv, SoundRow, ColumnsAgree
<1>2. QED
  BY <1>1, ServiceInvHolds, PTL

\* Which rows a step writes.
LEMMA StepWrites ==
  ASSUME ServiceInv, [Next]_vars
  PROVE  UNCHANGED task \/ \E c \in Callers : Write(c)
BY DEF Next, vars, Open, Decide, Reload, Close, Tick

\* started_at is written once, a result is never withdrawn, and an ended task gets
\* nothing but a late result.
THEOREM StampsStay == Spec => StampsAreFinal
<1> DEFINE Final ==
      \A t \in Tasks :
        /\ task[t].started # 0 => task'[t].started = task[t].started
        /\ task[t].result => task'[t].result
        /\ task[t].completed # 0 =>
             \/ task'[t] = task[t]
             \/ /\ task'[t] = [task[t] EXCEPT !.result = TRUE]
                /\ \E c \in Callers : /\ At(c, "write") /\ call[c].task = t
                                      /\ BringsResult(c, call[c].target)
<1>1. ServiceInv /\ [Next]_vars => Final
  <2> SUFFICES ASSUME ServiceInv, [Next]_vars PROVE Final
    OBVIOUS
  <2>1. CASE UNCHANGED task
    BY <2>1
  <2>2. ASSUME NEW c \in Callers, Write(c)
        PROVE  Final
    <3> DEFINE u == call[c].task
    <3>1. At(c, "write") /\ u \in Tasks /\ Row(c) = task[u] /\ task[u] \in TaskRow
          /\ call[c].assigned \in BOOLEAN
      BY <2>2, WriteWrites DEF Write, Row, ServiceInv, TypeOK, Call
    <3>2. /\ task[u].started # 0 => task'[u].started = task[u].started
          /\ task[u].result => task'[u].result
      BY <2>2, <3>1, WriteWrites, FlushedRow
    <3>3. ASSUME task[u].completed # 0
          PROVE  \/ task'[u] = task[u]
                 \/ /\ task'[u] = [task[u] EXCEPT !.result = TRUE]
                    /\ BringsResult(c, call[c].target)
      <4>1. task[u].status \in TerminalStates
        BY <3>1, <3>3 DEF ServiceInv, SoundRow
      <4>2. ~Wins(c)
        BY <3>1, <4>1, WrittenRow DEF ValidTransition, AllowedTransitions, TaskTransitions,
                                      TerminalStates
      <4>3. task'[u] = Flushed(task[u], c)
        BY <2>2, <3>1, <4>2, WriteWrites DEF NewRow
      <4>4. CASE call[c].assigned
        <5>1. BringsResult(c, call[c].target)
          BY <3>1, <4>4, ResultOfStarted
        <5>2. Flushed(task[u], c) = [task[u] EXCEPT !.result = TRUE]
          BY <3>1, <4>4 DEF Flushed
        <5> QED
          BY <4>3, <5>1, <5>2
      <4>5. CASE ~call[c].assigned
        <5>1. Flushed(task[u], c) = task[u]
          BY <3>1, <4>5 DEF Flushed, TaskRow
        <5> QED
          BY <4>3, <5>1
      <4> QED
        BY <3>1, <4>4, <4>5
    <3>4. \A t \in Tasks \ {u} : task'[t] = task[t]
      BY <2>2, WriteWrites
    <3> QED
      BY <3>1, <3>2, <3>3, <3>4
  <2> QED
    BY <2>1, <2>2, StepWrites
<1>2. QED
  BY <1>1, ServiceInvHolds, PTL DEF Spec, StampsAreFinal

\* The lifecycle uses the same table.
LEMMA SameTable ==
  /\ Lifecycle!TaskState = TaskState
  /\ \A s, new : ValidTransition(s, new) => Lifecycle!ValidTransition(s, new)
<1>1. Lifecycle!TaskState = TaskState
  BY DEF Lifecycle!TaskState, TaskState
<1>2. Lifecycle!TaskTransitions = TaskTransitions
  BY DEF Lifecycle!TaskTransitions, TaskTransitions
<1>3. QED
  BY <1>1, <1>2 DEF Lifecycle!ValidTransition, ValidTransition,
                    Lifecycle!AllowedTransitions, AllowedTransitions

\* Every transition that is won implements a step of the lifecycle.
THEOREM ImplementsLifecycle == Spec => FollowsLifecycle
<1> DEFINE StatusOf == [t \in Tasks |-> task[t].status]
<1>1. Init => Lifecycle!Init
  BY DEF Init, Created, Lifecycle!Init
<1>2. ServiceInv /\ [Next]_vars => Lifecycle!Next \/ UNCHANGED StatusOf
  <2> SUFFICES ASSUME ServiceInv, [Next]_vars PROVE Lifecycle!Next \/ UNCHANGED StatusOf
    OBVIOUS
  <2>1. CASE UNCHANGED task
    BY <2>1
  <2>2. ASSUME NEW c \in Callers, Write(c)
        PROVE  Lifecycle!Next \/ UNCHANGED StatusOf
    <3> DEFINE u == call[c].task
    <3>1. At(c, "write") /\ u \in Tasks /\ Row(c) = task[u] /\ call[c].target \in TaskState
      BY <2>2, WriteWrites DEF Write, Row
    <3>2. /\ task'[u].status = IF Wins(c) THEN call[c].target ELSE task[u].status
          /\ \A t \in Tasks \ {u} : task'[t] = task[t]
      <4>1. task'[u] = NewRow(c) /\ \A t \in Tasks \ {u} : task'[t] = task[t]
        BY <2>2, WriteWrites
      <4>2. NewRow(c).status = IF Wins(c) THEN call[c].target ELSE task[u].status
        BY <3>1, FlushedRow
      <4> QED
        BY <4>1, <4>2
    <3>3. CASE Wins(c)
      <4>1. StatusOf' = [StatusOf EXCEPT ![u] = call[c].target]
        BY <3>2, <3>3
      <4>2. Lifecycle!ValidTransition(StatusOf[u], call[c].target)
        BY <3>1, <3>3, WrittenRow, SameTable
      <4> QED
        BY <3>1, <4>1, <4>2, SameTable DEF Lifecycle!Next, Lifecycle!Move
    <3>4. CASE ~Wins(c)
      BY <3>2, <3>4
    <3> QED
      BY <3>3, <3>4
  <2> QED
    BY <2>1, <2>2, StepWrites
<1>3. QED
  BY <1>1, <1>2, ServiceInvHolds, PTL DEF Spec, FollowsLifecycle, Lifecycle!Spec
=============================================================================
