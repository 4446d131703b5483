------------------------- MODULE PipelineDagProofs -------------------------
(* Proofs about PipelineDag, for every DAG and every set of threads. *)
EXTENDS PipelineDag, TLAPS

\* AnyTask is a task: the idle record of a thread is well typed.
LEMMA IdleType == Idle \in Call
<1>1. AnyTask \in Tasks
  BY TasksNonEmpty DEF AnyTask
<1>. QED
  BY <1>1 DEF Idle, Call, States

\* What set_state leaves a thread with is well typed.
LEMMA AfterSetType == ASSUME NEW c \in Call PROVE AfterSet(c) \in Call
  BY IdleType DEF AfterSet, Call

\* can_transition only leads to states of the life cycle.
LEMMA TransitionType ==
  ASSUME NEW from, NEW to, CanTransition(from, to) PROVE to \in States
  BY DEF CanTransition, States

\* The cascade only moves tasks out of pending, and into canceled.
LEMMA CascadeEffect ==
  ASSUME NEW s \in [Tasks -> States], NEW roots
  PROVE  /\ CascadeCancel(s, roots) \in [Tasks -> States]
         /\ \A t \in Tasks : \/ CascadeCancel(s, roots)[t] = s[t]
                             \/ s[t] = "pending" /\ CascadeCancel(s, roots)[t] = "canceled"
  BY DEF CascadeCancel, Skipped, Pending, States

\* A skipped task has a reason: a blocking dependency among the roots or the
\* skipped tasks themselves.  This is what makes the least set the one the
\* breadth-first search visits, and no more.
LEMMA SkippedHasReason ==
  ASSUME NEW s \in [Tasks -> States], NEW roots, NEW t \in Skipped(s, roots)
  PROVE  \E d \in roots \cup Skipped(s, roots) : <<t, d>> \in BlockEdges
<1>. SUFFICES ASSUME \A d \in roots \cup Skipped(s, roots) : <<t, d>> \notin BlockEdges
              PROVE  FALSE
  OBVIOUS
<1>. DEFINE C == Skipped(s, roots) \ {t}
<1>1. C \in SUBSET Pending(s)
  BY DEF Skipped
<1>2. ASSUME NEW e \in BlockEdges, e[2] \in roots \cup C, s[e[1]] = "pending"
      PROVE  e[1] \in C
  <2>1. e[1] \in Tasks /\ e = <<e[1], e[2]>>
    BY EdgesOverTasks DEF Edges
  <2>2. e[1] # t
    BY <1>2, <2>1
  <2>3. e[1] \in Pending(s)
    BY <1>2, <2>1 DEF Pending
  <2>4. ASSUME NEW K \in SUBSET Pending(s), ClosedUnderSkip(s, roots, K)
        PROVE  e[1] \in K
    <3>1. e[2] \in roots \cup K
      BY <1>2, <2>4 DEF Skipped
    <3>. QED
      BY <3>1, <1>2, <2>4 DEF ClosedUnderSkip
  <2>. QED
    BY <2>2, <2>3, <2>4 DEF Skipped
<1>3. ClosedUnderSkip(s, roots, C)
  BY <1>2 DEF ClosedUnderSkip
<1>. QED
  BY <1>1, <1>3 DEF Skipped

\* The unblocking only clears flags of pending, ready tasks.
LEMMA UnblockEffect ==
  ASSUME NEW s \in [Tasks -> States], NEW b \in [Tasks -> BOOLEAN], NEW among
  PROVE  /\ Unblock(s, b, among) \in [Tasks -> BOOLEAN]
         /\ \A t \in Tasks : Unblock(s, b, among)[t] => b[t]
         /\ \A t \in Tasks : b[t] /\ ~Unblock(s, b, among)[t] =>
                               s[t] = "pending" /\ DepsAllDone(s, t)
  BY Zenon DEF Unblock

----------------------------------------------------------------------------
\* Typing

\* Every step keeps the types.
LEMMA TypingStep == TypeOK /\ [Next]_vars => TypeOK'
<1>. SUFFICES ASSUME TypeOK, [Next]_vars PROVE TypeOK'
  OBVIOUS
<1>. USE DEF TypeOK
<1>0. Main \in Threads
  BY DEF Threads
<1>1. ASSUME NEW th \in Threads, NEW t \in Tasks, NEW to \in States, NEW h \in BOOLEAN,
             SetStateRead(th, t, to, h)
      PROVE  TypeOK'
  <2>. DEFINE c == [pc |-> "write", task |-> t, to |-> to, hooked |-> h]
  <2>1. c \in Call
    BY DEF Call
  <2>2. AfterSet(c) \in Call
    BY <2>1, AfterSetType
  <2>. QED
    BY <1>1, <2>1, <2>2 DEF SetStateRead
<1>2. ASSUME NEW t \in Tasks, NEW to \in States, SetStateCommand(t, to) PROVE TypeOK'
  BY <1>0, <1>1, <1>2 DEF SetStateCommand
<1>3. ASSUME NEW t \in Tasks, MarkReady(t) PROVE TypeOK'
  BY <1>0, <1>1, <1>3 DEF MarkReady, States
<1>4. ASSUME NEW t \in Tasks, CancelCommand(t) PROVE TypeOK'
  BY <1>0, <1>1, <1>4 DEF CancelCommand, States
<1>5. ASSUME NEW t \in Tasks, ClaimForLaunch(t) PROVE TypeOK'
  <2>1. [Idle EXCEPT !.pc = "launch", !.task = t] \in Call
    BY IdleType DEF Call
  <2>. QED
    BY <1>5, <2>1 DEF ClaimForLaunch, States
<1>6. ASSUME NEW t \in Tasks, SweepRead(t) PROVE TypeOK'
  <2>1. [Idle EXCEPT !.pc = "sweepWrite", !.task = t] \in Call
    BY IdleType DEF Call
  <2>. QED
    BY <1>6, <2>1 DEF SweepRead
<1>7. ASSUME NEW t \in Tasks, NEW th \in Remote, RemoteReady(th, t) PROVE TypeOK'
  BY <1>1, <1>7 DEF RemoteReady, States, Threads
<1>8. ASSUME NEW t \in Tasks, NEW th \in Remote, RemoteCancel(th, t) PROVE TypeOK'
  BY <1>1, <1>8 DEF RemoteCancel, States, Threads
<1>9. ASSUME NEW th \in Threads, SetStateWrite(th) PROVE TypeOK'
  <2>1. AfterSet(call[th]) \in Call
    BY AfterSetType
  <2>2. call[th].task \in Tasks /\ call[th].to \in States
    BY DEF Call
  <2>. QED
    BY <1>9, <2>1, <2>2 DEF SetStateWrite
<1>10. CASE LaunchDone
  BY <1>10, IdleType DEF LaunchDone
<1>11. CASE LaunchFailed
  <2>1. call[Main].task \in Tasks
    BY <1>0 DEF Call
  <2>. QED
    BY <1>0, <1>1, <1>11, <2>1 DEF LaunchFailed, States
<1>12. CASE MarkRunCanceled
  <2>1. [Idle EXCEPT !.pc = "list"] \in Call
    BY IdleType DEF Call
  <2>. QED
    BY <1>12, <2>1 DEF MarkRunCanceled
<1>13. CASE ListRunTasks
  <2>1. [Idle EXCEPT !.pc = "sweep"] \in Call
    BY IdleType DEF Call
  <2>. QED
    BY <1>13, <2>1 DEF ListRunTasks
<1>14. CASE SweepWrite
  <2>1. [Idle EXCEPT !.pc = "sweep"] \in Call
    BY IdleType DEF Call
  <2>. QED
    BY <1>14, <2>1 DEF SweepWrite, States
<1>15. CASE SweepDone
  BY <1>15, IdleType DEF SweepDone
<1>16. ASSUME NEW th \in Threads, OnTaskSettled(th) PROVE TypeOK'
  <2>. DEFINE s == IF call[th].to \in Dropped THEN CascadeCancel(state, {call[th].task})
                   ELSE state
  <2>1. s \in [Tasks -> States]
    BY CascadeEffect
  <2>2. Unblock(s, blocked, Dependents(call[th].task)) \in [Tasks -> BOOLEAN]
    BY <2>1, UnblockEffect
  <2>3. FinalStatus(s, run) \in {"running", "done", "failed", "canceled"}
    BY DEF FinalStatus
  <2>4. CASE run = "running"
    BY <1>16, <2>1, <2>2, <2>3, <2>4, IdleType DEF OnTaskSettled
  <2>5. CASE run # "running"
    BY <1>16, <2>5, IdleType DEF OnTaskSettled
  <2>. QED
    BY <2>4, <2>5
<1>17. CASE ReconcileList
  BY <1>17 DEF ReconcileList
<1>18. CASE ReconcileRun
  <2>. DEFINE s == CascadeCancel(state, {t \in Tasks : state[t] \in Dropped})
  <2>1. s \in [Tasks -> States]
    BY CascadeEffect
  <2>2. Unblock(s, blocked, Tasks) \in [Tasks -> BOOLEAN]
    BY <2>1, UnblockEffect
  <2>3. FinalStatus(s, run) \in {"running", "done", "failed", "canceled"}
    BY DEF FinalStatus
  <2>. QED
    BY <1>18, <2>1, <2>2, <2>3 DEF ReconcileRun
<1>19. CASE Crash
  BY <1>19, IdleType DEF Crash
<1>20. CASE UNCHANGED vars
  BY <1>20 DEF vars
<1>. QED
  BY <1>2, <1>3, <1>4, <1>5, <1>6, <1>7, <1>8, <1>9, <1>10, <1>11, <1>12, <1>13, <1>14,
     <1>15, <1>16, <1>17, <1>18, <1>19, <1>20 DEF Next, HookedNext, UnhookedEnd, Scheduler

\* Every variable keeps its type, in every run of every DAG.
THEOREM Typing == Spec => []TypeOK
<1>1. Init => TypeOK
  BY IdleType DEF Init, TypeOK, States
<1>. QED
  BY <1>1, TypingStep, PTL DEF Spec

----------------------------------------------------------------------------
\* What one step can do, whichever action it is

\* A flag is only cleared, and only when the task is ready.
FlagsEffect ==
  \A t \in Tasks : /\ blocked'[t] => blocked[t]
                   /\ blocked[t] /\ ~blocked'[t] => DepsAllDone(state', t)

\* th writes t, in the second half of its set_state.
WrittenBy(th, t) ==
  /\ call[th].pc = "write" /\ call[th].task = t /\ state'[t] = call[th].to
  /\ call'[th].pc \notin {"write", "sweepWrite"}
  /\ call[th].to = "running" => state[t] = "pending" /\ ~blocked[t]

\* The four ways a task changes state.
TaskEffect ==
  \A t \in Tasks : state'[t] # state[t] =>
    \/ state[t] = "pending" /\ state'[t] = "canceled"
    \/ /\ state[t] = "pending" /\ ~blocked[t] /\ run # "canceled" /\ state'[t] = "running"
       /\ call[Main].pc = "idle" /\ call'[Main].pc = "launch"
    \/ \E th \in Threads : WrittenBy(th, t)
    \/ /\ call[Main].pc = "sweepWrite" /\ call[Main].task = t /\ state'[t] = "canceled"
       /\ call'[Main].pc = "sweep"

\* A thread about to write either was so before, or has just read its task.
CallEffect ==
  \A th \in Threads :
    /\ call'[th].pc = "write" =>
         \/ call'[th] = call[th]
         \/ state' = state /\ CanTransition(state[call'[th].task], call'[th].to)
    /\ call'[th].pc = "sweepWrite" =>
         \/ call'[th] = call[th]
         \/ state' = state /\ CanTransition(state[call'[th].task], "canceled")

Effect == FlagsEffect /\ TaskEffect /\ CallEffect

\* The record Idle has the program counter idle.
LEMMA IdlePc == Idle.pc = "idle"
  BY DEF Idle

\* set_state leaves its thread idle or before the hook, never before a write.
LEMMA AfterSetPc ==
  ASSUME NEW c \in Call PROVE AfterSet(c).pc \in {"idle", "hook"}
  BY IdlePc DEF AfterSet, Call

\* The read of set_state disturbs nothing but the call of its thread.
LEMMA ReadEffect ==
  ASSUME TypeOK, NEW th \in Threads, NEW t \in Tasks, NEW to \in States,
         NEW h \in BOOLEAN, SetStateRead(th, t, to, h)
  PROVE  Effect
<1>. DEFINE c == [pc |-> "write", task |-> t, to |-> to, hooked |-> h]
<1>1. state' = state /\ blocked' = blocked
  BY DEF SetStateRead
<1>2. c \in Call
  BY DEF Call
<1>3. AfterSet(c).pc \in {"idle", "hook"}
  BY <1>2, AfterSetPc
<1>4. \/ call' = [call EXCEPT ![th] = AfterSet(c)]
      \/ CanTransition(state[t], to) /\ call' = [call EXCEPT ![th] = c]
  BY DEF SetStateRead
<1>5. CallEffect
  BY <1>1, <1>3, <1>4 DEF CallEffect, TypeOK
<1>. QED
  BY <1>1, <1>5 DEF Effect, FlagsEffect, TaskEffect

\* Every step of the system is one of those.
LEMMA StepEffect == TypeOK /\ [Next]_vars => Effect
<1>. SUFFICES ASSUME TypeOK, [Next]_vars PROVE Effect
  OBVIOUS
<1>. USE IdlePc DEF Effect
<1>0. Main \in Threads
  BY DEF Threads
<1>1. ASSUME NEW t \in Tasks, NEW to \in States, SetStateCommand(t, to) PROVE Effect
  BY <1>0, <1>1, ReadEffect DEF SetStateCommand
<1>2. ASSUME NEW t \in Tasks, MarkReady(t) PROVE Effect
  BY <1>0, <1>2, ReadEffect DEF MarkReady, States
<1>3. ASSUME NEW t \in Tasks, CancelCommand(t) PROVE Effect
  BY <1>0, <1>3, ReadEffect DEF CancelCommand, States
<1>4. ASSUME NEW t \in Tasks, ClaimForLaunch(t) PROVE Effect
  <2>1. FlagsEffect
    BY <1>4 DEF ClaimForLaunch, FlagsEffect
  <2>2. call' = [call EXCEPT ![Main] = [Idle EXCEPT !.pc = "launch", !.task = t]]
    BY <1>4 DEF ClaimForLaunch
  <2>3. [Idle EXCEPT !.pc = "launch", !.task = t].pc = "launch"
    BY DEF Idle
  <2>4. CallEffect
    BY <1>0, <2>2, <2>3 DEF CallEffect, TypeOK
  <2>5. TaskEffect
    BY <1>0, <1>4, <2>2, <2>3 DEF ClaimForLaunch, TaskEffect, TypeOK, MainIdle
  <2>. QED
    BY <2>1, <2>4, <2>5
<1>5. ASSUME NEW t \in Tasks, SweepRead(t) PROVE Effect
  <2>. DEFINE c == [Idle EXCEPT !.pc = "sweepWrite", !.task = t]
  <2>1. c.pc = "sweepWrite" /\ c.task = t
    BY DEF Idle
  <2>2. state' = state /\ blocked' = blocked
    BY <1>5 DEF SweepRead
  <2>3. \/ call' = call
        \/ CanTransition(state[t], "canceled") /\ call' = [call EXCEPT ![Main] = c]
    BY <1>5 DEF SweepRead
  <2>4. CallEffect
    BY <1>0, <2>1, <2>2, <2>3 DEF CallEffect, TypeOK
  <2>. QED
    BY <2>2, <2>4 DEF FlagsEffect, TaskEffect
<1>6. ASSUME NEW t \in Tasks, NEW th \in Remote, RemoteReady(th, t) PROVE Effect
  BY <1>6, ReadEffect DEF RemoteReady, States, Threads
<1>7. ASSUME NEW t \in Tasks, NEW th \in Remote, RemoteCancel(th, t) PROVE Effect
  BY <1>7, ReadEffect DEF RemoteCancel, States, Threads
<1>8. ASSUME NEW th \in Threads, SetStateWrite(th) PROVE Effect
  <2>1. call[th] \in Call /\ call[th].task \in Tasks
    BY DEF TypeOK, Call
  <2>2. AfterSet(call[th]).pc \in {"idle", "hook"}
    BY <2>1, AfterSetPc
  <2>3. call' = [call EXCEPT ![th] = AfterSet(call[th])] /\ blocked' = blocked
    BY <1>8 DEF SetStateWrite
  <2>4. CallEffect
    BY <2>2, <2>3 DEF CallEffect, TypeOK
  <2>5. ASSUME NEW t \in Tasks, state'[t] # state[t] PROVE WrittenBy(th, t)
    BY <1>8, <2>1, <2>2, <2>3, <2>5 DEF SetStateWrite, WrittenBy, TypeOK
  <2>. QED
    BY <2>3, <2>4, <2>5 DEF FlagsEffect, TaskEffect
<1>9. CASE LaunchDone
  BY <1>0, <1>9 DEF LaunchDone, FlagsEffect, TaskEffect, CallEffect, TypeOK
<1>10. CASE LaunchFailed
  <2>1. call[Main].task \in Tasks
    BY <1>0 DEF TypeOK, Call
  <2>. QED
    BY <1>0, <1>10, <2>1, ReadEffect DEF LaunchFailed, States
<1>11. CASE MarkRunCanceled
  <2>1. [Idle EXCEPT !.pc = "list"].pc = "list"
    BY DEF Idle
  <2>. QED
    BY <1>0, <1>11, <2>1 DEF MarkRunCanceled, FlagsEffect, TaskEffect, CallEffect, TypeOK
<1>12. CASE ListRunTasks
  <2>1. [Idle EXCEPT !.pc = "sweep"].pc = "sweep"
    BY DEF Idle
  <2>. QED
    BY <1>0, <1>12, <2>1 DEF ListRunTasks, FlagsEffect, TaskEffect, CallEffect, TypeOK
<1>13. CASE SweepWrite
  <2>1. [Idle EXCEPT !.pc = "sweep"].pc = "sweep"
    BY DEF Idle
  <2>2. call[Main].task \in Tasks
    BY <1>0 DEF TypeOK, Call
  <2>. QED
    BY <1>0, <1>13, <2>1, <2>2
    DEF SweepWrite, FlagsEffect, TaskEffect, CallEffect, TypeOK
<1>14. CASE SweepDone
  BY <1>0, <1>14 DEF SweepDone, FlagsEffect, TaskEffect, CallEffect, TypeOK
<1>15. ASSUME NEW th \in Threads, OnTaskSettled(th) PROVE Effect
  <2>. DEFINE s == IF call[th].to \in Dropped THEN CascadeCancel(state, {call[th].task})
                   ELSE state
  <2>0. call[th].pc = "hook" /\ call' = [call EXCEPT ![th] = Idle]
    BY <1>15 DEF OnTaskSettled
  <2>1. CallEffect
    BY <2>0 DEF CallEffect, TypeOK
  <2>2. CASE run # "running"
    BY <1>15, <2>1, <2>2 DEF OnTaskSettled, FlagsEffect, TaskEffect
  <2>3. CASE run = "running"
    <3>1. /\ s \in [Tasks -> States]
          /\ \A t \in Tasks : s[t] = state[t] \/ (state[t] = "pending" /\ s[t] = "canceled")
      BY CascadeEffect DEF TypeOK
    <3>2. state' = s /\ blocked' = Unblock(s, blocked, Dependents(call[th].task))
      BY <1>15, <2>3 DEF OnTaskSettled
    <3>. HIDE DEF s
    <3>3. FlagsEffect
      BY <3>1, <3>2, UnblockEffect DEF FlagsEffect, TypeOK
    <3>. QED
      BY <2>1, <3>1, <3>2, <3>3 DEF TaskEffect
  <2>. QED
    BY <2>2, <2>3
<1>16. CASE ReconcileList
  BY <1>16 DEF ReconcileList, FlagsEffect, TaskEffect, CallEffect
<1>17. CASE ReconcileRun
  <2>. DEFINE s == CascadeCancel(state, {t \in Tasks : state[t] \in Dropped})
  <2>1. /\ s \in [Tasks -> States]
        /\ \A t \in Tasks : s[t] = state[t] \/ (state[t] = "pending" /\ s[t] = "canceled")
    BY CascadeEffect DEF TypeOK
  <2>2. state' = s /\ blocked' = Unblock(s, blocked, Tasks) /\ call' = call
    BY <1>17 DEF ReconcileRun
  <2>3. FlagsEffect
    BY <2>1, <2>2, UnblockEffect DEF FlagsEffect, TypeOK
  <2>4. CallEffect
    BY <2>2 DEF CallEffect
  <2>. QED
    BY <2>1, <2>2, <2>3, <2>4 DEF TaskEffect
<1>18. CASE Crash
  BY <1>18 DEF Crash, FlagsEffect, TaskEffect, CallEffect
<1>19. CASE UNCHANGED vars
  BY <1>19 DEF vars, FlagsEffect, TaskEffect, CallEffect
<1>. QED
  BY <1>1, <1>2, <1>3, <1>4, <1>5, <1>6, <1>7, <1>8, <1>9, <1>10, <1>11, <1>12, <1>13,
     <1>14, <1>15, <1>16, <1>17, <1>18, <1>19 DEF Next, HookedNext, UnhookedEnd, Scheduler

----------------------------------------------------------------------------
\* The gate

\* A thread that is about to write a state past pending read the task past
\* pending, and nothing blocks a task again.
GateInv ==
  /\ LaunchGate
  /\ \A th \in Threads : call[th].pc = "write" /\ call[th].to \notin {"running", "canceled"}
                           => ~blocked[call[th].task]

\* No blocked task is ever launched, with any number of racing threads.
THEOREM GateHolds == Spec => []LaunchGate
<1>1. Init => GateInv
  BY IdlePc DEF Init, GateInv, LaunchGate
<1>2. TypeOK /\ GateInv /\ [Next]_vars => GateInv'
  <2>. SUFFICES ASSUME TypeOK, GateInv, [Next]_vars PROVE GateInv'
    OBVIOUS
  <2>1. FlagsEffect /\ TaskEffect /\ CallEffect
    BY StepEffect DEF Effect
  <2>2. TypeOK'
    BY TypingStep
  <2>3. ASSUME NEW t \in Tasks, state'[t] \notin {"pending", "canceled"}
        PROVE  ~blocked'[t]
    <3>1. CASE state'[t] = state[t]
      BY <2>1, <2>3, <3>1 DEF FlagsEffect, GateInv, LaunchGate
    <3>2. CASE state[t] = "pending" /\ ~blocked[t]
      BY <2>1, <3>2 DEF FlagsEffect
    <3>3. ASSUME NEW th \in Threads, WrittenBy(th, t) PROVE ~blocked[t]
      BY <2>3, <3>3 DEF WrittenBy, GateInv
    <3>. QED
      BY <2>1, <2>3, <3>1, <3>2, <3>3 DEF TaskEffect, FlagsEffect
  <2>4. ASSUME NEW th \in Threads, call'[th].pc = "write",
               call'[th].to \notin {"running", "canceled"}
        PROVE  ~blocked'[call'[th].task]
    <3>1. call'[th].task \in Tasks
      BY <2>2 DEF TypeOK, Call
    <3>2. CASE call'[th] = call[th]
      BY <2>1, <2>4, <3>1, <3>2 DEF FlagsEffect, GateInv
    <3>3. CASE CanTransition(state[call'[th].task], call'[th].to)
      <4>1. state[call'[th].task] \in Live
        BY <2>4, <3>3 DEF CanTransition, Live
      <4>. QED
        BY <2>1, <3>1, <4>1 DEF Live, FlagsEffect, GateInv, LaunchGate
    <3>. QED
      BY <2>1, <2>4, <3>2, <3>3 DEF CallEffect
  <2>. QED
    BY <2>3, <2>4 DEF GateInv, LaunchGate
<1>3. GateInv => LaunchGate
  BY DEF GateInv
<1>. QED
  BY <1>1, <1>2, <1>3, Typing, PTL DEF Spec

\* A flag is cleared only in a step that leaves every edge of the task satisfied.
THEOREM UnblockReady == Spec => UnblockOnlyWhenReady
<1>1. TypeOK /\ [Next]_vars =>
        [\A t \in Tasks : blocked[t] /\ ~blocked'[t] => DepsAllDone(state', t)]_vars
  BY StepEffect DEF Effect, FlagsEffect
<1>. QED
  BY <1>1, Typing, PTL DEF Spec, UnblockOnlyWhenReady

\* Neither the cascade nor the reconciliation ends work that is under way.
THEOREM LiveWorkSafe == Spec => LiveWorkUntouched
<1>1. TypeOK /\ [Next]_vars => [NobodyEndsLiveWork]_vars
  <2>. SUFFICES ASSUME TypeOK, [Next]_vars, NEW t \in Tasks,
                       state[t] \in Live, state'[t] # state[t]
                PROVE  \E th \in Threads : /\ call[th].pc \in {"write", "sweepWrite"}
                                           /\ call[th].task = t
    BY DEF NobodyEndsLiveWork
  <2>1. TaskEffect
    BY StepEffect DEF Effect
  <2>2. Main \in Threads /\ state[t] # "pending"
    BY DEF Threads, Live
  <2>. QED
    BY <2>1, <2>2 DEF TaskEffect, WrittenBy
<1>. QED
  BY <1>1, Typing, PTL DEF Spec, LiveWorkUntouched

----------------------------------------------------------------------------
\* One command at a time: without the threads of the poller and of the remote
\* commands, nothing comes between the two halves of a set_state but the
\* reconciliation at boot, and the life cycle and the order of the DAG hold.

\* What a thread is about to write is still a legal transition, unless the
\* reconciliation has canceled the pending task it read.
WriteStillLegal ==
  \A th \in Threads :
    /\ call[th].pc = "write" =>
         \/ CanTransition(state[call[th].task], call[th].to)
         \/ state[call[th].task] = "canceled" /\ call[th].to \in {"running", "canceled"}
    /\ call[th].pc = "sweepWrite" =>
         \/ CanTransition(state[call[th].task], "canceled")
         \/ state[call[th].task] = "canceled"

\* An unblocked task has every edge satisfied.
UnblockedReady == \A t \in Tasks : ~blocked[t] => DepsAllDone(state, t)

LegalChange == \A t \in Tasks : state'[t] # state[t] => CanTransition(state[t], state'[t])

\* No thread is about to write at first.
LEMMA WriteStillLegalInit == Init => WriteStillLegal
  BY IdlePc DEF Init, WriteStillLegal

\* One step of the serial system is legal and keeps what makes it so.
LEMMA SerialStep ==
  ASSUME Remote = {}, TypeOK, WriteStillLegal, [Next]_vars
  PROVE  LegalChange /\ WriteStillLegal'
<1>0. Threads = {Main}
  BY DEF Threads
<1>1. FlagsEffect /\ TaskEffect /\ CallEffect /\ TypeOK'
  BY StepEffect, TypingStep DEF Effect
<1>2. ASSUME NEW t \in Tasks, state'[t] # state[t] PROVE CanTransition(state[t], state'[t])
  <2>1. ASSUME WrittenBy(Main, t) PROVE CanTransition(state[t], state'[t])
    BY <1>0, <1>2, <2>1 DEF WrittenBy, WriteStillLegal, CanTransition
  <2>2. CASE call[Main].pc = "sweepWrite" /\ call[Main].task = t /\ state'[t] = "canceled"
    BY <1>0, <1>2, <2>2 DEF WriteStillLegal
  <2>3. CanTransition("pending", "canceled") /\ CanTransition("pending", "running")
    BY DEF CanTransition
  <2>. QED
    BY <1>0, <1>1, <1>2, <2>1, <2>2, <2>3 DEF TaskEffect
<1>3. ASSUME call'[Main].pc = "write"
      PROVE  \/ CanTransition(state'[call'[Main].task], call'[Main].to)
             \/ state'[call'[Main].task] = "canceled" /\ call'[Main].to \in {"running", "canceled"}
  <2>. DEFINE t == call'[Main].task
  <2>1. t \in Tasks
    BY <1>0, <1>1 DEF TypeOK, Call
  <2>2. CASE state' = state /\ CanTransition(state[t], call'[Main].to)
    BY <2>2
  <2>3. CASE call'[Main] = call[Main] /\ state'[t] = state[t]
    BY <1>0, <1>3, <2>3 DEF WriteStillLegal
  <2>4. CASE call'[Main] = call[Main] /\ state'[t] # state[t]
    <3>1. state[t] = "pending" /\ state'[t] = "canceled"
      BY <1>0, <1>1, <1>3, <2>1, <2>4 DEF TaskEffect, WrittenBy
    <3>2. CanTransition("pending", call[Main].to)
      BY <1>0, <1>3, <2>4, <3>1 DEF WriteStillLegal
    <3>. QED
      BY <2>4, <3>1, <3>2 DEF CanTransition
  <2>. QED
    BY <1>0, <1>1, <1>3, <2>2, <2>3, <2>4 DEF CallEffect
<1>4. ASSUME call'[Main].pc = "sweepWrite"
      PROVE  \/ CanTransition(state'[call'[Main].task], "canceled")
             \/ state'[call'[Main].task] = "canceled"
  <2>. DEFINE t == call'[Main].task
  <2>1. t \in Tasks
    BY <1>0, <1>1 DEF TypeOK, Call
  <2>2. CASE state' = state /\ CanTransition(state[t], "canceled")
    BY <2>2
  <2>3. CASE call'[Main] = call[Main] /\ state'[t] = state[t]
    BY <1>0, <1>4, <2>3 DEF WriteStillLegal
  <2>4. CASE call'[Main] = call[Main] /\ state'[t] # state[t]
    BY <1>0, <1>1, <1>4, <2>1, <2>4 DEF TaskEffect, WrittenBy
  <2>. QED
    BY <1>0, <1>1, <1>4, <2>2, <2>3, <2>4 DEF CallEffect
<1>. QED
  BY <1>0, <1>2, <1>3, <1>4 DEF LegalChange, WriteStillLegal

\* With one command at a time every change is a transition of the life cycle:
\* done, failed and canceled are final.
THEOREM SerialLifecycle == ASSUME Remote = {} PROVE Spec => LifecycleRespected
<1>1. Init => WriteStillLegal
  BY WriteStillLegalInit
<1>2. TypeOK /\ WriteStillLegal /\ [Next]_vars => WriteStillLegal' /\ [LegalChange]_vars
  BY SerialStep
<1>3. [LegalChange]_vars =>
        [\A t \in Tasks : state'[t] # state[t] => CanTransition(state[t], state'[t])]_vars
  BY DEF LegalChange
<1>. QED
  BY <1>1, <1>2, <1>3, Typing, PTL DEF Spec, LifecycleRespected

\* With one command at a time no task ever works on a dependency that is not
\* settled in its favour.
THEOREM SerialOrder == ASSUME Remote = {} PROVE Spec => []DepsRespected
<1>1. Init => WriteStillLegal /\ UnblockedReady
  BY WriteStillLegalInit DEF Init, UnblockedReady, DepsAllDone, Edges
<1>2. TypeOK /\ WriteStillLegal /\ UnblockedReady /\ [Next]_vars
        => WriteStillLegal' /\ UnblockedReady'
  <2>. SUFFICES ASSUME TypeOK, WriteStillLegal, UnblockedReady, [Next]_vars
                PROVE  WriteStillLegal' /\ UnblockedReady'
    OBVIOUS
  <2>1. LegalChange /\ WriteStillLegal'
    BY SerialStep
  <2>2. FlagsEffect
    BY StepEffect DEF Effect
  <2>3. ASSUME NEW t \in Tasks, state[t] \in Terminal PROVE state'[t] = state[t]
    BY <2>1, <2>3 DEF LegalChange, CanTransition, Terminal, Dropped
  <2>4. ASSUME NEW t \in Tasks, DepsAllDone(state, t) PROVE DepsAllDone(state', t)
    <3>1. \A e \in Edges : e[2] \in Tasks
      BY EdgesOverTasks
    <3>. QED
      BY <2>3, <2>4, <3>1 DEF DepsAllDone, Edges, Terminal
  <2>5. ASSUME NEW t \in Tasks, ~blocked'[t] PROVE DepsAllDone(state', t)
    BY <2>2, <2>4, <2>5 DEF FlagsEffect, UnblockedReady
  <2>6. UnblockedReady'
    BY <2>5 DEF UnblockedReady, DepsAllDone
  <2>. QED
    BY <2>1, <2>6
<1>3. LaunchGate /\ UnblockedReady => DepsRespected
  BY DEF LaunchGate, UnblockedReady, DepsRespected
<1>. QED
  BY <1>1, <1>2, <1>3, Typing, GateHolds, PTL DEF Spec

----------------------------------------------------------------------------
\* The record of the run.

\* A run is closed by a cancel or with the verdict of the tasks as the step
\* leaves them (maybe_finalize_run, in the transaction of the hook).
RunEffect ==
  \/ run' = run
  \/ run = "running" /\ run' = "canceled" /\ call[Main].pc = "idle" /\ state' = state
  \/ run' = FinalStatus(state', run)

\* Every step is one of those.
LEMMA StepRunEffect == TypeOK /\ [Next]_vars => RunEffect
<1>. SUFFICES ASSUME TypeOK, [Next]_vars PROVE RunEffect
  OBVIOUS
<1>1. ASSUME NEW t \in Tasks, \/ \E to \in States : SetStateCommand(t, to)
                              \/ MarkReady(t) \/ CancelCommand(t)
                              \/ \E th \in Remote : RemoteReady(th, t) \/ RemoteCancel(th, t)
      PROVE  run' = run
  BY <1>1 DEF SetStateCommand, MarkReady, CancelCommand, RemoteReady, RemoteCancel, SetStateRead
<1>2. ASSUME NEW t \in Tasks, ClaimForLaunch(t) \/ SweepRead(t) PROVE run' = run
  BY <1>2 DEF ClaimForLaunch, SweepRead
<1>3. ASSUME NEW th \in Threads, SetStateWrite(th) PROVE run' = run
  BY <1>3 DEF SetStateWrite
<1>4. ASSUME \/ LaunchDone \/ LaunchFailed \/ ListRunTasks \/ SweepWrite \/ SweepDone
             \/ ReconcileList \/ Crash \/ UNCHANGED vars
      PROVE  run' = run
  BY <1>4 DEF LaunchDone, LaunchFailed, SetStateRead, ListRunTasks, SweepWrite, SweepDone,
              ReconcileList, Crash, vars
<1>5. CASE MarkRunCanceled
  BY <1>5 DEF MarkRunCanceled, MainIdle, RunEffect
<1>6. ASSUME NEW th \in Threads, OnTaskSettled(th) PROVE RunEffect
  BY <1>6 DEF OnTaskSettled, RunEffect
<1>7. CASE ReconcileRun
  BY <1>7 DEF ReconcileRun, RunEffect
<1>. QED
  BY <1>1, <1>2, <1>3, <1>4, <1>5, <1>6, <1>7 DEF Next, HookedNext, UnhookedEnd, Scheduler, RunEffect

\* While pipeline_cancel sweeps, what it has not reached is on its list.
SweepInv ==
  call[Main].pc \in {"sweep", "sweepWrite"} =>
    \A t \in Tasks : state[t] \in {"pending", "running"} =>
      t \in todo \/ (call[Main].pc = "sweepWrite" /\ call[Main].task = t)

\* With one command at a time nothing is launched behind the sweep.
LEMMA SweepStep ==
  ASSUME Remote = {}, TypeOK, WriteStillLegal, SweepInv, [Next]_vars
  PROVE  SweepInv'
<1>0. Threads = {Main}
  BY DEF Threads
<1>1. LegalChange
  BY SerialStep
<1>2. \A t \in Tasks : state'[t] \in {"pending", "running"} => state[t] \in {"pending", "running"}
  BY <1>1 DEF LegalChange, CanTransition
<1>. USE <1>0, <1>2, IdlePc DEF SweepInv
<1>3. ASSUME NEW t \in Tasks, NEW to, NEW h, SetStateRead(Main, t, to, h) PROVE SweepInv'
  <2>. DEFINE c == [pc |-> "write", task |-> t, to |-> to, hooked |-> h]
  <2>1. c.pc = "write" /\ AfterSet(c).pc \in {"idle", "hook"}
    BY DEF AfterSet
  <2>2. call'[Main] \in {c, AfterSet(c)}
    BY <1>3 DEF SetStateRead, TypeOK
  <2>. QED
    BY <2>1, <2>2
<1>4. ASSUME NEW t \in Tasks, ClaimForLaunch(t) PROVE SweepInv'
  <2>1. call'[Main].pc = "launch"
    BY <1>4 DEF ClaimForLaunch, TypeOK, Idle
  <2>. QED
    BY <2>1
<1>5. ASSUME NEW t \in Tasks, SweepRead(t) PROVE SweepInv'
  <2>1. CASE CanTransition(state[t], "canceled")
    <3>1. call'[Main].pc = "sweepWrite" /\ call'[Main].task = t
      BY <1>5, <2>1 DEF SweepRead, TypeOK, Idle
    <3>. QED
      BY <1>5, <3>1 DEF SweepRead
  <2>2. CASE ~CanTransition(state[t], "canceled")
    <3>1. state[t] \notin {"pending", "running"}
      BY <2>2 DEF CanTransition
    <3>. QED
      BY <1>5, <2>2, <3>1 DEF SweepRead
  <2>. QED
    BY <2>1, <2>2
<1>6. ASSUME SetStateWrite(Main) PROVE SweepInv'
  <2>1. call'[Main] = AfterSet(call[Main])
    BY <1>6 DEF SetStateWrite, TypeOK
  <2>2. AfterSet(call[Main]).pc \in {"idle", "hook"}
    BY AfterSetPc DEF TypeOK
  <2>. QED
    BY <2>1, <2>2
<1>7. CASE LaunchDone \/ SweepDone \/ Crash
  <2>1. call'[Main] = Idle
    BY <1>7 DEF LaunchDone, SweepDone, Crash, TypeOK
  <2>. QED
    BY <2>1
<1>8. CASE LaunchFailed
  BY <1>3, <1>8 DEF LaunchFailed, TypeOK, Call
<1>9. CASE MarkRunCanceled
  <2>1. call'[Main].pc = "list"
    BY <1>9 DEF MarkRunCanceled, TypeOK, Idle
  <2>. QED
    BY <2>1
<1>10. CASE ListRunTasks
  BY <1>10 DEF ListRunTasks
<1>11. CASE SweepWrite
  <2>1. call'[Main].pc = "sweep" /\ call[Main].pc = "sweepWrite" /\ todo' = todo
    BY <1>11 DEF SweepWrite, TypeOK, Idle
  <2>2. \A t \in Tasks : call[Main].task = t => state'[t] = "canceled"
    BY <1>11 DEF SweepWrite, TypeOK
  <2>. QED
    BY <2>1, <2>2
<1>12. ASSUME OnTaskSettled(Main) PROVE SweepInv'
  <2>1. call'[Main] = Idle
    BY <1>12 DEF OnTaskSettled, TypeOK
  <2>. QED
    BY <2>1
<1>13. CASE ReconcileList \/ ReconcileRun \/ UNCHANGED vars
  <2>1. call' = call /\ todo' = todo
    BY <1>13 DEF ReconcileList, ReconcileRun, vars
  <2>. QED
    BY <2>1
<1>. QED
  BY <1>3, <1>4, <1>5, <1>6, <1>7, <1>8, <1>9, <1>10, <1>11, <1>12, <1>13
     DEF Next, HookedNext, UnhookedEnd, Scheduler, SetStateCommand, MarkReady, CancelCommand

\* With one command at a time what the record of a run says of its tasks is
\* true: done, failed, and canceled once the sweep is through.
THEOREM SerialRecord == ASSUME Remote = {} PROVE Spec => []RecordOfRunIsTrue
<1>. DEFINE Inv == WriteStillLegal /\ VerdictTrue /\ SweepInv
<1>1. Init => Inv
  BY WriteStillLegalInit, IdlePc DEF Init, VerdictTrue, SweepInv, Threads
<1>2. TypeOK /\ Inv /\ [Next]_vars => Inv'
  <2>. SUFFICES ASSUME TypeOK, Inv, [Next]_vars PROVE Inv'
    OBVIOUS
  <2>1. LegalChange /\ WriteStillLegal' /\ SweepInv'
    BY SerialStep, SweepStep
  <2>2. RunEffect
    BY StepRunEffect
  <2>3. ASSUME NEW t \in Tasks, state[t] \in Terminal PROVE state'[t] = state[t]
    BY <2>1, <2>3 DEF LegalChange, CanTransition, Terminal, Dropped
  <2>4. ASSUME run' = run PROVE VerdictTrue'
    BY <2>3, <2>4 DEF VerdictTrue, Terminal
  <2>5. ASSUME run' = "canceled" PROVE VerdictTrue'
    BY <2>5 DEF VerdictTrue
  <2>6. ASSUME run' = FinalStatus(state', run), run' # run PROVE VerdictTrue'
    BY <2>6 DEF FinalStatus, VerdictTrue
  <2>. QED
    BY <2>1, <2>2, <2>4, <2>5, <2>6 DEF RunEffect
<1>3. Inv => RecordOfRunIsTrue
  BY DEF SweepInv, RecordOfRunIsTrue, SweepLeavesNothingRunning
<1>. QED
  BY <1>1, <1>2, <1>3, Typing, PTL DEF Spec

----------------------------------------------------------------------------
\* The graph settles.

\* Nobody continues on the error of a task that a cascade may skip.  The hook
\* looks again at the dependents of the task that ended, not at those of the
\* tasks it skipped (unblock_ready_dependents_in_tx): PipelineDag_continue
\* shows what is left undone without this.
NoContinueOnSkipped == \A e \in ContinueEdges, f \in BlockEdges : e[2] # f[1]

\* The main thread is about to run the scheduler's hook for t.
Owed(t) == call[Main].pc = "hook" /\ call[Main].task = t

\* Only set_state of orchestration_set_state ends a task of a running run.
HookInv ==
  /\ call[Main].pc = "hook" =>
       call[Main].to \in Terminal /\ state[call[Main].task] = call[Main].to
  /\ call[Main].pc = "write" => call[Main].hooked \/ call[Main].to \notin Terminal
  /\ call[Main].pc \in {"list", "sweep", "sweepWrite"} => run # "running"

\* Whatever the graph has still to do is what the next hook, or the boot, does.
DebtIsOwed ==
  run = "running" /\ boot = "done" =>
    /\ \A e \in BlockEdges : state[e[1]] = "pending" /\ state[e[2]] \in Dropped => Owed(e[2])
    /\ \A t \in Tasks : state[t] = "pending" /\ blocked[t] /\ DepsAllDone(state, t) =>
         \E d \in Tasks : Owed(d) /\ t \in Dependents(d)
    /\ (\A t \in Tasks : state[t] \in Terminal) => \E d \in Tasks : Owed(d)

\* What the search skips is closed: nothing pending is left behind it.
LEMMA SkippedIsClosed ==
  ASSUME NEW s \in [Tasks -> States], NEW roots, NEW e \in BlockEdges,
         e[2] \in roots \cup Skipped(s, roots), s[e[1]] = "pending"
  PROVE  e[1] \in Skipped(s, roots)
<1>1. e[1] \in Pending(s)
  BY EdgesOverTasks DEF Edges, Pending
<1>2. ASSUME NEW C \in SUBSET Pending(s), ClosedUnderSkip(s, roots, C) PROVE e[1] \in C
  <2>1. e[2] \in roots \cup C
    BY <1>2 DEF Skipped
  <2>. QED
    BY <1>2, <2>1 DEF ClosedUnderSkip
<1>. QED
  BY <1>1, <1>2 DEF Skipped

\* After a cascade from every dropped task with a pending dependent, none is left.
LEMMA CascadeCloses ==
  ASSUME NEW s \in [Tasks -> States], NEW roots,
         \A e \in BlockEdges : s[e[1]] = "pending" /\ s[e[2]] \in Dropped => e[2] \in roots,
         NEW e \in BlockEdges, CascadeCancel(s, roots)[e[1]] = "pending"
  PROVE  CascadeCancel(s, roots)[e[2]] \notin Dropped
<1>1. e[1] \in Tasks /\ e[2] \in Tasks
  BY EdgesOverTasks DEF Edges
<1>2. s[e[1]] = "pending" /\ e[1] \notin Skipped(s, roots)
  BY <1>1 DEF CascadeCancel
<1>3. e[2] \notin roots \cup Skipped(s, roots)
  BY <1>2, SkippedIsClosed
<1>. QED
  BY <1>1, <1>2, <1>3 DEF CascadeCancel

\* A cascade makes no task ready: who waits on a skipped task needs it done.
LEMMA CascadeReadiesNobody ==
  ASSUME NoContinueOnSkipped, NEW s \in [Tasks -> States], NEW roots, NEW t \in Tasks,
         DepsAllDone(CascadeCancel(s, roots), t)
  PROVE  DepsAllDone(s, t)
<1>1. ASSUME NEW e \in BlockEdges, e[1] = t PROVE s[e[2]] = "done"
  <2>1. e[2] \in Tasks /\ CascadeCancel(s, roots)[e[2]] = "done"
    BY <1>1, EdgesOverTasks DEF Edges, DepsAllDone
  <2>. QED
    BY <2>1, CascadeEffect
<1>2. ASSUME NEW e \in ContinueEdges, e[1] = t PROVE s[e[2]] \in Terminal
  <2>1. e[2] \in Tasks /\ CascadeCancel(s, roots)[e[2]] \in Terminal
    BY <1>2, EdgesOverTasks DEF Edges, DepsAllDone
  <2>2. e[2] \notin Skipped(s, roots)
    <3>1. ASSUME NEW d, <<e[2], d>> \in BlockEdges PROVE FALSE
      BY <3>1 DEF NoContinueOnSkipped
    <3>. QED
      BY <3>1, SkippedHasReason
  <2>. QED
    BY <2>1, <2>2 DEF CascadeCancel
<1>. QED
  BY <1>1, <1>2 DEF DepsAllDone

\* A write that ends no task makes no task ready either.
LEMMA WriteReadiesNobody ==
  ASSUME TypeOK, NEW x \in Tasks, NEW to \in States \ Terminal, NEW t \in Tasks,
         DepsAllDone([state EXCEPT ![x] = to], t)
  PROVE  DepsAllDone(state, t)
<1>1. \A e \in Edges : e[2] \in Tasks
  BY EdgesOverTasks
<1>. QED
  BY <1>1 DEF DepsAllDone, TypeOK, Edges, Terminal

\* What the transaction of the hook, or of the boot, leaves: no pending task is
\* doomed, and no ready one blocked, if those it did not look at were not ready.
LEMMA SettledBy ==
  ASSUME NoContinueOnSkipped,
         NEW s \in [Tasks -> States], NEW b \in [Tasks -> BOOLEAN], NEW roots, NEW among,
         \A e \in BlockEdges : s[e[1]] = "pending" /\ s[e[2]] \in Dropped => e[2] \in roots,
         \A t \in Tasks \ among : s[t] = "pending" /\ b[t] => ~DepsAllDone(s, t)
  PROVE  LET c == CascadeCancel(s, roots) IN
         /\ \A e \in BlockEdges : c[e[1]] = "pending" => c[e[2]] \notin Dropped
         /\ \A t \in Tasks : c[t] = "pending" /\ Unblock(c, b, among)[t] => ~DepsAllDone(c, t)
<1>. DEFINE c == CascadeCancel(s, roots)
<1>1. ASSUME NEW t \in Tasks, c[t] = "pending", Unblock(c, b, among)[t], DepsAllDone(c, t)
      PROVE  FALSE
  <2>1. b[t] /\ t \notin among
    BY <1>1, Zenon DEF Unblock
  <2>2. s[t] = "pending"
    BY <1>1, CascadeEffect
  <2>. QED
    BY <1>1, <2>1, <2>2, CascadeReadiesNobody
<1>. QED
  BY <1>1, CascadeCloses

\* The steps that go through the hook are steps of the specification.
LEMMA HookedIsNext == [HookedNext]_vars => [Next]_vars
BY DEF Next

\* What the hook runs on is a task that has ended, in the state it was told.
LEMMA HookStep ==
  ASSUME Remote = {}, TypeOK, WriteStillLegal, HookInv, [HookedNext]_vars
  PROVE  HookInv'
<1>0. Threads = {Main}
  BY DEF Threads
<1>1. LegalChange /\ TypeOK' /\ RunEffect
  BY SerialStep, TypingStep, StepRunEffect, HookedIsNext
<1>2. ASSUME NEW t \in Tasks, state[t] \in Terminal PROVE state'[t] = state[t]
  BY <1>1, <1>2 DEF LegalChange, CanTransition, Terminal, Dropped
<1>3. run # "running" => run' # "running"
  BY <1>1 DEF RunEffect, FinalStatus
<1>4. ASSUME call' = call PROVE HookInv'
  BY <1>0, <1>2, <1>3, <1>4 DEF HookInv, TypeOK, Call
<1>5. ASSUME call'[Main].pc \in {"idle", "launch"} PROVE HookInv'
  BY <1>5 DEF HookInv
<1>6. ASSUME NEW t \in Tasks, NEW to \in States, NEW h \in BOOLEAN,
             SetStateRead(Main, t, to, h), h \/ to \notin Terminal
      PROVE  HookInv'
  <2>. DEFINE c == [pc |-> "write", task |-> t, to |-> to, hooked |-> h]
  <2>1. CASE call'[Main] = c
    BY <1>6, <2>1 DEF HookInv
  <2>2. CASE call'[Main] = AfterSet(c) /\ state[t] = to
    <3>1. CASE h /\ to \in Terminal
      <4>1. call'[Main] = [c EXCEPT !.pc = "hook"]
        BY <2>2, <3>1 DEF AfterSet
      <4>. QED
        BY <1>6, <2>2, <3>1, <4>1 DEF HookInv, SetStateRead
    <3>2. CASE ~(h /\ to \in Terminal)
      BY <2>2, <3>2, <1>5, IdlePc DEF AfterSet
    <3>. QED
      BY <3>1, <3>2
  <2>. QED
    BY <1>0, <1>6, <2>1, <2>2 DEF SetStateRead, TypeOK
<1>7. CASE SetStateWrite(Main)
  <2>. DEFINE c == call[Main]
  <2>1. c \in Call /\ c.pc = "write" /\ call'[Main] = AfterSet(c)
    BY <1>0, <1>7 DEF SetStateWrite, TypeOK
  <2>2. CASE c.hooked /\ c.to \in Terminal
    <3>1. call'[Main].pc = "hook" /\ call'[Main].to = c.to /\ call'[Main].task = c.task
      BY <2>1, <2>2 DEF AfterSet, Call
    <3>2. state'[c.task] = c.to
      BY <1>7, <2>1, <2>2 DEF SetStateWrite, TypeOK, Call, Terminal, Dropped
    <3>. QED
      BY <2>2, <3>1, <3>2 DEF HookInv
  <2>3. CASE ~(c.hooked /\ c.to \in Terminal)
    BY <2>1, <2>3, <1>5, IdlePc DEF AfterSet
  <2>. QED
    BY <2>2, <2>3
<1>8. ASSUME NEW t \in Tasks, SweepRead(t) PROVE HookInv'
  <2>1. call'[Main].pc \in {"sweep", "sweepWrite"} /\ call[Main].pc = "sweep"
    BY <1>0, <1>8 DEF SweepRead, TypeOK, Idle
  <2>. QED
    BY <1>3, <2>1 DEF HookInv
<1>9. CASE MarkRunCanceled
  <2>1. call'[Main].pc = "list" /\ run' # "running"
    BY <1>0, <1>9 DEF MarkRunCanceled, TypeOK, Idle
  <2>. QED
    BY <2>1 DEF HookInv
<1>10. CASE ListRunTasks \/ SweepWrite
  <2>1. call'[Main].pc = "sweep" /\ call[Main].pc \in {"list", "sweepWrite"}
    BY <1>0, <1>10 DEF ListRunTasks, SweepWrite, TypeOK, Idle
  <2>. QED
    BY <1>3, <2>1 DEF HookInv
<1>11. ASSUME NEW t \in Tasks, ClaimForLaunch(t) PROVE HookInv'
  <2>1. call'[Main].pc = "launch"
    BY <1>0, <1>11 DEF ClaimForLaunch, TypeOK, Idle
  <2>. QED
    BY <2>1, <1>5
<1>12. CASE LaunchDone \/ SweepDone \/ Crash \/ OnTaskSettled(Main)
  <2>1. call'[Main] = Idle
    BY <1>0, <1>12 DEF LaunchDone, SweepDone, Crash, OnTaskSettled, TypeOK
  <2>. QED
    BY <2>1, <1>5, IdlePc
<1>13. CASE ReconcileList \/ ReconcileRun \/ UNCHANGED vars
  BY <1>4, <1>13 DEF ReconcileList, ReconcileRun, vars
<1>14. ASSUME NEW t \in Tasks, (\E to \in States : SetStateCommand(t, to)) \/ MarkReady(t)
       PROVE  HookInv'
  BY <1>6, <1>14 DEF SetStateCommand, MarkReady, States, Terminal, Dropped
<1>. QED
  BY <1>0, <1>7, <1>8, <1>9, <1>10, <1>11, <1>12, <1>13, <1>14
     DEF HookedNext, Scheduler

\* Every step either settles what it disturbs or leaves it to the hook it owes.
LEMMA DebtStep ==
  ASSUME Remote = {}, NoContinueOnSkipped, TypeOK, WriteStillLegal, HookInv,
         DebtIsOwed, [HookedNext]_vars
  PROVE  DebtIsOwed'
<1>0. Threads = {Main} /\ TypeOK'
  BY TypingStep, HookedIsNext DEF Threads
<1>. DEFINE Quiet ==
       /\ state' = state /\ blocked' = blocked
       /\ run' = "running" /\ boot' = "done" => run = "running" /\ boot = "done"
       /\ call[Main].pc = "hook" => call'[Main] = call[Main] \/ boot' # "done"
<1>1. ASSUME Quiet PROVE DebtIsOwed'
  BY <1>1 DEF DebtIsOwed, Owed, DepsAllDone
<1>2. ASSUME NEW x \in Tasks, NEW to \in States \ Terminal, call[Main].pc # "hook",
             state' = [state EXCEPT ![x] = to], to # "pending", UNCHANGED <<blocked, run, boot>>
      PROVE  DebtIsOwed'
  <2>. SUFFICES ASSUME run = "running", boot = "done" PROVE DebtIsOwed'
    BY <1>2 DEF DebtIsOwed
  <2>1. ASSUME NEW e \in BlockEdges, state'[e[1]] = "pending", state'[e[2]] \in Dropped
        PROVE  FALSE
    <3>1. e[1] \in Tasks /\ e[2] \in Tasks
      BY EdgesOverTasks DEF Edges
    <3>. QED
      BY <1>2, <2>1, <3>1 DEF DebtIsOwed, Owed, TypeOK, Terminal
  <2>2. ASSUME NEW t \in Tasks, state'[t] = "pending", blocked[t], DepsAllDone(state', t)
        PROVE  FALSE
    <3>1. state[t] = "pending" /\ DepsAllDone(state, t)
      BY <1>2, <2>2, WriteReadiesNobody DEF TypeOK
    <3>. QED
      BY <1>2, <2>2, <3>1 DEF DebtIsOwed, Owed
  <2>3. state'[x] \notin Terminal
    BY <1>2 DEF TypeOK
  <2>. QED
    BY <1>2, <2>1, <2>2, <2>3 DEF DebtIsOwed, DepsAllDone
<1>3. ASSUME NEW x \in Tasks, NEW to \in Terminal, call[Main].pc # "hook",
             state' = [state EXCEPT ![x] = to], UNCHANGED <<blocked, run, boot>>, Owed(x)'
      PROVE  DebtIsOwed'
  <2>. SUFFICES ASSUME run = "running", boot = "done" PROVE DebtIsOwed'
    BY <1>3 DEF DebtIsOwed
  <2>1. ASSUME NEW e \in BlockEdges, state'[e[1]] = "pending", state'[e[2]] \in Dropped
        PROVE  e[2] = x
    <3>1. e[1] \in Tasks /\ e[2] \in Tasks
      BY EdgesOverTasks DEF Edges
    <3>. QED
      BY <1>3, <2>1, <3>1 DEF DebtIsOwed, Owed, TypeOK, Terminal, Dropped
  <2>2. ASSUME NEW t \in Tasks, state'[t] = "pending", blocked[t], DepsAllDone(state', t)
        PROVE  t \in Dependents(x)
    <3>1. state[t] = "pending" /\ ~DepsAllDone(state, t)
      BY <1>3, <2>2 DEF DebtIsOwed, Owed, TypeOK, Terminal, Dropped
    <3>2. PICK e \in Edges : e[1] = t /\ state'[e[2]] # state[e[2]]
      BY <2>2, <3>1 DEF DepsAllDone, Edges
    <3>3. e \in Tasks \X Tasks /\ e = <<t, x>>
      BY <1>3, <3>2, EdgesOverTasks DEF TypeOK
    <3>. QED
      BY <3>2, <3>3 DEF Dependents
  <2>. QED
    BY <1>3, <2>1, <2>2 DEF DebtIsOwed, DepsAllDone, Owed, Dependents
<1>4. ASSUME NEW roots, NEW among,
             \A e \in BlockEdges : state[e[1]] = "pending" /\ state[e[2]] \in Dropped
                                     => e[2] \in roots,
             \A t \in Tasks \ among : state[t] = "pending" /\ blocked[t]
                                        => ~DepsAllDone(state, t),
             state' = CascadeCancel(state, roots), blocked' = Unblock(state', blocked, among),
             run' = FinalStatus(state', run)
      PROVE  DebtIsOwed'
  <2>1. /\ \A e \in BlockEdges : state'[e[1]] = "pending" => state'[e[2]] \notin Dropped
        /\ \A t \in Tasks : state'[t] = "pending" /\ blocked'[t] => ~DepsAllDone(state', t)
    BY <1>4, SettledBy DEF TypeOK
  <2>2. run' = "running" => \E t \in Tasks : state'[t] \notin Terminal
    BY <1>4 DEF FinalStatus
  <2>. QED
    BY <2>1, <2>2 DEF DebtIsOwed, DepsAllDone
<1>5. ASSUME NEW t \in Tasks, \/ \E to \in States : SetStateCommand(t, to)
                              \/ MarkReady(t) \/ SweepRead(t)
      PROVE  DebtIsOwed'
  BY <1>1, <1>5 DEF SetStateCommand, MarkReady, SetStateRead, SweepRead, MainIdle
<1>6. CASE \/ LaunchDone \/ MarkRunCanceled \/ ListRunTasks \/ SweepDone
           \/ ReconcileList \/ Crash \/ UNCHANGED vars
  <2>1. Quiet
    BY <1>6 DEF LaunchDone, MarkRunCanceled, ListRunTasks, SweepDone, ReconcileList, Crash,
                MainIdle, vars
  <2>. QED
    BY <1>1, <2>1
<1>7. ASSUME NEW t \in Tasks, ClaimForLaunch(t) PROVE DebtIsOwed'
  <2>1. "running" \in States \ Terminal
    BY DEF States, Terminal, Dropped
  <2>. QED
    BY <1>2, <1>7, <2>1 DEF ClaimForLaunch, MainIdle
<1>8. CASE SetStateWrite(Main)
  <2>. DEFINE c == call[Main]
  <2>1. c \in Call /\ c.pc = "write" /\ call'[Main] = AfterSet(c)
    BY <1>0, <1>8 DEF SetStateWrite, TypeOK
  <2>2. c.task \in Tasks /\ c.to \in States /\ UNCHANGED <<blocked, run, boot>>
    BY <1>8, <2>1 DEF Call, SetStateWrite
  <2>3. CASE state' = state
    BY <1>1, <2>1, <2>2, <2>3
  <2>4. CASE state' = [state EXCEPT ![c.task] = c.to] /\ c.to \notin Terminal
    <3>1. c.to # "pending"
      BY <1>0, <2>1 DEF WriteStillLegal, CanTransition
    <3>. QED
      BY <1>2, <2>1, <2>2, <2>4, <3>1
  <2>5. CASE state' = [state EXCEPT ![c.task] = c.to] /\ c.to \in Terminal
    <3>1. c.hooked
      BY <2>1, <2>5 DEF HookInv
    <3>2. call'[Main].pc = "hook" /\ call'[Main].task = c.task
      BY <2>1, <2>5, <3>1 DEF AfterSet, Call
    <3>. QED
      BY <1>3, <2>1, <2>2, <2>5, <3>2 DEF Owed
  <2>. QED
    BY <1>8, <2>3, <2>4, <2>5 DEF SetStateWrite
<1>9. CASE SweepWrite
  BY <1>9 DEF SweepWrite, HookInv, DebtIsOwed
<1>10. CASE OnTaskSettled(Main)
  <2>. DEFINE t == call[Main].task
              roots == IF call[Main].to \in Dropped THEN {t} ELSE {}
  <2>1. call[Main].pc = "hook" /\ t \in Tasks /\ state[t] = call[Main].to /\ boot' = boot
    BY <1>0, <1>10 DEF OnTaskSettled, HookInv, TypeOK, Call
  <2>2. CASE run # "running" \/ boot # "done"
    <3>1. run' # "running" \/ boot' # "done"
      BY <1>10, <2>1, <2>2 DEF OnTaskSettled
    <3>. QED
      BY <3>1 DEF DebtIsOwed
  <2>3. CASE run = "running" /\ boot = "done"
    <3>1. /\ \A e \in BlockEdges : state[e[1]] = "pending" /\ state[e[2]] \in Dropped
                                     => e[2] \in roots
          /\ \A u \in Tasks \ Dependents(t) : state[u] = "pending" /\ blocked[u]
                                                => ~DepsAllDone(state, u)
      BY <2>1, <2>3 DEF DebtIsOwed, Owed
    <3>2. CascadeCancel(state, {}) = state
      <4>1. Skipped(state, {}) = {}
        BY DEF Skipped, ClosedUnderSkip
      <4>. QED
        BY <4>1 DEF CascadeCancel, TypeOK
    <3>3. /\ state' = CascadeCancel(state, roots)
          /\ blocked' = Unblock(state', blocked, Dependents(t))
          /\ run' = FinalStatus(state', run)
      BY <1>10, <2>3, <3>2 DEF OnTaskSettled
    <3>. QED
      BY <1>4, <3>1, <3>3
  <2>. QED
    BY <2>2, <2>3
<1>11. CASE ReconcileRun
  <2>. DEFINE roots == {t \in Tasks : state[t] \in Dropped}
  <2>1. \A e \in BlockEdges : state[e[2]] \in Dropped => e[2] \in roots
    BY EdgesOverTasks DEF Edges
  <2>2. /\ state' = CascadeCancel(state, roots)
        /\ blocked' = Unblock(state', blocked, Tasks)
        /\ run' = FinalStatus(state', run)
    BY <1>11 DEF ReconcileRun
  <2>. QED
    BY <1>4, <2>1, <2>2
<1>. QED
  BY <1>0, <1>5, <1>6, <1>7, <1>8, <1>9, <1>10, <1>11
     DEF HookedNext, Scheduler

\* With one command at a time, every end of a task reported to the scheduler
\* and no continuation of a task that can be skipped, an idle application has
\* nothing left to reconcile: nobody waits for what will not come.
THEOREM SerialSettles ==
  ASSUME Remote = {}, NoContinueOnSkipped
  PROVE  HookedSpec => []NothingLeftToReconcile
<1>. DEFINE Inv == WriteStillLegal /\ HookInv /\ DebtIsOwed
<1>1. Init => Inv
  <2>. SUFFICES ASSUME Init PROVE Inv
    OBVIOUS
  <2>1. Main \in Threads /\ call[Main] = Idle
    BY DEF Init, Threads
  <2>2. HookInv
    BY <2>1, IdlePc DEF HookInv
  <2>3. ASSUME NEW t \in Tasks, blocked[t], DepsAllDone(state, t) PROVE FALSE
    <3>1. PICK e \in Edges : e[1] = t
      BY <2>3 DEF Init
    <3>2. state[e[2]] = "pending"
      BY EdgesOverTasks DEF Init
    <3>. QED
      BY <2>3, <3>1, <3>2 DEF DepsAllDone, Edges, Terminal, Dropped
  <2>4. \A t \in Tasks : state[t] \notin Terminal
    BY DEF Init, Terminal, Dropped
  <2>5. \A e \in BlockEdges : state[e[2]] \notin Dropped
    BY <2>4, EdgesOverTasks DEF Edges, Terminal
  <2>. QED
    BY <2>2, <2>3, <2>4, <2>5, TasksNonEmpty, WriteStillLegalInit DEF DebtIsOwed
<1>2. TypeOK /\ Inv /\ [HookedNext]_vars => Inv'
  BY SerialStep, HookStep, DebtStep, HookedIsNext
<1>3. Inv => NothingLeftToReconcile
  <2>. SUFFICES ASSUME Inv, Quiescent, run = "running"
                PROVE  NothingLeftToReconcile
    BY DEF NothingLeftToReconcile, NoDoomedTaskLeftPending, NoReadyTaskLeftBlocked,
           NoFinishedRunLeftOpen
  <2>1. boot = "done" /\ call[Main].pc # "hook"
    BY DEF Quiescent, Threads
  <2>. QED
    BY <2>1 DEF DebtIsOwed, Owed, NothingLeftToReconcile, NoDoomedTaskLeftPending,
                NoReadyTaskLeftBlocked, NoFinishedRunLeftOpen
<1>. QED
  BY <1>1, <1>2, <1>3, Typing, HookedIsNext, PTL DEF Spec, HookedSpec

=============================================================================
