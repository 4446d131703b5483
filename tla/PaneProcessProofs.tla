------------------------- MODULE PaneProcessProofs -------------------------
(***************************************************************************)
(* Proofs about PaneProcess, for any number of spawning and canceling      *)
(* threads, any bound on the generations, with and without restarts.  The  *)
(* inductive invariant says what the spawn lock and the tokens are for:    *)
(* whoever is inside pty_spawn holds the lock, so the row it registered    *)
(* carries its token until it has spawned, and a wait thread that is about *)
(* to finish a row has seen its process exit.                              *)
(***************************************************************************)
EXTENDS PaneProcess, TLAPS

Inside == {"reap", "reapKill", "register", "spawn", "failed", "check", "context"}

\* Whoever is inside pty_spawn holds the lock of the pane.
LockHeld == \A th \in Threads : call[th].pc \in Inside => lock = th

\* A registered generation is new: its row is still its own, nobody waits on it.
RegisteredIsOwn ==
  \A th \in Threads :
    At(th, "spawn") => /\ call[th].gen \in Gens
                       /\ wait[call[th].gen] = "none"
                       /\ call[th].gen < seq
                       /\ token = call[th].gen
                       /\ status \in {"running", "canceled"}

\* Whoever has installed a session or failed to has a generation.
GenKnown == \A th \in Threads : call[th].pc \in {"failed", "check", "context"} => call[th].gen \in Gens

\* Tokens that have wait threads were handed out before.
WaitedBelowSeq == \A g \in Gens : wait[g] # "none" => g < seq

\* A wait thread finishes the row of a process it has seen exit.
ExitedIsDead == \A g \in Gens : wait[g] = "finish" => g \notin alive

\* A session under a canceled row has somebody who is about to kill it.
CanceledIsDoomed ==
  status = "canceled" /\ sess # 0 =>
    \E th \in Threads : \/ call[th].pc \in {"kill", "reapKill"}
                        \/ call[th].pc \in {"check", "failed"} /\ call[th].gen = sess

IInv == /\ TypeOK /\ LockHeld /\ RegisteredIsOwn /\ GenKnown /\ WaitedBelowSeq
        /\ ExitedIsDead /\ NoLeakedProcess /\ FinishedMeansDead /\ CanceledIsDoomed

----------------------------------------------------------------------------
\* The registry starts empty, and nothing runs.
LEMMA InitIInv == Init => IInv
BY MaxGenType DEF Init, IInv, TypeOK, LockHeld, RegisteredIsOwn, GenKnown, WaitedBelowSeq,
   ExitedIsDead, NoLeakedProcess, FinishedMeansDead, CanceledIsDoomed,
   Calls, Gens, Idle, At, Inside

\* How the calls of the threads change.
LEMMA CallsStep ==
  ASSUME TypeOK, GenKnown, RegisteredIsOwn, [Next]_vars PROVE call' \in [Threads -> Calls]
<1> USE DEF TypeOK, Calls, Idle, At, Goto, Return, Threads
<1>1. ASSUME NEW th \in Spawners, PtySpawn(th) \/ Spawning(th) PROVE call' \in [Threads -> Calls]
  <2>1. CASE Register(th)
    BY <2>1, MaxGenType DEF Register, Gens
  <2>2. CASE PtySpawn(th) \/ Reap(th) \/ ReapKill(th)
    BY <2>2 DEF PtySpawn, Reap, ReapKill
  <2>3. CASE Spawn(th) \/ SpawnFails(th) \/ FailedSpawn(th)
    BY <2>3 DEF Spawn, SpawnFails, FailedSpawn
  <2>4. CASE PostCheck(th) \/ RegisterSessionCtx(th)
    BY <2>4 DEF PostCheck, RegisterSessionCtx
  <2> QED
    BY <1>1, <2>1, <2>2, <2>3, <2>4 DEF Spawning
<1>2. ASSUME NEW th \in Cancellers, CancelRow(th) \/ CancelKill(th) PROVE call' \in [Threads -> Calls]
  BY <1>2 DEF CancelRow, CancelKill, Gens
<1>3. ASSUME NEW g \in Gens, ChildExits(g) \/ Waiting(g) PROVE call' \in [Threads -> Calls]
  BY <1>3 DEF ChildExits, Waiting, WaitPoll, WaitFinish, WaitCapture
<1>4. CASE Restart \/ UNCHANGED vars
  BY <1>4 DEF Restart, vars
<1> QED
  BY <1>1, <1>2, <1>3, <1>4 DEF Next

\* Types are kept by every step.
LEMMA TypingStep == TypeOK /\ GenKnown /\ RegisteredIsOwn /\ [Next]_vars => TypeOK'
<1> SUFFICES ASSUME TypeOK, GenKnown, RegisteredIsOwn, [Next]_vars PROVE TypeOK'
  OBVIOUS
<1>0. call' \in [Threads -> Calls]
  BY CallsStep
<1> USE <1>0, MaxGenType, NoOneIsNoThread DEF TypeOK, Terminal, At, Unlock
<1>1. ASSUME NEW th \in Spawners, PtySpawn(th) \/ Reap(th) \/ ReapKill(th) PROVE TypeOK'
  BY <1>1 DEF PtySpawn, Reap, ReapKill, KillPane, Threads
<1>2. ASSUME NEW th \in Spawners, Register(th) PROVE TypeOK'
  BY <1>2 DEF Register, Gens
<1>3. ASSUME NEW th \in Spawners, Spawn(th) \/ SpawnFails(th) PROVE TypeOK'
  <2>1. call[th].gen \in Gens
    BY <1>3 DEF RegisteredIsOwn, Spawn, SpawnFails, Threads
  <2> QED
    BY <1>3, <2>1 DEF Spawn, SpawnFails, Install
<1>4. ASSUME NEW th \in Spawners, FailedSpawn(th) \/ PostCheck(th) PROVE TypeOK'
  <2>1. sess' \in Gens \cup {0} /\ alive' \subseteq Gens
    BY <1>4 DEF FailedSpawn, PostCheck, KillIfSpawnId
  <2>2. status' \in {status, "failed"} /\ (status = "none" => status' = "none") /\ token' = token
    BY <1>4 DEF FailedSpawn, PostCheck, Runs
  <2>3. lock' \in {lock, NoOne} /\ ctx' = ctx /\ wait' = wait /\ seq' = seq
    BY <1>4 DEF FailedSpawn, PostCheck
  <2> QED
    BY <2>1, <2>2, <2>3
<1>5. ASSUME NEW th \in Spawners, RegisterSessionCtx(th) PROVE TypeOK'
  BY <1>5 DEF RegisterSessionCtx, GenKnown, Threads
<1>6. ASSUME NEW th \in Cancellers, CancelRow(th) \/ CancelKill(th) PROVE TypeOK'
  BY <1>6 DEF CancelRow, CancelKill, KillPane
<1>7. ASSUME NEW g \in Gens, ChildExits(g) \/ Waiting(g) PROVE TypeOK'
  <2>1. CASE ChildExits(g)
    BY <2>1 DEF ChildExits
  <2>2. CASE WaitPoll(g)
    BY <2>2 DEF WaitPoll
  <2>3. CASE WaitFinish(g)
    BY <2>3 DEF WaitFinish, Runs
  <2>4. CASE WaitCapture(g)
    BY <2>4 DEF WaitCapture
  <2> QED
    BY <1>7, <2>1, <2>2, <2>3, <2>4 DEF Waiting
<1>8. CASE Restart
  <2>1. seq' \in 1..(MaxGen + 1) /\ lock' = NoOne
    BY <1>8 DEF Restart
  <2>2. status' = status /\ token' = token /\ sess' = 0 /\ alive' = {} /\ ctx' = 0
    BY <1>8 DEF Restart
  <2>3. wait' \in [Gens -> {"none", "watch", "finish", "capture", "gone"}]
    BY <1>8 DEF Restart
  <2> QED
    BY <2>1, <2>2, <2>3
<1>9. CASE UNCHANGED vars
  BY <1>9 DEF vars
<1> QED
  BY <1>1, <1>2, <1>3, <1>4, <1>5, <1>6, <1>7, <1>8, <1>9 DEF Next, Spawning

\* The lock is taken on the way in and dropped on the way out only.
LEMMA LockStep == TypeOK /\ LockHeld /\ [Next]_vars => LockHeld'
<1> SUFFICES ASSUME TypeOK, LockHeld, [Next]_vars PROVE LockHeld'
  OBVIOUS
<1> USE NoOneIsNoThread DEF TypeOK, Calls, LockHeld, Inside, Idle, At, Goto, Return, Unlock, Threads
<1>1. ASSUME NEW th \in Spawners, PtySpawn(th) \/ Reap(th) \/ ReapKill(th) \/ Register(th) PROVE LockHeld'
  BY <1>1 DEF PtySpawn, Reap, ReapKill, Register
<1>2. ASSUME NEW th \in Spawners, Spawn(th) \/ SpawnFails(th) PROVE LockHeld'
  BY <1>2 DEF Spawn, SpawnFails
<1>3. ASSUME NEW th \in Spawners, FailedSpawn(th) \/ PostCheck(th) \/ RegisterSessionCtx(th) PROVE LockHeld'
  BY <1>3 DEF FailedSpawn, PostCheck, RegisterSessionCtx
<1>4. ASSUME NEW th \in Cancellers, CancelRow(th) \/ CancelKill(th) PROVE LockHeld'
  BY <1>4 DEF CancelRow, CancelKill
<1>5. ASSUME NEW g \in Gens, ChildExits(g) \/ Waiting(g) PROVE LockHeld'
  BY <1>5 DEF ChildExits, Waiting, WaitPoll, WaitFinish, WaitCapture
<1>6. CASE Restart \/ UNCHANGED vars
  BY <1>6 DEF Restart, vars
<1> QED
  BY <1>1, <1>2, <1>3, <1>4, <1>5, <1>6 DEF Next, Spawning

\* Tokens are handed out once, and a registered row stays with its token until
\* it is spawned, because nobody else registers in the meantime.
LEMMA OwnStep ==
  TypeOK /\ LockHeld /\ RegisteredIsOwn /\ WaitedBelowSeq /\ [Next]_vars => RegisteredIsOwn'
<1> SUFFICES ASSUME TypeOK, LockHeld, RegisteredIsOwn, WaitedBelowSeq, [Next]_vars
             PROVE RegisteredIsOwn'
  OBVIOUS
<1> USE DEF TypeOK, LockHeld, RegisteredIsOwn, Inside, Calls, Idle, At, Goto, Return, Threads
<1>1. ASSUME NEW th \in Spawners, PtySpawn(th) \/ Reap(th) \/ ReapKill(th) PROVE RegisteredIsOwn'
  BY <1>1 DEF PtySpawn, Reap, ReapKill
<1>2. ASSUME NEW th \in Spawners, Register(th) PROVE RegisteredIsOwn'
  <2>1. seq \in Gens /\ wait[seq] = "none" /\ seq' = seq + 1 /\ wait' = wait
    BY <1>2, MaxGenType DEF Register, WaitedBelowSeq, Gens
  <2>2. CASE status = "running"
    BY <1>2, <2>1, <2>2 DEF Register, Gens
  <2>3. CASE status # "running"
    BY <1>2, <2>1, <2>3 DEF Register, Gens
  <2> QED
    BY <2>2, <2>3
<1>3. ASSUME NEW th \in Spawners, Spawn(th) \/ SpawnFails(th) PROVE RegisteredIsOwn'
  BY <1>3 DEF Spawn, SpawnFails
<1>4. ASSUME NEW th \in Spawners, FailedSpawn(th) \/ PostCheck(th) \/ RegisterSessionCtx(th)
      PROVE RegisteredIsOwn'
  BY <1>4 DEF FailedSpawn, PostCheck, RegisterSessionCtx
<1>5. ASSUME NEW th \in Cancellers, CancelRow(th) \/ CancelKill(th) PROVE RegisteredIsOwn'
  BY <1>5 DEF CancelRow, CancelKill
<1>6. ASSUME NEW g \in Gens, ChildExits(g) \/ Waiting(g) PROVE RegisteredIsOwn'
  BY <1>6 DEF ChildExits, Waiting, WaitPoll, WaitFinish, WaitCapture, Runs
<1>7. CASE Restart \/ UNCHANGED vars
  BY <1>7 DEF Restart, vars
<1> QED
  BY <1>1, <1>2, <1>3, <1>4, <1>5, <1>6, <1>7 DEF Next, Spawning

\* A call past its registration keeps the generation it was given.
LEMMA GenKnownStep ==
  TypeOK /\ RegisteredIsOwn /\ GenKnown /\ [Next]_vars => GenKnown'
<1> SUFFICES ASSUME TypeOK, RegisteredIsOwn, GenKnown, [Next]_vars PROVE GenKnown'
  OBVIOUS
<1> USE DEF TypeOK, RegisteredIsOwn, GenKnown, Calls, Idle, At, Goto, Return, Threads
<1>1. ASSUME NEW th \in Spawners, PtySpawn(th) \/ Reap(th) \/ ReapKill(th) \/ Register(th)
      PROVE GenKnown'
  BY <1>1 DEF PtySpawn, Reap, ReapKill, Register
<1>2. ASSUME NEW th \in Spawners, Spawn(th) \/ SpawnFails(th) PROVE GenKnown'
  BY <1>2 DEF Spawn, SpawnFails
<1>3. ASSUME NEW th \in Spawners, FailedSpawn(th) \/ PostCheck(th) \/ RegisterSessionCtx(th)
      PROVE GenKnown'
  BY <1>3 DEF FailedSpawn, PostCheck, RegisterSessionCtx
<1>4. ASSUME NEW th \in Cancellers, CancelRow(th) \/ CancelKill(th) PROVE GenKnown'
  BY <1>4 DEF CancelRow, CancelKill
<1>5. ASSUME NEW g \in Gens, ChildExits(g) \/ Waiting(g) PROVE GenKnown'
  BY <1>5 DEF ChildExits, Waiting, WaitPoll, WaitFinish, WaitCapture
<1>6. CASE Restart \/ UNCHANGED vars
  BY <1>6 DEF Restart, vars
<1> QED
  BY <1>1, <1>2, <1>3, <1>4, <1>5, <1>6 DEF Next, Spawning

\* Wait threads start with tokens that have been handed out.
LEMMA WaitedStep ==
  TypeOK /\ RegisteredIsOwn /\ WaitedBelowSeq /\ [Next]_vars => WaitedBelowSeq'
<1> SUFFICES ASSUME TypeOK, RegisteredIsOwn, WaitedBelowSeq, [Next]_vars PROVE WaitedBelowSeq'
  OBVIOUS
<1> USE DEF TypeOK, WaitedBelowSeq, Gens
<1>1. ASSUME NEW th \in Spawners, Spawn(th) PROVE WaitedBelowSeq'
  BY <1>1 DEF Spawn, RegisteredIsOwn, Threads
<1>2. ASSUME NEW th \in Spawners, Register(th) PROVE WaitedBelowSeq'
  BY <1>2 DEF Register
<1>3. ASSUME NEW g \in Gens, Waiting(g) PROVE WaitedBelowSeq'
  BY <1>3 DEF Waiting, WaitPoll, WaitFinish, WaitCapture
<1>4. CASE Restart
  BY <1>4 DEF Restart
<1>5. ASSUME UNCHANGED <<wait, seq>> PROVE WaitedBelowSeq'
  BY <1>5
<1> QED
  BY <1>1, <1>2, <1>3, <1>4, <1>5
     DEF Next, Spawning, PtySpawn, Reap, ReapKill, SpawnFails, FailedSpawn, PostCheck,
         RegisterSessionCtx, CancelRow, CancelKill, ChildExits, vars

----------------------------------------------------------------------------
\* No process outlives its session.
LEMMA LeakStep == TypeOK /\ NoLeakedProcess /\ [Next]_vars => NoLeakedProcess'
<1> SUFFICES ASSUME TypeOK, NoLeakedProcess, [Next]_vars PROVE NoLeakedProcess'
  OBVIOUS
<1> USE DEF TypeOK, NoLeakedProcess
<1>1. ASSUME NEW th \in Spawners, ReapKill(th) \/ Spawn(th) \/ SpawnFails(th)
      PROVE NoLeakedProcess'
  BY <1>1 DEF ReapKill, Spawn, SpawnFails, Install, KillPane
<1>2. ASSUME NEW th \in Spawners, FailedSpawn(th) \/ PostCheck(th) PROVE NoLeakedProcess'
  BY <1>2 DEF FailedSpawn, PostCheck, KillIfSpawnId
<1>3. ASSUME NEW th \in Cancellers, CancelKill(th) PROVE NoLeakedProcess'
  BY <1>3 DEF CancelKill, KillPane
<1>4. ASSUME NEW g \in Gens, ChildExits(g) \/ Waiting(g) PROVE NoLeakedProcess'
  BY <1>4 DEF ChildExits, Waiting, WaitPoll, WaitFinish, WaitCapture
<1>5. CASE Restart
  BY <1>5 DEF Restart
<1>6. ASSUME UNCHANGED <<sess, alive>> PROVE NoLeakedProcess'
  BY <1>6
<1> QED
  BY <1>1, <1>2, <1>3, <1>4, <1>5, <1>6
     DEF Next, Spawning, PtySpawn, Reap, Register, RegisterSessionCtx, CancelRow, vars

\* A wait thread that is about to finish a row has seen the process exit, and
\* its token is never spawned again.
LEMMA ExitedStep == TypeOK /\ RegisteredIsOwn /\ ExitedIsDead /\ [Next]_vars => ExitedIsDead'
<1> SUFFICES ASSUME TypeOK, RegisteredIsOwn, ExitedIsDead, [Next]_vars PROVE ExitedIsDead'
  OBVIOUS
<1> USE DEF TypeOK, ExitedIsDead
<1>1. ASSUME NEW th \in Spawners, Spawn(th) \/ SpawnFails(th) PROVE ExitedIsDead'
  BY <1>1 DEF Spawn, SpawnFails, Install, RegisteredIsOwn, Threads
<1>2. ASSUME NEW g \in Gens, Waiting(g) PROVE ExitedIsDead'
  BY <1>2 DEF Waiting, WaitPoll, WaitFinish, WaitCapture
<1>3. CASE Restart
  BY <1>3 DEF Restart
<1>4. ASSUME alive' \subseteq alive, wait' = wait PROVE ExitedIsDead'
  BY <1>4
<1> QED
  BY <1>1, <1>2, <1>3, <1>4
     DEF Next, Spawning, PtySpawn, Reap, ReapKill, Register, FailedSpawn, PostCheck,
         RegisterSessionCtx, CancelRow, CancelKill, ChildExits, KillPane, KillIfSpawnId, vars

\* Only the wait thread of the very generation, or its failed spawn, finishes a
\* row, and both after the process is dead.
LEMMA FinishedStep == IInv /\ [Next]_vars => FinishedMeansDead'
<1> SUFFICES ASSUME IInv, [Next]_vars PROVE FinishedMeansDead'
  OBVIOUS
<1> USE DEF IInv, FinishedMeansDead, TypeOK
<1>1. ASSUME NEW th \in Spawners, Spawn(th) \/ SpawnFails(th) PROVE FinishedMeansDead'
  BY <1>1 DEF Spawn, SpawnFails, RegisteredIsOwn, Threads
<1>2. ASSUME NEW th \in Spawners, FailedSpawn(th) PROVE FinishedMeansDead'
  BY <1>2 DEF FailedSpawn, KillIfSpawnId, NoLeakedProcess, Runs
<1>3. ASSUME NEW g \in Gens, Waiting(g) PROVE FinishedMeansDead'
  BY <1>3 DEF Waiting, WaitPoll, WaitFinish, WaitCapture, ExitedIsDead, Runs
<1>4. CASE Restart
  BY <1>4 DEF Restart
<1>5. ASSUME alive' \subseteq alive,
             status' \notin {"done", "failed"} \/ UNCHANGED <<status, token>>
      PROVE FinishedMeansDead'
  BY <1>5
<1> QED
  BY <1>1, <1>2, <1>3, <1>4, <1>5
     DEF Next, Spawning, PtySpawn, Reap, ReapKill, Register, PostCheck,
         RegisterSessionCtx, CancelRow, CancelKill, ChildExits, KillPane, KillIfSpawnId, vars

\* The session under a canceled row is always somebody's to kill: the caller
\* that canceled it, or the spawn that will look at the row once it is through.
LEMMA DoomedStep == IInv /\ [Next]_vars => CanceledIsDoomed'
<1> SUFFICES ASSUME IInv, [Next]_vars, status' = "canceled", sess' # 0
             PROVE CanceledIsDoomed'
  BY DEF CanceledIsDoomed
<1> USE DEF IInv, TypeOK, Calls, At, Goto, Return, Idle, Threads, CanceledIsDoomed
<1>1. ASSUME NEW th \in Spawners, PtySpawn(th) \/ Reap(th) PROVE CanceledIsDoomed'
  BY <1>1 DEF PtySpawn, Reap
<1>2. ASSUME NEW th \in Threads, ReapKill(th) \/ CancelKill(th) PROVE CanceledIsDoomed'
  BY <1>2 DEF ReapKill, CancelKill, KillPane
<1>3. ASSUME NEW th \in Spawners, Register(th) PROVE CanceledIsDoomed'
  BY <1>3 DEF Register
<1>4. ASSUME NEW th \in Spawners, Spawn(th) PROVE CanceledIsDoomed'
  <2>1. call'[th].pc = "check" /\ call'[th].gen = sess'
    BY <1>4 DEF Spawn, Install
  <2> QED
    BY <2>1
<1>5. ASSUME NEW th \in Spawners, SpawnFails(th) PROVE CanceledIsDoomed'
  <2>1. CASE Install(call[th].gen)
    <3>1. call'[th].pc = "failed" /\ call'[th].gen = sess'
      BY <1>5, <2>1 DEF SpawnFails, Install
    <3> QED
      BY <3>1
  <2>2. CASE UNCHANGED <<sess, alive, ctx>>
    BY <1>5, <2>2 DEF SpawnFails
  <2> QED
    BY <1>5, <2>1, <2>2 DEF SpawnFails
<1>6. ASSUME NEW th \in Spawners, FailedSpawn(th) \/ PostCheck(th) PROVE CanceledIsDoomed'
  <2>1. status = "canceled" /\ sess = sess' /\ sess # call[th].gen
    BY <1>6 DEF FailedSpawn, PostCheck, KillIfSpawnId, Runs, GenKnown, Gens
  <2>2. PICK j \in Threads : \/ call[j].pc \in {"kill", "reapKill"}
                             \/ call[j].pc \in {"check", "failed"} /\ call[j].gen = sess
    BY <2>1
  <2>3. j # th
    BY <1>6, <2>1, <2>2 DEF FailedSpawn, PostCheck
  <2>4. call'[j] = call[j]
    BY <1>6, <2>3 DEF FailedSpawn, PostCheck
  <2> QED
    BY <2>1, <2>2, <2>4
<1>7. ASSUME NEW th \in Spawners, RegisterSessionCtx(th) PROVE CanceledIsDoomed'
  BY <1>7 DEF RegisterSessionCtx
<1>8. ASSUME NEW th \in Cancellers, CancelRow(th) PROVE CanceledIsDoomed'
  <2>1. call'[th].pc = "kill"
    BY <1>8 DEF CancelRow
  <2> QED
    BY <2>1
<1>9. ASSUME NEW g \in Gens, ChildExits(g) \/ Waiting(g) PROVE CanceledIsDoomed'
  BY <1>9 DEF ChildExits, Waiting, WaitPoll, WaitFinish, WaitCapture
<1>10. CASE Restart \/ UNCHANGED vars
  BY <1>10 DEF Restart, vars
<1> QED
  BY <1>1, <1>2, <1>3, <1>4, <1>5, <1>6, <1>7, <1>8, <1>9, <1>10 DEF Next, Spawning

\* Every step of the pane keeps the inductive invariant.
LEMMA IInvStep == IInv /\ [Next]_vars => IInv'
BY TypingStep, LockStep, OwnStep, GenKnownStep, WaitedStep, LeakStep, ExitedStep, FinishedStep,
   DoomedStep DEF IInv

\* The inductive invariant holds in every reachable state.
LEMMA IInvHolds == Spec => []IInv
BY InitIInv, IInvStep, PTL DEF Spec

----------------------------------------------------------------------------
\* Every state is well typed; a row always carries a token.
THEOREM Typing == Spec => []TypeOK
<1>1. IInv => TypeOK
  BY DEF IInv
<1> QED
  BY <1>1, IInvHolds, PTL

\* No process of the pane outlives its session in the map.
THEOREM NoLeak == Spec => []NoLeakedProcess
<1>1. IInv => NoLeakedProcess
  BY DEF IInv
<1> QED
  BY <1>1, IInvHolds, PTL

\* A row that says done or failed is that of a process that has exited.
THEOREM Finished == Spec => []FinishedMeansDead
<1>1. IInv => FinishedMeansDead
  BY DEF IInv
<1> QED
  BY <1>1, IInvHolds, PTL

\* Once every call has returned a canceled run has no session.
THEOREM Canceled == Spec => []CanceledStaysDead
<1>1. IInv => CanceledStaysDead
  BY DEF IInv, CanceledIsDoomed, CanceledStaysDead, AllIdle, At
<1> QED
  BY <1>1, IInvHolds, PTL

----------------------------------------------------------------------------
(* The running row.  What a cancel of another thread does to it is on record *)
(* as a difference, so that here cancels are those of the thread that spawns *)
(* (commands of the main thread), and the application is not restarted.      *)

CancelsAreSerial == \A c \in Cancellers : Spawners \subseteq {c}

\* Between the end of one row and the start of the next no row is running, and
\* the session of a canceled row is taken by the thread that canceled it.
GapIsNotRunning ==
  \A th \in Threads :
    /\ call[th].pc \in {"reapKill", "register", "kill"} => status # "running"
    /\ call[th].pc = "kill" => th \in Cancellers

\* A running row has its session, is about to have it, or has just lost it.
RunningIsHeld ==
  status = "running" =>
    \/ sess = token \/ wait[token] = "finish"
    \/ \E th \in Threads : call[th].pc \in {"spawn", "failed"} /\ call[th].gen = token

\* Nobody registers a row while another is between two rows.
LEMMA GapStep ==
  ASSUME CancelsAreSerial, IInv, GapIsNotRunning, [Next]_vars
  PROVE  GapIsNotRunning'
<1> USE DEF IInv, TypeOK, Calls, GapIsNotRunning, Idle, At, Goto, Return, Threads
<1>1. ASSUME NEW th \in Spawners, PtySpawn(th) \/ Reap(th) \/ ReapKill(th) PROVE GapIsNotRunning'
  BY <1>1 DEF PtySpawn, Reap, ReapKill
<1>2. ASSUME NEW th \in Spawners, Register(th) PROVE GapIsNotRunning'
  <2>1. ASSUME NEW u \in Threads, u # th PROVE call[u].pc \notin {"reapKill", "register"}
    BY <1>2, <2>1 DEF Register, LockHeld, Inside
  <2>2. ASSUME NEW u \in Threads, u # th, call[u].pc = "kill" PROVE FALSE
    <3>1. u \in Cancellers /\ th \in Spawners
      BY <1>2, <2>2
    <3>2. th = u
      BY <3>1 DEF CancelsAreSerial
    <3> QED
      BY <2>2, <3>2
  <2> QED
    BY <1>2, <2>1, <2>2 DEF Register
<1>3. ASSUME NEW th \in Spawners, Spawn(th) \/ SpawnFails(th) PROVE GapIsNotRunning'
  BY <1>3 DEF Spawn, SpawnFails
<1>4. ASSUME NEW th \in Spawners, FailedSpawn(th) \/ PostCheck(th) \/ RegisterSessionCtx(th)
      PROVE GapIsNotRunning'
  BY <1>4 DEF FailedSpawn, PostCheck, RegisterSessionCtx
<1>5. ASSUME NEW th \in Cancellers, CancelRow(th) \/ CancelKill(th) PROVE GapIsNotRunning'
  BY <1>5 DEF CancelRow, CancelKill
<1>6. ASSUME NEW g \in Gens, ChildExits(g) \/ Waiting(g) PROVE GapIsNotRunning'
  BY <1>6 DEF ChildExits, Waiting, WaitPoll, WaitFinish, WaitCapture
<1>7. CASE Restart \/ UNCHANGED vars
  BY <1>7 DEF Restart, vars
<1> QED
  BY <1>1, <1>2, <1>3, <1>4, <1>5, <1>6, <1>7 DEF Next, Spawning

\* The session of a running row is only taken by the wait thread that finishes
\* the row, and a spawn that fails finishes its own.
LEMMA HeldStep ==
  ASSUME ~Restarts, IInv, GapIsNotRunning, RunningIsHeld, [Next]_vars
  PROVE  RunningIsHeld'
<1> USE DEF IInv, TypeOK, Calls, GapIsNotRunning, RunningIsHeld, Idle, At, Goto, Return, Threads
<1>1. ASSUME NEW th \in Spawners, PtySpawn(th) \/ Reap(th) PROVE RunningIsHeld'
  BY <1>1 DEF PtySpawn, Reap
<1>2. ASSUME NEW th \in Spawners, ReapKill(th) PROVE RunningIsHeld'
  BY <1>2 DEF ReapKill
<1>3. ASSUME NEW th \in Spawners, Register(th) PROVE RunningIsHeld'
  BY <1>3 DEF Register
<1>4. ASSUME NEW th \in Spawners, Spawn(th) PROVE RunningIsHeld'
  BY <1>4 DEF Spawn, Install, RegisteredIsOwn
<1>5. ASSUME NEW th \in Spawners, SpawnFails(th) PROVE RunningIsHeld'
  <2>1. call'[th].pc = "failed" /\ call'[th].gen = token' 
    BY <1>5 DEF SpawnFails, RegisteredIsOwn
  <2> QED
    BY <2>1
<1>6. ASSUME NEW th \in Spawners, FailedSpawn(th) \/ PostCheck(th), status' = "running"
      PROVE  RunningIsHeld'
  <2>1. /\ status = "running" /\ UNCHANGED <<token, wait>>
        /\ sess' = sess \/ sess # token
    BY <1>6 DEF FailedSpawn, PostCheck, KillIfSpawnId, Runs
  <2>2. ASSUME NEW u \in Threads, call[u].pc \in {"spawn", "failed"}, call[u].gen = token
        PROVE  FALSE
    <3>1. u = th
      BY <1>6, <2>2 DEF FailedSpawn, PostCheck, LockHeld, Inside
    <3> QED
      BY <1>6, <2>1, <2>2, <3>1 DEF FailedSpawn, PostCheck, Runs
  <2> QED
    BY <2>1, <2>2
<1>7. ASSUME NEW th \in Spawners, RegisterSessionCtx(th) PROVE RunningIsHeld'
  BY <1>7 DEF RegisterSessionCtx
<1>8. ASSUME NEW th \in Cancellers, CancelRow(th) \/ CancelKill(th) PROVE RunningIsHeld'
  BY <1>8 DEF CancelRow, CancelKill
<1>9. ASSUME NEW g \in Gens, ChildExits(g) PROVE RunningIsHeld'
  BY <1>9 DEF ChildExits
<1>10. ASSUME NEW g \in Gens, Waiting(g) PROVE RunningIsHeld'
  BY <1>10 DEF Waiting, WaitPoll, WaitFinish, WaitCapture, Runs
<1>11. CASE UNCHANGED vars
  BY <1>11 DEF vars
<1> QED
  BY <1>1, <1>2, <1>3, <1>4, <1>5, <1>6, <1>7, <1>8, <1>9, <1>10, <1>11
     DEF Next, Spawning, Restart

\* Once every call has returned a running row has its session or is about to be
\* finished, for any number of threads that spawn, while only they cancel.
THEOREM RunningRow ==
  ASSUME CancelsAreSerial, ~Restarts
  PROVE  Spec => []RunningRowHasSession
<1>1. Init => GapIsNotRunning /\ RunningIsHeld
  BY DEF Init, GapIsNotRunning, RunningIsHeld, Idle
<1>2. IInv /\ GapIsNotRunning /\ RunningIsHeld /\ [Next]_vars => (GapIsNotRunning /\ RunningIsHeld)'
  BY GapStep, HeldStep
<1>3. RunningIsHeld => RunningRowHasSession
  BY DEF RunningIsHeld, RunningRowHasSession, AllIdle, At
<1> QED
  BY <1>1, <1>2, <1>3, IInvHolds, PTL DEF Spec
=============================================================================
