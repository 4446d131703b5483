---------------------------- MODULE PipelineDag ----------------------------
(***************************************************************************)
(* The DAG of one pipeline run: the life cycle of its tasks                *)
(* (services/orchestration.rs), the event-driven scheduler that unblocks,  *)
(* cascades and closes the run (services/pipeline_scheduler.rs), and the   *)
(* commands of commands.rs that change a task's state.                     *)
(*                                                                         *)
(* Every SQL statement or transaction runs under the one database mutex    *)
(* and is one step.  What is NOT atomic in the code is not atomic here:    *)
(* set_state reads the row under one lock and writes it under another, the *)
(* scheduler's hook runs after set_state released its lock, and            *)
(* pipeline_cancel marks the run, lists its tasks and cancels them one by  *)
(* one.  Synchronous Tauri commands run on the main thread (Main), one at  *)
(* a time; the done-detection poller and the Telegram inbound handler are  *)
(* threads of their own (Remote).                                          *)
(***************************************************************************)
EXTENDS Naturals, FiniteSets

CONSTANTS Tasks,         \* tasks of the run
          BlockEdges,    \* <<task, dep>>: on_error = 'block_downstream'
          ContinueEdges, \* <<task, dep>>: on_error = 'continue'
          TopoIndex,     \* orchestration_tasks.topo_index
          Main,          \* the thread of the synchronous commands
          Remote         \* threads of the poller and of the remote commands

Edges == BlockEdges \cup ContinueEdges
Threads == Remote \cup {Main}

ASSUME TasksNonEmpty == Tasks # {}
ASSUME EdgesOverTasks == Edges \subseteq Tasks \X Tasks
ASSUME EdgesFollowTopo ==
  /\ TopoIndex \in [Tasks -> Nat]
  /\ \A e \in Edges : TopoIndex[e[2]] < TopoIndex[e[1]]
ASSUME MainIsNotRemote == Main \notin Remote

VARIABLES state,    \* orchestration_tasks.state
          blocked,  \* orchestration_tasks.dag_blocked
          run,      \* pipeline_runs.status
          call,     \* what each thread is in the middle of
          todo,     \* tasks pipeline_cancel listed and has not reached
          boot      \* progress of reconcile_on_boot

vars == <<state, blocked, run, call, todo, boot>>

----------------------------------------------------------------------------
\* Types and helpers

States == {"pending", "running", "awaiting_review", "done", "failed", "canceled"}
Live == {"running", "awaiting_review"}
Dropped == {"failed", "canceled"}
Terminal == Dropped \cup {"done"}

AnyTask == CHOOSE t \in Tasks : TRUE

Idle == [pc |-> "idle", task |-> AnyTask, to |-> "pending", hooked |-> FALSE]

Call == [pc : {"idle", "write", "hook", "launch", "list", "sweep", "sweepWrite"},
         task : Tasks, to : States, hooked : BOOLEAN]

TypeOK == /\ state \in [Tasks -> States]
          /\ blocked \in [Tasks -> BOOLEAN]
          /\ run \in {"running", "done", "failed", "canceled"}
          /\ call \in [Threads -> Call]
          /\ todo \in SUBSET Tasks
          /\ boot \in {"start", "listed", "done"}

CanTransition(from, to) ==
  \/ from = "pending" /\ to \in {"running", "canceled"}
  \/ from = "running" /\ to \in {"awaiting_review", "failed", "canceled"}
  \/ from = "awaiting_review" /\ to \in {"done", "failed", "canceled"}

\* Every edge of t is satisfied: its dependency is done, or has failed or was
\* canceled when the edge says 'continue'.
DepsAllDone(s, t) ==
  /\ \A e \in BlockEdges : e[1] = t => s[e[2]] = "done"
  /\ \A e \in ContinueEdges : e[1] = t => s[e[2]] \in Terminal

Pending(s) == {t \in Tasks : s[t] = "pending"}

\* A set of pending tasks the search from roots would not leave.
ClosedUnderSkip(s, roots, C) ==
  \A e \in BlockEdges :
    e[2] \in roots \cup C /\ s[e[1]] = "pending" => e[1] \in C

\* What the breadth-first search of cascade_cancel cancels: the least set of
\* pending tasks that is closed under blocking edges out of roots and of itself.
Skipped(s, roots) ==
  {t \in Pending(s) :
     \A C \in SUBSET Pending(s) : ClosedUnderSkip(s, roots, C) => t \in C}

\* Mutant: the search only looks at the direct children.
CascadeCancelShallow(s, roots) ==
  [t \in Tasks |->
     IF s[t] = "pending" /\ \E d \in roots : <<t, d>> \in BlockEdges
     THEN "canceled" ELSE s[t]]

\* Mutant: live work is canceled too.
CascadeCancelKillsLive(s, roots) ==
  [t \in Tasks |->
     IF \/ t \in Skipped(s, roots)
        \/ s[t] \in Live /\ \E d \in Tasks : <<d, t>> \in Edges /\ s[d] \in Dropped
     THEN "canceled" ELSE s[t]]

CascadeCancel(s, roots) ==
  [t \in Tasks |-> IF t \in Skipped(s, roots) THEN "canceled" ELSE s[t]]

\* Mutant: one ready dependent per hook.
UnblockOne(s, b, among) ==
  LET ready == {t \in among : s[t] = "pending" /\ b[t] /\ DepsAllDone(s, t)}
  IN [t \in Tasks |-> b[t] /\ ~(ready # {} /\ t = CHOOSE r \in ready : TRUE)]

Unblock(s, b, among) ==
  [t \in Tasks |->
     b[t] /\ ~(t \in among /\ s[t] = "pending" /\ DepsAllDone(s, t))]

Dependents(t) == {d \in Tasks : <<d, t>> \in Edges}

\* Mutant: only a run without failures is closed.
FinalStatusDoneOnly(s, r) ==
  IF r = "running" /\ \A t \in Tasks : s[t] = "done" THEN "done" ELSE r

\* Mutant: the run is closed while a task awaits its review.
FinalStatusEarly(s, r) ==
  IF r # "running" \/ \E t \in Tasks : s[t] \in {"pending", "running"}
  THEN r
  ELSE IF \A t \in Tasks : s[t] \in {"done", "awaiting_review"} THEN "done" ELSE "failed"

\* maybe_finalize_run.
FinalStatus(s, r) ==
  IF r # "running" \/ \E t \in Tasks : s[t] \notin Terminal
  THEN r
  ELSE IF \A t \in Tasks : s[t] = "done" THEN "done" ELSE "failed"

----------------------------------------------------------------------------
\* set_state: read under one lock, write under another.  The caller runs the
\* scheduler's hook afterwards only if it is orchestration_set_state.

AfterSet(c) ==
  IF c.hooked /\ c.to \in Terminal THEN [c EXCEPT !.pc = "hook"] ELSE Idle

SetStateRead(th, t, to, hooked) ==
  LET c == [pc |-> "write", task |-> t, to |-> to, hooked |-> hooked]
  IN /\ \/ /\ state[t] = to
           /\ call' = [call EXCEPT ![th] = AfterSet(c)]
        \/ /\ CanTransition(state[t], to)
           /\ call' = [call EXCEPT ![th] = c]
     /\ UNCHANGED <<state, blocked, run, todo, boot>>

\* Mutant: the gate is only read, the write to running is unconditional.
SetStateWriteUngated(th) ==
  LET c == call[th]
  IN /\ c.pc = "write"
     /\ state' = [state EXCEPT ![c.task] = c.to]
     /\ call' = [call EXCEPT ![th] = AfterSet(c)]
     /\ UNCHANGED <<blocked, run, todo, boot>>

\* The write to running repeats the gate in its WHERE clause; every other
\* write is unconditional.
SetStateWrite(th) ==
  LET c == call[th]
  IN /\ c.pc = "write"
     /\ state' = IF c.to = "running" /\ (state[c.task] # "pending" \/ blocked[c.task])
                 THEN state
                 ELSE [state EXCEPT ![c.task] = c.to]
     /\ call' = [call EXCEPT ![th] = AfterSet(c)]
     /\ UNCHANGED <<blocked, run, todo, boot>>

----------------------------------------------------------------------------
\* Commands of the main thread

MainIdle == call[Main].pc = "idle"

\* orchestration_set_state: any task, any target, followed by the hook.
SetStateCommand(t, to) == MainIdle /\ SetStateRead(Main, t, to, TRUE)

\* orchestration_mark_ready.
MarkReady(t) == MainIdle /\ SetStateRead(Main, t, "awaiting_review", FALSE)

\* orchestration_cancel sets the state and does not call the hook.
CancelCommand(t) == MainIdle /\ SetStateRead(Main, t, "canceled", FALSE)

\* Mutant: the claim does not look at dag_blocked.
ClaimForLaunchUngated(t) ==
  /\ MainIdle
  /\ state[t] = "pending" /\ run # "canceled"
  /\ state' = [state EXCEPT ![t] = "running"]
  /\ call' = [call EXCEPT ![Main] = [Idle EXCEPT !.pc = "launch", !.task = t]]
  /\ UNCHANGED <<blocked, run, todo, boot>>

\* orchestration_prepare_task: the atomic claim, then git makes the worktree.
ClaimForLaunch(t) ==
  /\ MainIdle
  /\ state[t] = "pending" /\ ~blocked[t] /\ run # "canceled"
  /\ state' = [state EXCEPT ![t] = "running"]
  /\ call' = [call EXCEPT ![Main] = [Idle EXCEPT !.pc = "launch", !.task = t]]
  /\ UNCHANGED <<blocked, run, todo, boot>>

\* The worktree exists: mark_running finds the task running (its set_state is
\* idempotent), or it was canceled meanwhile and the command reports the error.
LaunchDone ==
  /\ call[Main].pc = "launch"
  /\ call' = [call EXCEPT ![Main] = Idle]
  /\ UNCHANGED <<state, blocked, run, todo, boot>>

\* The worktree could not be made: the claim is reverted to failed, no hook.
\* If the task was meanwhile canceled set_state refuses and nothing changes.
LaunchFailed ==
  /\ call[Main].pc = "launch"
  /\ SetStateRead(Main, call[Main].task, "failed", FALSE)

\* pipeline_cancel: mark the run, list its tasks, cancel them in topo order.
MarkRunCanceled ==
  /\ MainIdle
  /\ run' = IF run = "running" THEN "canceled" ELSE run
  /\ call' = [call EXCEPT ![Main] = [Idle EXCEPT !.pc = "list"]]
  /\ UNCHANGED <<state, blocked, todo, boot>>

\* Mutant: only the pending tasks are canceled.
ListRunTasksPending ==
  /\ call[Main].pc = "list"
  /\ todo' = Pending(state)
  /\ call' = [call EXCEPT ![Main] = [Idle EXCEPT !.pc = "sweep"]]
  /\ UNCHANGED <<state, blocked, run, boot>>

ListRunTasks ==
  /\ call[Main].pc = "list"
  /\ todo' = {t \in Tasks : state[t] \in {"pending", "running"}}
  /\ call' = [call EXCEPT ![Main] = [Idle EXCEPT !.pc = "sweep"]]
  /\ UNCHANGED <<state, blocked, run, boot>>

\* The read of set_state(canceled) for the next listed task.
SweepRead(t) ==
  /\ call[Main].pc = "sweep"
  /\ t \in todo
  /\ \A u \in todo : TopoIndex[t] <= TopoIndex[u]
  /\ todo' = todo \ {t}
  /\ call' = IF CanTransition(state[t], "canceled")
             THEN [call EXCEPT ![Main] = [Idle EXCEPT !.pc = "sweepWrite", !.task = t]]
             ELSE call
  /\ UNCHANGED <<state, blocked, run, boot>>

SweepWrite ==
  /\ call[Main].pc = "sweepWrite"
  /\ state' = [state EXCEPT ![call[Main].task] = "canceled"]
  /\ call' = [call EXCEPT ![Main] = [Idle EXCEPT !.pc = "sweep"]]
  /\ UNCHANGED <<blocked, run, todo, boot>>

SweepDone ==
  /\ call[Main].pc = "sweep" /\ todo = {}
  /\ call' = [call EXCEPT ![Main] = Idle]
  /\ UNCHANGED <<state, blocked, run, todo, boot>>

----------------------------------------------------------------------------
\* Other threads: the done-detection poller and /ready of Telegram bring a
\* running task to review; /cancel of Telegram cancels it.  None runs the hook.

RemoteReady(th, t) ==
  /\ call[th].pc = "idle"
  /\ state[t] = "running"
  /\ SetStateRead(th, t, "awaiting_review", FALSE)

RemoteCancel(th, t) ==
  /\ call[th].pc = "idle"
  /\ state[t] \in Live
  /\ SetStateRead(th, t, "canceled", FALSE)

----------------------------------------------------------------------------
\* The scheduler

\* on_task_settled: one transaction gated on the status of the run.
OnTaskSettled(th) ==
  LET c == call[th]
      cascaded == IF c.to \in Dropped THEN CascadeCancel(state, {c.task}) ELSE state
  IN /\ c.pc = "hook"
     /\ IF run = "running"
        THEN /\ state' = cascaded
             /\ blocked' = Unblock(cascaded, blocked, Dependents(c.task))
             /\ run' = FinalStatus(cascaded, run)
        ELSE UNCHANGED <<state, blocked, run>>
     /\ call' = [call EXCEPT ![th] = Idle]
     /\ UNCHANGED <<todo, boot>>

\* reconcile_on_boot lists the running runs, then reconciles each in a
\* transaction that does not look at the status again.
ReconcileList ==
  /\ boot = "start"
  /\ boot' = IF run = "running" THEN "listed" ELSE "done"
  /\ UNCHANGED <<state, blocked, run, call, todo>>

\* Mutant: the lost cascades are not replayed.
ReconcileRunNoCascade ==
  /\ boot = "listed"
  /\ blocked' = Unblock(state, blocked, Tasks)
  /\ run' = FinalStatus(state, run)
  /\ boot' = "done"
  /\ UNCHANGED <<state, call, todo>>

ReconcileRun ==
  LET cascaded == CascadeCancel(state, {t \in Tasks : state[t] \in Dropped})
  IN /\ boot = "listed"
     /\ state' = cascaded
     /\ blocked' = Unblock(cascaded, blocked, Tasks)
     /\ run' = FinalStatus(cascaded, run)
     /\ boot' = "done"
     /\ UNCHANGED <<call, todo>>

\* The application dies and is started again: every thread's call is lost.
Crash ==
  /\ call' = [th \in Threads |-> Idle]
  /\ todo' = {}
  /\ boot' = "start"
  /\ UNCHANGED <<state, blocked, run>>

----------------------------------------------------------------------------
\* create_pipeline_run and set_task_dependencies, in one transaction.
Init ==
  /\ state = [t \in Tasks |-> "pending"]
  /\ blocked = [t \in Tasks |-> \E e \in Edges : e[1] = t]
  /\ run = "running"
  /\ call = [th \in Threads |-> Idle]
  /\ todo = {}
  /\ boot = "done"

Scheduler == (\E th \in Threads : OnTaskSettled(th)) \/ ReconcileList \/ ReconcileRun

\* Whatever ends a task here goes through the hook, or through pipeline_cancel.
HookedNext ==
  \/ \E t \in Tasks :
       \/ \E to \in States : SetStateCommand(t, to)
       \/ MarkReady(t) \/ ClaimForLaunch(t) \/ SweepRead(t)
       \/ \E th \in Remote : RemoteReady(th, t)
  \/ \E th \in Threads : SetStateWrite(th)
  \/ LaunchDone \/ MarkRunCanceled \/ ListRunTasks \/ SweepWrite \/ SweepDone
  \/ Scheduler
  \/ Crash

\* The commands that end a task without the hook.
UnhookedEnd ==
  \/ \E t \in Tasks : CancelCommand(t) \/ \E th \in Remote : RemoteCancel(th, t)
  \/ LaunchFailed

Next == HookedNext \/ UnhookedEnd

Spec == Init /\ [][Next]_vars
HookedSpec == Init /\ [][HookedNext]_vars

\* Threads finish the command they started and the boot task runs.
Fairness ==
  /\ \A th \in Threads : WF_vars(SetStateWrite(th)) /\ WF_vars(OnTaskSettled(th))
  /\ WF_vars(LaunchDone)
  /\ WF_vars(ListRunTasks \/ SweepWrite \/ SweepDone \/ \E t \in Tasks : SweepRead(t))
  /\ WF_vars(ReconcileList) /\ WF_vars(ReconcileRun)

FairSpec == HookedSpec /\ Fairness

----------------------------------------------------------------------------
\* Properties

\* The gate of the DAG: a task that got past pending, other than by being
\* canceled, is not blocked, whichever of claim_for_launch and set_state
\* launched it and whatever raced with it (orchestration.rs, set_state).
LaunchGate == \A t \in Tasks : state[t] \notin {"pending", "canceled"} => ~blocked[t]

\* A task is unblocked only in a step after which all its edges are satisfied:
\* the readiness test and the update share one transaction.
UnblockOnlyWhenReady ==
  [][\A t \in Tasks : blocked[t] /\ ~blocked'[t] => DepsAllDone(state', t)]_vars

\* The scheduler never ends live work: a running task or one in review changes
\* state only by a set_state that some command aimed at that very task.
NobodyEndsLiveWork ==
  \A t \in Tasks : state[t] \in Live /\ state'[t] # state[t] =>
    \E th \in Threads : call[th].pc \in {"write", "sweepWrite"} /\ call[th].task = t

LiveWorkUntouched == [][NobodyEndsLiveWork]_vars

\* The life cycle is the one can_transition draws: in particular done, failed
\* and canceled are final.
LifecycleRespected ==
  [][\A t \in Tasks : state'[t] # state[t] => CanTransition(state[t], state'[t])]_vars

\* Work never runs on an unfinished dependency: whatever was launched has every
\* edge satisfied, then and for ever after.
DepsRespected ==
  \A t \in Tasks : state[t] \notin {"pending", "canceled"} => DepsAllDone(state, t)

\* The verdict of a closed run is the truth about its tasks.
VerdictTrue ==
  /\ run = "done" => \A t \in Tasks : state[t] = "done"
  /\ run = "failed" => /\ \A t \in Tasks : state[t] \in Terminal
                       /\ \E t \in Tasks : state[t] # "done"

\* Nobody is in the middle of anything.
Quiescent == boot = "done" /\ \A th \in Threads : call[th].pc = "idle"

\* When all threads are idle no pending task of a running run waits on a
\* dependency that can no longer be satisfied: the cascade reached them all.
NoDoomedTaskLeftPending ==
  Quiescent /\ run = "running" =>
    \A e \in BlockEdges : state[e[1]] = "pending" => state[e[2]] \notin Dropped

\* ... no task of a running run stays blocked with all its edges satisfied ...
NoReadyTaskLeftBlocked ==
  Quiescent /\ run = "running" =>
    \A t \in Tasks : state[t] = "pending" /\ blocked[t] => ~DepsAllDone(state, t)

\* ... and no run stays open when all its tasks ended.
NoFinishedRunLeftOpen ==
  Quiescent /\ run = "running" => \E t \in Tasks : state[t] \notin Terminal

\* After every hook and every boot the graph has nothing left to do by itself:
\* reconcile_on_boot would change nothing.
NothingLeftToReconcile ==
  NoDoomedTaskLeftPending /\ NoReadyTaskLeftBlocked /\ NoFinishedRunLeftOpen

\* When pipeline_cancel is through no task it listed is still running: after it
\* no agent works for a canceled run.
SweepLeavesNothingRunning ==
  call[Main].pc = "sweep" /\ todo = {} =>
    \A t \in Tasks : state[t] \notin {"pending", "running"}

\* What the record of a run says of its tasks is true, the three ways it ends.
RecordOfRunIsTrue == VerdictTrue /\ SweepLeavesNothingRunning

\* The application stays up long enough for its boot task, now and again.
BootsComplete == []<>(boot = "done")

\* A pending task behind a failed dependency of a running run does not stay
\* pending for ever after a restart ...
LostCascadeReplayed ==
  \A e \in BlockEdges :
    (/\ boot = "start" /\ run = "running"
     /\ state[e[1]] = "pending" /\ state[e[2]] \in Dropped)
      ~> (state[e[1]] # "pending" \/ run # "running")

\* ... and a run whose tasks have all ended is closed.
BootClosesFinishedRun ==
  (boot = "start" /\ run = "running" /\ \A t \in Tasks : state[t] \in Terminal)
    ~> (run # "running")

\* A restart repairs what a crash lost between a transition and its hook.
BootRepairs == BootsComplete => LostCascadeReplayed /\ BootClosesFinishedRun
=============================================================================
