----------------------------- MODULE WorkProofs -----------------------------
(***************************************************************************)
(* Proofs about the components of Work that MCProgress checks on small     *)
(* instances, one section for each, for every value of their constants.    *)
(***************************************************************************)
EXTENDS Work, Integers, Sequences, FiniteSetTheorems, TLAPS

----------------------------------------------------------------------------
(* TaskLaunch                                                               *)

\* A task that nobody has claimed has nothing yet.
UnclaimedHasNothing ==
  /\ state = "pending" => ~agent /\ ~front /\ ~pane /\ ckpt = "none"
  /\ state = "pending" \/ main = "ensure" => ~made

\* The pane is on record before anything can start a process in it.
PaneBeforeAgent ==
  /\ main = "spawn" => pane /\ bestOfN
  /\ main = "checkpoint" /\ ~bestOfN => pane
  /\ ckpt # "none" /\ ~bestOfN => pane
  /\ front => pane /\ ~bestOfN

\* Without tmux no agent works while a command of the main thread goes on: the
\* launch has not started it, the cancel has killed it.
BusyHasNoAgent == main # "idle" => ~agent

\* Past its checkpoint a launch of best-of-N has one.
CheckpointFirst ==
  bestOfN /\ made /\ tree # "none" /\ main \notin {"ensure", "checkpoint"}
    => ckpt # "none" \/ crashed

\* The inductive invariant of a launch.  What a dead tmux session would still
\* run is no process of the application: two parts are about ~Tmux only.
LaunchInv ==
  /\ Launch!TypeOK /\ UnclaimedHasNothing /\ PaneBeforeAgent /\ Launch!AgentIsOnRecord
  /\ CheckpointFirst
  /\ ~Tmux => BusyHasNoAgent /\ Launch!AgentHasWorktree

\* A new task has nothing to lose.
LEMMA LaunchInit == Launch!Init => LaunchInv
<1> SUFFICES ASSUME Launch!Init PROVE LaunchInv
  OBVIOUS
<1>1. Launch!TypeOK
  BY DEF Launch!Init, Launch!TypeOK, Launch!Live, Launch!Final
<1>2. UnclaimedHasNothing /\ PaneBeforeAgent /\ CheckpointFirst
  BY DEF Launch!Init, UnclaimedHasNothing, PaneBeforeAgent, CheckpointFirst
<1>3. Launch!AgentIsOnRecord /\ BusyHasNoAgent /\ Launch!AgentHasWorktree
  BY DEF Launch!Init, Launch!AgentIsOnRecord, BusyHasNoAgent, Launch!AgentHasWorktree
<1> QED
  BY <1>1, <1>2, <1>3 DEF LaunchInv

\* Every step keeps it: of the launch, of a cancel, of Telegram, of the agent,
\* a failure of git or of the database, and a crash between any two of them.
LEMMA LaunchStep == LaunchInv /\ [Launch!Next]_(Launch!vars) => LaunchInv'
<1> SUFFICES ASSUME LaunchInv, [Launch!Next]_(Launch!vars) PROVE LaunchInv'
  OBVIOUS
<1> USE LaunchAssumption DEF Launch!LaunchAssumption, LaunchInv, Launch!TypeOK, UnclaimedHasNothing,
    PaneBeforeAgent,
   Launch!AgentIsOnRecord, CheckpointFirst, BusyHasNoAgent, Launch!AgentHasWorktree,
   Launch!Live, Launch!Final, Launch!Goto, Launch!Fail, Launch!Killed
<1>1. CASE Launch!Claim
  BY <1>1 DEF Launch!Claim
<1>2. CASE Launch!Ensure
  BY <1>2 DEF Launch!Ensure
<1>3. CASE Launch!EnsureFails
  BY <1>3 DEF Launch!EnsureFails
<1>4. CASE Launch!Checkpoint
  BY <1>4 DEF Launch!Checkpoint
<1>5. CASE Launch!MarkRead
  BY <1>5 DEF Launch!MarkRead
<1>6. CASE Launch!MarkWrite
  BY <1>6 DEF Launch!MarkWrite
<1>7. CASE Launch!Spawn
  <2>1. main = "spawn" /\ pane /\ bestOfN /\ state # "pending" /\ main' = "idle" /\ ~front
    BY <1>7 DEF Launch!Spawn
  <2>2. UNCHANGED <<crashed, bestOfN, pane, tree, ckpt, made, front, tg>>
    BY <1>7 DEF Launch!Spawn
  <2>3. state' \in {state, "failed"}
    BY <1>7 DEF Launch!Spawn
  <2>4. agent' = (tree # "none") \/ agent' = agent
    BY <1>7 DEF Launch!Spawn
  <2>5. agent' \in BOOLEAN /\ (agent' => agent \/ tree # "none")
    <3>1. CASE agent' = (tree # "none")
      BY <3>1, Zenon
    <3>2. CASE agent' = agent
      BY <3>2
    <3> QED
      BY <2>4, <3>1, <3>2
  <2>6. Launch!TypeOK'
    BY <2>1, <2>2, <2>3, <2>5
  <2>7. UnclaimedHasNothing' /\ PaneBeforeAgent' /\ Launch!AgentIsOnRecord' /\ CheckpointFirst'
    BY <1>7, <2>1, <2>2, <2>3, <2>5
  <2>8. ~Tmux => BusyHasNoAgent' /\ Launch!AgentHasWorktree'
    BY <2>1, <2>2, <2>3, <2>5
  <2> QED
    BY <2>6, <2>7, <2>8
<1>8. CASE Launch!Mount
  BY <1>8 DEF Launch!Mount
<1>9. CASE Launch!CancelRead
  BY <1>9 DEF Launch!CancelRead
<1>10. CASE Launch!Settle
  BY <1>10 DEF Launch!Settle
<1>11. CASE Launch!Abort
  BY <1>11 DEF Launch!Abort
<1>12. CASE Launch!RemoteValidate
  BY <1>12 DEF Launch!RemoteValidate
<1>13. CASE Launch!RemoteCancel
  BY <1>13 DEF Launch!RemoteCancel
<1>14. CASE Launch!RemoteKill
  BY <1>14 DEF Launch!RemoteKill
<1>15. CASE Launch!AgentIdle
  BY <1>15 DEF Launch!AgentIdle
<1>16. CASE Launch!AgentWrites
  BY <1>16 DEF Launch!AgentWrites
<1>17. CASE Launch!AgentExits
  <2>1. ~agent' /\ agent' \in BOOLEAN
    BY <1>17 DEF Launch!AgentExits
  <2>2. UNCHANGED <<crashed, bestOfN, state, pane, tree, ckpt, made, main, front, tg>>
    BY <1>17 DEF Launch!AgentExits
  <2> QED
    BY <2>1, <2>2
<1>18. CASE Launch!Crash
  BY <1>18 DEF Launch!Crash
<1>19. CASE UNCHANGED Launch!vars
  BY <1>19 DEF Launch!vars
<1> QED
  BY <1>1, <1>2, <1>3, <1>4, <1>5, <1>6, <1>7, <1>8, <1>9, <1>10, <1>11, <1>12, <1>13, <1>14,
     <1>15, <1>16, <1>17, <1>18, <1>19 DEF Launch!Next, Launch!Launching, Launch!Canceling, Launch!Remoting

\* Whatever fails, is canceled or crashes, an agent works in a pane that is on
\* record, and a best-of-N launch that is over leaves no worktree without its
\* checkpoint unless the application died (orchestration_prepare_task).
THEOREM LaunchIsOnRecord ==
  Launch!Spec => [](Launch!AgentIsOnRecord /\ Launch!NoOrphanWorktree)
<1>1. LaunchInv => Launch!AgentIsOnRecord /\ Launch!NoOrphanWorktree
  BY DEF LaunchInv, CheckpointFirst, Launch!NoOrphanWorktree
<1> QED
  BY <1>1, LaunchInit, LaunchStep, PTL DEF Launch!Spec

\* Where a kill ends the process of a pane, which a pane under tmux outlives,
\* no agent works without its worktree either (cancel_reap_emit before the
\* worktree is removed).
THEOREM LaunchIsKept ==
  ASSUME ~Tmux PROVE Launch!Spec => []NothingIsLost
<1>1. LaunchInv => NothingIsLost
  BY DEF LaunchInv, NothingIsLost, Launch!NothingIsLost, CheckpointFirst, Launch!NoOrphanWorktree
<1> QED
  BY <1>1, LaunchInit, LaunchStep, PTL DEF Launch!Spec

----------------------------------------------------------------------------
(* BgQueue                                                                  *)

\* What a task is, whatever job the poll has given it.
TaskShape ==
  /\ task = [t \in Tasks |-> task[t]]
  /\ \A t \in Tasks :
       \/ task[t] = Queue!Idle
       \/ task[t] = [pc |-> task[t].pc, job |-> task[t].job]
          /\ task[t].pc \in {"spawned", "executing"}
       \/ task[t] = [pc |-> task[t].pc, job |-> task[t].job, res |-> task[t].res]
          /\ task[t].pc \in {"ended", "auditing"} /\ task[t].res \in Queue!Results

\* The inductive invariant of the queue.
QueueInv ==
  /\ row \in [Polled -> Queue!Statuses] /\ TaskShape
  /\ permits \in Nat /\ restarts \in Nat
  /\ IsFiniteSet(Queue!LiveTasks)
  /\ Queue!QueueIsAccounted

\* The instance counts as FiniteSets does.
LEMMA QueueCounts == \A S : Queue!Cardinality(S) = Cardinality(S)
BY DEF Queue!Cardinality, Cardinality

\* At first every permit is free and nothing runs.
LEMMA QueueInit == Queue!Init => QueueInv
<1> SUFFICES ASSUME Queue!Init PROVE QueueInv
  OBVIOUS
<1>1. Queue!LiveTasks = {}
  BY DEF Queue!LiveTasks, Queue!Init, Queue!Idle
<1>2. IsFiniteSet(Queue!LiveTasks) /\ Cardinality(Queue!LiveTasks) = 0
  BY <1>1, FS_EmptySet
<1>3. row \in [Polled -> Queue!Statuses] /\ TaskShape
  BY DEF Queue!Init, Queue!Statuses, TaskShape
<1> QED
  BY <1>2, <1>3, QueueCounts, QueueAssumption
  DEF QueueInv, Queue!QueueAssumption, Queue!Init, Queue!QueueIsAccounted, Queue!PermitsAreKept,
      Queue!RunningHasTask

\* Every step keeps the permits and the running rows accounted for: a permit is
\* taken with the task that holds it and returned with its end, and between the
\* two a step of the task changes neither who is live nor what is free.
LEMMA QueueStep == QueueInv /\ [Queue!Next]_(Queue!vars) => QueueInv'
<1> SUFFICES ASSUME QueueInv, [Queue!Next]_(Queue!vars) PROVE QueueInv'
  OBVIOUS
<1> DEFINE Live == Queue!LiveTasks
<1> USE DEF QueueInv
<1>0. Cardinality(Live) \in Nat /\ permits + Cardinality(Live) = Permits /\ Permits \in Nat
  BY FS_CardinalityType, QueueCounts, QueueAssumption DEF Queue!QueueIsAccounted, Queue!PermitsAreKept,
      Queue!QueueAssumption
<1>s. ASSUME UNCHANGED <<task, permits>> 
      PROVE  TaskShape' /\ IsFiniteSet(Live') /\ Queue!PermitsAreKept'
  BY <1>s, <1>0, QueueCounts DEF TaskShape, Queue!LiveTasks, Queue!PermitsAreKept
<1>1. ASSUME NEW j \in Polled, Queue!Enqueue(j) \/ Queue!Cancel(j) PROVE QueueInv'
  <2>1. UNCHANGED <<task, permits, restarts>>
    BY <1>1 DEF Queue!Enqueue, Queue!Cancel
  <2>2. /\ row' \in [Polled -> Queue!Statuses]
        /\ \A i \in Polled : row'[i] = "running" => row[i] = "running"
    BY <1>1 DEF Queue!Enqueue, Queue!Cancel, Queue!Statuses
  <2>3. Queue!RunningHasTask'
    BY <2>1, <2>2 DEF Queue!QueueIsAccounted, Queue!RunningHasTask
  <2> QED
    BY <1>s, <2>1, <2>2, <2>3 DEF Queue!QueueIsAccounted
<1>2. CASE Queue!Poll
  <2>1. UNCHANGED <<row, task, permits, restarts>>
    BY <1>2 DEF Queue!Poll
  <2> QED
    BY <1>s, <2>1 DEF Queue!QueueIsAccounted, Queue!RunningHasTask
<1>3. ASSUME NEW t \in Tasks, Queue!SpawnTask(t) PROVE QueueInv'
  <2>1. /\ task[t] = Queue!Idle /\ permits > 0 /\ permits' = permits - 1
        /\ task' = [task EXCEPT ![t] = [pc |-> "spawned", job |-> Head(batch)]]
        /\ UNCHANGED <<row, restarts>>
    BY <1>3 DEF Queue!SpawnTask
  <2>2. TaskShape'
    BY <2>1 DEF TaskShape
  <2>3. Live' = Live \cup {t} /\ t \notin Live
    BY <2>1 DEF TaskShape, Queue!LiveTasks, Queue!Idle
  <2>4. IsFiniteSet(Live') /\ Cardinality(Live') = Cardinality(Live) + 1
    BY <2>3, FS_AddElement
  <2>5. Queue!RunningHasTask'
    BY <2>1 DEF TaskShape, Queue!QueueIsAccounted, Queue!RunningHasTask, Queue!Idle
  <2> QED
    BY <1>0, <2>1, <2>2, <2>4, <2>5, QueueCounts DEF Queue!QueueIsAccounted, Queue!PermitsAreKept
<1>4. ASSUME NEW t \in Tasks, Queue!StartJob(t) PROVE QueueInv'
  <2>1. /\ task[t].pc = "spawned" /\ task' = [task EXCEPT ![t] = [@ EXCEPT !.pc = "executing"]]
        /\ row' = [row EXCEPT ![task[t].job] = IF @ = "pending" THEN "running" ELSE @]
        /\ UNCHANGED <<permits, restarts>>
    BY <1>4 DEF Queue!StartJob
  <2>2. task'[t] = [pc |-> "executing", job |-> task[t].job]
    BY <2>1 DEF TaskShape, Queue!Idle
  <2>3. TaskShape' /\ Live' = Live
    BY <2>1, <2>2 DEF TaskShape, Queue!LiveTasks
  <2>4. row' \in [Polled -> Queue!Statuses]
    BY <2>1 DEF Queue!Statuses
  <2>5. Queue!RunningHasTask'
    <3> SUFFICES ASSUME restarts = 0, NEW j \in Polled, row'[j] = "running"
                 PROVE  \E u \in Tasks : task'[u].pc \in {"executing", "ended"} /\ task'[u].job = j
      BY <2>1 DEF Queue!RunningHasTask
    <3>1. CASE row[j] = "running"
      <4>1. PICK u \in Tasks : task[u].pc \in {"executing", "ended"} /\ task[u].job = j
        BY <3>1 DEF Queue!QueueIsAccounted, Queue!RunningHasTask
      <4>2. task'[u] = task[u]
        BY <2>1, <4>1
      <4> QED
        BY <4>1, <4>2
    <3>2. CASE row[j] # "running"
      BY <2>1, <2>2, <3>2
    <3> QED
      BY <3>1, <3>2
  <2> QED
    BY <1>0, <2>1, <2>3, <2>4, <2>5, QueueCounts DEF Queue!QueueIsAccounted, Queue!PermitsAreKept
<1>5. ASSUME NEW t \in Tasks, Queue!RunJob(t) PROVE QueueInv'
  <2>1. PICK res \in Queue!Results :
          task' = [task EXCEPT ![t] = [pc |-> "ended", job |-> @.job, res |-> res]]
    BY <1>5 DEF Queue!RunJob
  <2>2. task[t].pc = "executing" /\ UNCHANGED <<row, permits, restarts>>
    BY <1>5 DEF Queue!RunJob
  <2>3. TaskShape' /\ Live' = Live
    BY <2>1, <2>2 DEF TaskShape, Queue!LiveTasks
  <2>4. Queue!RunningHasTask'
    BY <2>1, <2>2 DEF TaskShape, Queue!QueueIsAccounted, Queue!RunningHasTask
  <2> QED
    BY <1>0, <2>2, <2>3, <2>4, QueueCounts DEF Queue!QueueIsAccounted, Queue!PermitsAreKept
<1>6. ASSUME NEW t \in Tasks, Queue!Settle(t) PROVE QueueInv'
  <2>1. /\ task[t].pc = "ended" /\ task' = [task EXCEPT ![t] = [@ EXCEPT !.pc = "auditing"]]
        /\ row' = [row EXCEPT ![task[t].job] = task[t].res]
        /\ UNCHANGED <<permits, restarts>>
    BY <1>6 DEF Queue!Settle
  <2>2. /\ task'[t] = [pc |-> "auditing", job |-> task[t].job, res |-> task[t].res]
        /\ task[t].res \in Queue!Results
    BY <2>1 DEF TaskShape, Queue!Idle
  <2>3. TaskShape' /\ Live' = Live
    BY <2>1, <2>2 DEF TaskShape, Queue!LiveTasks
  <2>4. row' \in [Polled -> Queue!Statuses]
    BY <2>1, <2>2 DEF Queue!Statuses, Queue!Results
  <2>5. Queue!RunningHasTask'
    <3> SUFFICES ASSUME restarts = 0, NEW j \in Polled, row'[j] = "running"
                 PROVE  \E u \in Tasks : task'[u].pc \in {"executing", "ended"} /\ task'[u].job = j
      BY <2>1 DEF Queue!RunningHasTask
    <3>1. row[j] = "running" /\ j # task[t].job
      BY <2>1, <2>2 DEF Queue!Results
    <3>2. PICK u \in Tasks : task[u].pc \in {"executing", "ended"} /\ task[u].job = j
      BY <3>1 DEF Queue!QueueIsAccounted, Queue!RunningHasTask
    <3>3. task'[u] = task[u]
      BY <2>1, <3>1, <3>2
    <3> QED
      BY <3>2, <3>3
  <2> QED
    BY <1>0, <2>1, <2>3, <2>4, <2>5, QueueCounts DEF Queue!QueueIsAccounted, Queue!PermitsAreKept
<1>7. ASSUME NEW t \in Tasks, Queue!AuditEnd(t) PROVE QueueInv'
  <2>1. /\ task[t].pc = "auditing" /\ task' = [task EXCEPT ![t] = Queue!Idle]
        /\ permits' = permits + 1 /\ UNCHANGED <<row, restarts>>
    BY <1>7 DEF Queue!AuditEnd
  <2>2. TaskShape'
    BY <2>1 DEF TaskShape
  <2>3. Live' = Live \ {t} /\ t \in Live
    BY <2>1 DEF TaskShape, Queue!LiveTasks, Queue!Idle
  <2>4. IsFiniteSet(Live') /\ Cardinality(Live') = Cardinality(Live) - 1
    BY <2>3, FS_RemoveElement
  <2>5. Queue!RunningHasTask'
    BY <2>1 DEF TaskShape, Queue!QueueIsAccounted, Queue!RunningHasTask
  <2> QED
    BY <1>0, <2>1, <2>2, <2>4, <2>5, QueueCounts DEF Queue!QueueIsAccounted, Queue!PermitsAreKept
<1>8. CASE Queue!Restart
  <2>1. /\ permits' = Permits /\ task' = [t \in Tasks |-> Queue!Idle]
        /\ restarts' = restarts + 1 /\ row' = row
    BY <1>8 DEF Queue!Restart
  <2>2. Live' = {}
    BY <2>1 DEF Queue!LiveTasks, Queue!Idle
  <2>3. IsFiniteSet(Live') /\ Cardinality(Live') = 0
    BY <2>2, FS_EmptySet
  <2>4. TaskShape'
    BY <2>1 DEF TaskShape
  <2> QED
    BY <1>0, <2>1, <2>3, <2>4, QueueCounts
    DEF Queue!QueueIsAccounted, Queue!PermitsAreKept, Queue!RunningHasTask
<1>9. CASE UNCHANGED Queue!vars
  BY <1>9, <1>s DEF Queue!vars, Queue!QueueIsAccounted, Queue!RunningHasTask
<1> QED
  BY <1>1, <1>2, <1>3, <1>4, <1>5, <1>6, <1>7, <1>8, <1>9
  DEF Queue!Next, Queue!Worker, Queue!TaskStep

\* Free permits and live tasks are always the configured number, and until the
\* first restart every running row has the task that will settle it (bg_queue.rs,
\* worker_loop), for any number of jobs, permits and polls.
THEOREM QueueIsKept == Queue!Spec => []QueueIsAccounted
<1>1. QueueInv => QueueIsAccounted
  BY DEF QueueInv, QueueIsAccounted
<1> QED
  BY <1>1, QueueInit, QueueStep, PTL DEF Queue!Spec

----------------------------------------------------------------------------
(* Signals.  What makes the checked invariants inductive: the snapshot that *)
(* process_pending reads stays true while it is worked off, since only the  *)
(* tick writes these columns and a delivery leaves the snapshot when it is  *)
(* taken; and the cursor over the channels of an event runs ahead of its    *)
(* mark.                                                                    *)

\* Snapshot and flight belong to process_pending.
OnlyDelivering == pc # "deliver" => due = {} /\ flight = None

\* A delivery in the snapshot, or in flight, may still be attempted.
OpenIsRetryable ==
  \A d \in Router!Deliveries : d \in due \/ d = flight =>
    delivery[d] \in {"pending", "failed"} /\ attempts[d] < MaxAttempts /\ ~waiting[d]

\* A delivery is taken from the snapshot when it is attempted.
FlightIsTaken == flight \notin due

\* The channels the cursor has passed have their row.
CursorIsTrue ==
  /\ current = None => missing = {}
  /\ current # None =>
       /\ pc = "dispatch"
       /\ \A c \in Channels \ missing : delivery[<<current, c>>] # "none"

\* The inductive invariant of the router.
RouterInv ==
  /\ Router!TypeOK
  /\ OnlyDelivering
  /\ OpenIsRetryable
  /\ FlightIsTaken
  /\ CursorIsTrue
  /\ Router!DispatchedIsComplete
  /\ Router!CallsAreCounted

\* The tables are empty at first, and no tick runs.
LEMMA RouterInit == Router!Init => RouterInv
BY RouterAssumption
DEF Router!SignalsAssumption, Router!Init, RouterInv, Router!TypeOK, OnlyDelivering, OpenIsRetryable,
    FlightIsTaken, CursorIsTrue,
    Router!DispatchedIsComplete, Router!CallsAreCounted, Router!Deliveries

\* One step of the specification, as the cases of the proofs below.
LEMMA RouterCases ==
  ASSUME [Router!Next]_(Router!vars)
  PROVE  \/ \E e \in Events : Router!Emit(e) \/ Router!TakeEvent(e)
         \/ \E c \in Channels : Router!InsertDelivery(c)
         \/ \E d \in Router!Deliveries :
               Router!SkipDelivery(d) \/ Router!CallSink(d) \/ Router!BackoffEnds(d)
         \/ Router!StartTick \/ Router!MarkDispatched \/ Router!ReadDue
         \/ Router!SinkAccepts \/ Router!SinkFails
         \/ Router!EndTick \/ Router!Interrupt \/ UNCHANGED Router!vars
BY DEF Router!Next, Router!Dispatch, Router!Deliver

\* Every step keeps the inductive invariant.
LEMMA RouterStep == RouterInv /\ [Router!Next]_(Router!vars) => RouterInv'
<1> SUFFICES ASSUME RouterInv, [Router!Next]_(Router!vars) PROVE RouterInv'
  OBVIOUS
<1> USE RouterAssumption
    DEF Router!SignalsAssumption, RouterInv, Router!TypeOK, OnlyDelivering, OpenIsRetryable,
        FlightIsTaken, CursorIsTrue,
        Router!DispatchedIsComplete, Router!CallsAreCounted, Router!tables, Router!tick
<1>1. ASSUME NEW e \in Events, Router!Emit(e) PROVE RouterInv'
  BY <1>1 DEF Router!Emit, Router!Exhausted
<1>2. ASSUME NEW e \in Events, Router!TakeEvent(e) PROVE RouterInv'
  BY <1>2 DEF Router!TakeEvent, Router!Exhausted
<1>3. ASSUME NEW c \in Channels, Router!InsertDelivery(c) PROVE RouterInv'
  <2>1. current \in Events /\ <<current, c>> \in Router!Deliveries
    BY <1>3 DEF Router!InsertDelivery, Router!Deliveries
  <2>2. Router!TypeOK'
    BY <1>3, <2>1 DEF Router!InsertDelivery, Router!Exhausted
  <2>3. \A d \in Router!Deliveries : delivery[d] # "none" => delivery'[d] = delivery[d]
    BY <1>3, <2>1 DEF Router!InsertDelivery
  <2>4. delivery'[<<current, c>>] # "none"
    BY <1>3, <2>1 DEF Router!InsertDelivery
  <2>5. \A x \in Channels : <<current, x>> \in Router!Deliveries
    BY <2>1 DEF Router!Deliveries
  <2>6. CursorIsTrue'
    BY <1>3, <2>1, <2>3, <2>4, <2>5 DEF Router!InsertDelivery
  <2>7. Router!DispatchedIsComplete'
    BY <1>3, <2>3 DEF Router!InsertDelivery, Router!Deliveries
  <2>8. OnlyDelivering' /\ OpenIsRetryable' /\ FlightIsTaken' /\ Router!CallsAreCounted'
    BY <1>3, <2>3 DEF Router!InsertDelivery
  <2> QED
    BY <2>2, <2>6, <2>7, <2>8
<1>4. ASSUME NEW d \in Router!Deliveries, Router!SkipDelivery(d) PROVE RouterInv'
  <2>1. Router!TypeOK'
    BY <1>4 DEF Router!SkipDelivery, Router!Exhausted
  <2>2. \A x \in Router!Deliveries : delivery[x] # "none" => delivery'[x] # "none"
    BY <1>4 DEF Router!SkipDelivery
  <2>3. Router!DispatchedIsComplete' /\ CursorIsTrue'
    BY <1>4, <2>2 DEF Router!SkipDelivery, Router!Deliveries
  <2>4. OnlyDelivering' /\ OpenIsRetryable' /\ FlightIsTaken' /\ Router!CallsAreCounted'
    BY <1>4 DEF Router!SkipDelivery
  <2> QED
    BY <2>1, <2>3, <2>4
<1>5. ASSUME NEW d \in Router!Deliveries, Router!CallSink(d) PROVE RouterInv'
  <2>1. d[1] \in Events /\ d # None
    BY DEF Router!Deliveries
  <2>2. calls' \in [Router!Deliveries -> Nat]
    BY <1>5, <2>1 DEF Router!CallSink
  <2>3. Router!TypeOK'
    BY <1>5, <2>2 DEF Router!CallSink, Router!Exhausted
  <2>4. Router!CallsAreCounted'
    BY <1>5, <2>1 DEF Router!CallSink
  <2> QED
    BY <1>5, <2>3, <2>4 DEF Router!CallSink
<1>6. ASSUME NEW d \in Router!Deliveries, Router!BackoffEnds(d) PROVE RouterInv'
  BY <1>6 DEF Router!BackoffEnds, Router!Exhausted
<1>7. CASE Router!StartTick
  BY <1>7 DEF Router!StartTick, Router!Exhausted, Router!Remote
<1>8. CASE Router!MarkDispatched
  BY <1>8 DEF Router!MarkDispatched, Router!Exhausted
<1>9. CASE Router!ReadDue
  BY <1>9 DEF Router!ReadDue, Router!Exhausted
<1>10. CASE Router!SinkAccepts
  BY <1>10 DEF Router!SinkAccepts, Router!Exhausted, Router!Deliveries
<1>11. CASE Router!SinkFails
  <2>1. flight \in Router!Deliveries
    BY <1>11 DEF Router!SinkFails
  <2>2. Router!TypeOK'
    BY <1>11, <2>1 DEF Router!SinkFails, Router!Exhausted
  <2>3. \A x \in Router!Deliveries : delivery[x] # "none" => delivery'[x] # "none"
    BY <1>11, <2>1 DEF Router!SinkFails
  <2>4. Router!DispatchedIsComplete' /\ CursorIsTrue'
    BY <1>11, <2>3 DEF Router!SinkFails, Router!Deliveries
  <2>5. OnlyDelivering' /\ OpenIsRetryable' /\ FlightIsTaken' /\ Router!CallsAreCounted'
    BY <1>11, <2>1 DEF Router!SinkFails
  <2> QED
    BY <2>2, <2>4, <2>5
<1>12. CASE Router!EndTick
  BY <1>12 DEF Router!EndTick, Router!Exhausted
<1>13. CASE Router!Interrupt
  BY <1>13 DEF Router!Interrupt, Router!Exhausted
<1>14. CASE UNCHANGED Router!vars
  BY <1>14 DEF Router!vars, Router!Exhausted
<1> QED
  BY RouterCases, <1>1, <1>2, <1>3, <1>4, <1>5, <1>6, <1>7, <1>8, <1>9, <1>10, <1>11,
     <1>12, <1>13, <1>14

\* The inductive invariant holds in every reachable state of the router.
THEOREM RouterInvariance == Router!Spec => []RouterInv
BY RouterInit, RouterStep, PTL DEF Router!Spec

\* Types are kept, whatever is interrupted.
THEOREM TypesKept == Router!Spec => []Router!TypeOK
<1>1. RouterInv => Router!TypeOK
  BY DEF RouterInv
<1> QED
  BY <1>1, RouterInvariance, PTL

\* No event loses a delivery between its rows and its mark.
THEOREM NoDeliveryLost == Router!Spec => []DispatchedIsComplete
<1>1. RouterInv => DispatchedIsComplete
  BY DEF RouterInv, DispatchedIsComplete
<1> QED
  BY <1>1, RouterInvariance, PTL

\* Calls of a sink and counted attempts differ by interrupts only.
THEOREM RetriesAreBounded == Router!Spec => []CallsAreCounted
<1>1. RouterInv => CallsAreCounted
  BY DEF RouterInv, CallsAreCounted
<1> QED
  BY <1>1, RouterInvariance, PTL

\* A settled delivery is neither rewritten nor attempted again.
THEOREM NoRedelivery == Router!Spec => Router!SettledStays
<1>1. RouterInv /\ [Router!Next]_(Router!vars) =>
        [\A d \in Router!Deliveries :
           Router!Settled(d) => Router!Settled(d)' /\ calls'[d] = calls[d]]_(Router!vars)
  <2> SUFFICES ASSUME RouterInv, [Router!Next]_(Router!vars),
                      NEW d \in Router!Deliveries, Router!Settled(d)
               PROVE  Router!Settled(d)' /\ calls'[d] = calls[d]
    OBVIOUS
  <2> USE RouterAssumption
      DEF Router!SignalsAssumption, RouterInv, Router!TypeOK, OpenIsRetryable, Router!Settled,
          Router!Exhausted, Router!tables, Router!tick
  <2>1. d \notin due /\ d # flight
    OBVIOUS
  <2>2. CASE \E e \in Events : Router!Emit(e) \/ Router!TakeEvent(e)
    BY <2>2 DEF Router!Emit, Router!TakeEvent
  <2>3. CASE \E c \in Channels : Router!InsertDelivery(c)
    BY <2>3 DEF Router!InsertDelivery
  <2>4. CASE \E x \in Router!Deliveries :
          Router!SkipDelivery(x) \/ Router!CallSink(x) \/ Router!BackoffEnds(x)
    BY <2>1, <2>4 DEF Router!SkipDelivery, Router!CallSink, Router!BackoffEnds
  <2>5. CASE \/ Router!StartTick \/ Router!MarkDispatched \/ Router!ReadDue
            \/ Router!EndTick \/ Router!Interrupt
    BY <2>5 DEF Router!StartTick, Router!MarkDispatched, Router!ReadDue, Router!EndTick,
        Router!Interrupt
  <2>6. CASE Router!SinkAccepts \/ Router!SinkFails
    BY <2>1, <2>6 DEF Router!SinkAccepts, Router!SinkFails
  <2>7. CASE UNCHANGED Router!vars
    BY <2>7 DEF Router!vars
  <2> QED
    BY RouterCases, <2>2, <2>3, <2>4, <2>5, <2>6, <2>7
<1> QED
  BY <1>1, RouterInvariance, PTL DEF Router!Spec, Router!SettledStays

----------------------------------------------------------------------------
(* Windows                                                                  *)

\* What a task of the X is about to do, and to which label.
WindowTasks == [pc : {"idle", "begin", "persist", "remove", "close", "end"},
                label : 0 .. MaxDetached]
Settling == {"persist", "remove", "close", "end"}

\* A settle that has begun has marked its window; who is idle has none.
SettleIsMarked ==
  \A t \in Settles : (settle[t].pc \in Settling => settle[t].label \in settling)
                     /\ (settle[t].pc = "idle" => settle[t].label = 0)

\* The inductive invariant of the windows.
WindowInv == Window!TypeOK /\ Window!WindowsAgree /\ SettleIsMarked

\* The same, in the terms the proof of a step needs.
WindowShape ==
  /\ \E D \in SUBSET (1 .. MaxDetached) : layout \in [D \cup {0} -> SUBSET Panes]
  /\ reg \subseteq 1 .. MaxDetached /\ settling \subseteq 1 .. MaxDetached
  /\ open \subseteq 1 .. MaxDetached /\ closeReq \subseteq 1 .. MaxDetached
  /\ settle \in [Settles -> WindowTasks]
  /\ \A p \in Panes : \E w \in DOMAIN layout :
       p \in layout[w] /\ \A v \in DOMAIN layout \ {w} : p \notin layout[v]
  /\ \A l \in reg \ DOMAIN layout : \E t \in Settles : settle[t].pc = "remove" /\ settle[t].label = l
  /\ \A l \in settling : \E t \in Settles :
       /\ settle[t].label = l /\ settle[t].pc \in Settling
       /\ \A u \in Settles \ {t} : settle[u].label = l => settle[u].pc = "begin"
  /\ SettleIsMarked

LEMMA WindowParts == WindowInv <=> WindowShape
<1>1. MaxDetached \in Nat /\ {0} \cup (1 .. MaxDetached) = 0 .. MaxDetached
  BY WindowAssumption DEF Window!WindowsAssumption
<1>2. Window!TypeOK <=>
        /\ \E D \in SUBSET (1 .. MaxDetached) : layout \in [D \cup {0} -> SUBSET Panes]
        /\ reg \subseteq 1 .. MaxDetached /\ settling \subseteq 1 .. MaxDetached
        /\ open \subseteq 1 .. MaxDetached /\ closeReq \subseteq 1 .. MaxDetached
        /\ settle \in [Settles -> WindowTasks]
  BY <1>1 DEF Window!TypeOK, Window!Labels, Window!Main, WindowTasks
<1>3. ASSUME reg \subseteq 1 .. MaxDetached, settle \in [Settles -> WindowTasks]
      PROVE  Window!LiveWindowIsOnRecord <=>
               \A l \in reg \ DOMAIN layout : \E t \in Settles : settle[t].pc = "remove" /\ settle[t].label = l
  <2>1. reg \ Window!Detached = reg \ DOMAIN layout
    BY <1>1, <1>3 DEF Window!Detached, Window!Main
  <2>2. \A t \in Settles : \A l :
          settle[t] = [pc |-> "remove", label |-> l] <=> settle[t].pc = "remove" /\ settle[t].label = l
    BY <1>3 DEF WindowTasks
  <2> QED BY <2>1, <2>2 DEF Window!LiveWindowIsOnRecord
<1> QED
  BY <1>2, <1>3 DEF WindowInv, Window!WindowsAgree, Window!PaneInOneWindow, Window!MarkIsOwned, WindowShape,
     Settling

\* At first there is the main window.
LEMMA WindowInit == Window!Init => WindowInv
<1> SUFFICES ASSUME Window!Init PROVE WindowInv
  OBVIOUS
<1>0. MaxDetached \in Nat
  BY WindowAssumption DEF Window!WindowsAssumption
<1>1. /\ layout = [w \in {0} |-> Panes] /\ reg = {} /\ settling = {} /\ open = {} /\ closeReq = {}
      /\ settle = [t \in Settles |-> [pc |-> "idle", label |-> 0]]
  BY DEF Window!Init, Window!Main, Window!Idle
<1>2. layout \in [{} \cup {0} -> SUBSET Panes]
  BY <1>1
<1>3. settle \in [Settles -> WindowTasks] /\ \A t \in Settles : settle[t].pc = "idle" /\ settle[t].label = 0
  BY <1>0, <1>1 DEF WindowTasks
<1>4. \A p \in Panes : p \in layout[0] /\ \A v \in DOMAIN layout \ {0} : p \notin layout[v]
  BY <1>1
<1>5. 0 \in DOMAIN layout
  BY <1>1
<1> QED
  BY <1>1, <1>2, <1>3, <1>4, <1>5, WindowParts DEF Settling, WindowShape, SettleIsMarked

\* Every step keeps it.
LEMMA WindowStep == WindowInv /\ [Window!Next]_(Window!vars) => WindowInv'
<1> SUFFICES ASSUME WindowInv, [Window!Next]_(Window!vars) PROVE WindowInv'
  OBVIOUS
<1> DEFINE Labels == 1 .. MaxDetached
<1>a. /\ reg \subseteq Labels /\ settling \subseteq Labels
      /\ open \subseteq Labels /\ closeReq \subseteq Labels
      /\ settle \in [Settles -> WindowTasks] /\ MaxDetached \in Nat
  BY WindowParts, WindowAssumption DEF WindowShape, Window!WindowsAssumption
<1>l. PICK D \in SUBSET Labels : layout \in [D \cup {0} -> SUBSET Panes]
  BY WindowParts DEF WindowShape, SettleIsMarked
<1>b. \A p \in Panes : \E w \in DOMAIN layout :
        p \in layout[w] /\ \A v \in DOMAIN layout \ {w} : p \notin layout[v]
  BY WindowParts DEF WindowShape, SettleIsMarked
<1>c. \A l \in reg \ DOMAIN layout : \E t \in Settles : settle[t].pc = "remove" /\ settle[t].label = l
  BY WindowParts DEF WindowShape, SettleIsMarked
<1>d. \A l \in settling : \E t \in Settles :
        /\ settle[t].label = l /\ settle[t].pc \in Settling
        /\ \A u \in Settles \ {t} : settle[u].label = l => settle[u].pc = "begin"
  BY WindowParts DEF WindowShape, SettleIsMarked
<1>e. \A t \in Settles : (settle[t].pc \in Settling => settle[t].label \in settling)
                         /\ (settle[t].pc = "idle" => settle[t].label = 0)
  BY WindowParts DEF WindowShape, SettleIsMarked
<1>k. 0 \notin Labels
  BY <1>a
<1> HIDE DEF Labels
\* What there is to show, from the layout and from the registry of a step.
<1>f. ASSUME \E E \in SUBSET Labels : layout' \in [E \cup {0} -> SUBSET Panes],
             \A p \in Panes : \E w \in DOMAIN layout' :
               p \in layout'[w] /\ \A v \in DOMAIN layout' \ {w} : p \notin layout'[v],
             reg' \subseteq Labels, settling' \subseteq Labels, open' \subseteq Labels, closeReq' \subseteq Labels,
             settle' \in [Settles -> WindowTasks],
             \A l \in reg' \ DOMAIN layout' : \E t \in Settles : settle'[t].pc = "remove" /\ settle'[t].label = l,
             \A l \in settling' : \E t \in Settles :
               /\ settle'[t].label = l /\ settle'[t].pc \in Settling
               /\ \A u \in Settles \ {t} : settle'[u].label = l => settle'[u].pc = "begin",
             \A t \in Settles : (settle'[t].pc \in Settling => settle'[t].label \in settling')
                                /\ (settle'[t].pc = "idle" => settle'[t].label = 0)
      PROVE  WindowInv'
  <2>1. WindowShape' => WindowInv'
    BY WindowParts, PTL
  <2> QED BY <1>f, <2>1 DEF Labels, WindowShape, SettleIsMarked
\* A window of l comes back to Main: its panes are in Main, and the others stay.
<1>g. ASSUME NEW l \in Labels, Window!Reattach(l)
      PROVE  /\ \E E \in SUBSET Labels : layout' \in [E \cup {0} -> SUBSET Panes]
             /\ DOMAIN layout' = DOMAIN layout \ {l}
             /\ \A p \in Panes : \E w \in DOMAIN layout' :
                  p \in layout'[w] /\ \A v \in DOMAIN layout' \ {w} : p \notin layout'[v]
  <2>1. layout' = [w \in DOMAIN layout \ {l} |->
                     IF w = 0 /\ l \in DOMAIN layout \ {0} THEN layout[w] \cup layout[l] ELSE layout[w]]
    BY <1>g DEF Window!Reattach, Window!Main, Window!Detached
  <2>2. DOMAIN layout = D \cup {0} /\ DOMAIN layout' = (D \ {l}) \cup {0} /\ l # 0
    BY <1>k, <1>l, <2>1
  <2>3. layout' \in [(D \ {l}) \cup {0} -> SUBSET Panes]
    BY <1>l, <2>1, <2>2
  <2>4. ASSUME NEW p \in Panes
        PROVE  \E w \in DOMAIN layout' : p \in layout'[w] /\ \A v \in DOMAIN layout' \ {w} : p \notin layout'[v]
    <3>1. PICK w \in DOMAIN layout : p \in layout[w] /\ \A v \in DOMAIN layout \ {w} : p \notin layout[v]
      BY <1>b
    <3>2. CASE w = l
      <4>1. p \in layout'[0] /\ \A v \in DOMAIN layout' \ {0} : p \notin layout'[v]
        BY <2>1, <2>2, <3>1, <3>2
      <4> QED BY <2>2, <4>1
    <3>3. CASE w # l
      <4>1. w \in DOMAIN layout' /\ p \in layout'[w] /\ \A v \in DOMAIN layout' \ {w} : p \notin layout'[v]
        BY <2>1, <2>2, <3>1, <3>3
      <4> QED BY <4>1
    <3> QED BY <3>2, <3>3
  <2> QED BY <2>2, <2>3, <2>4
\* A task of the X goes from one step to the next, or ends: marks and registry.
<1>h. ASSUME NEW t \in Settles, NEW to \in {"idle", "begin", "persist", "remove", "close", "end"},
             NEW l \in 0 .. MaxDetached, settle' = [settle EXCEPT ![t] = [pc |-> to, label |-> l]]
      PROVE  /\ settle' \in [Settles -> WindowTasks]
             /\ settle'[t].pc = to /\ settle'[t].label = l
             /\ \A u \in Settles \ {t} : settle'[u] = settle[u]
  BY <1>a, <1>h DEF WindowTasks
\* The same, when it keeps its label.
<1>i. ASSUME NEW t \in Settles, NEW to \in {"idle", "begin", "persist", "remove", "close", "end"},
             settle' = [settle EXCEPT ![t].pc = to]
      PROVE  /\ settle' \in [Settles -> WindowTasks]
             /\ settle'[t].pc = to /\ settle'[t].label = settle[t].label
             /\ \A u \in Settles \ {t} : settle'[u] = settle[u]
  BY <1>a, <1>i DEF WindowTasks
<1>1. ASSUME NEW p \in Panes, Window!OpenDetached(p) PROVE WindowInv'
  <2>1. PICK l \in Labels :
          /\ \A t \in Settles : settle[t].pc \notin {"persist", "remove"}
          /\ p \in layout[0] /\ l \notin DOMAIN layout \ {0}
          /\ layout' = [w \in DOMAIN layout \cup {l} |->
                          IF w = l THEN {p} ELSE IF w = 0 THEN layout[w] \ {p} ELSE layout[w]]
          /\ open' = open \cup {l} /\ reg' = reg \cup {l} /\ UNCHANGED <<settling, closeReq, settle>>
    BY <1>1 DEF Window!OpenDetached, Window!TxFree, Window!NextKey, Window!DetachPane, Window!Main, Window!Detached,
       Window!Labels, Labels
  <2>2. DOMAIN layout = D \cup {0} /\ DOMAIN layout' = (D \cup {l}) \cup {0} /\ l # 0 /\ l \notin D
    BY <1>k, <1>l, <2>1
  <2>3. layout' \in [(D \cup {l}) \cup {0} -> SUBSET Panes]
    BY <1>l, <2>1, <2>2
  <2>4. ASSUME NEW q \in Panes
        PROVE  \E w \in DOMAIN layout' : q \in layout'[w] /\ \A v \in DOMAIN layout' \ {w} : q \notin layout'[v]
    <3>1. PICK w \in DOMAIN layout : q \in layout[w] /\ \A v \in DOMAIN layout \ {w} : q \notin layout[v]
      BY <1>b
    <3>2. CASE q = p
      <4>1. w = 0
        BY <2>1, <2>2, <3>1, <3>2
      <4>2. q \in layout'[l] /\ \A v \in DOMAIN layout' \ {l} : q \notin layout'[v]
        BY <2>1, <2>2, <3>1, <3>2, <4>1
      <4> QED BY <2>2, <4>2
    <3>3. CASE q # p
      <4>1. w \in DOMAIN layout' /\ q \in layout'[w] /\ \A v \in DOMAIN layout' \ {w} : q \notin layout'[v]
        BY <2>1, <2>2, <3>1, <3>3
      <4> QED BY <4>1
    <3> QED BY <3>2, <3>3
  <2>5. reg' \subseteq DOMAIN layout'
    <3>1. reg \subseteq DOMAIN layout
      BY <1>c, <2>1
    <3> QED BY <2>1, <2>2, <3>1
  <2>6. D \cup {l} \in SUBSET Labels
    BY <2>1
  <2>7. reg' \subseteq Labels /\ open' \subseteq Labels
    BY <1>a, <2>1 DEF Labels
  <2>8. \E E \in SUBSET Labels : layout' \in [E \cup {0} -> SUBSET Panes]
    BY <2>3, <2>6
  <2>9. settling' = settling /\ closeReq' = closeReq /\ settle' = settle
    BY <2>1
  <2> QED BY <1>a, <1>d, <1>e, <1>f, <2>4, <2>5, <2>7, <2>8, <2>9
<1>2. ASSUME NEW p \in Panes, Window!OpenDetachedFails(p) PROVE WindowInv'
  <2>1. PICK l \in Labels : open' = open \cup {l} /\ closeReq' = closeReq \cup {l}
                            /\ UNCHANGED <<layout, reg, settling, settle>>
    BY <1>2 DEF Window!OpenDetachedFails, Window!Labels, Labels
  <2> QED BY <1>a, <1>b, <1>c, <1>d, <1>e, <1>f, <1>l, <2>1 DEF Labels
\* A settle goes on: its mark stays with it.
<1>m. ASSUME NEW t \in Settles, settle[t].pc \in Settling, settle'[t].pc \in Settling,
             settle'[t].label = settle[t].label, settling' = settling,
             \A u \in Settles \ {t} : settle'[u] = settle[u]
      PROVE  /\ \A l \in settling' : \E u \in Settles :
                  /\ settle'[u].label = l /\ settle'[u].pc \in Settling
                  /\ \A v \in Settles \ {u} : settle'[v].label = l => settle'[v].pc = "begin"
             /\ \A u \in Settles : (settle'[u].pc \in Settling => settle'[u].label \in settling')
                                   /\ (settle'[u].pc = "idle" => settle'[u].label = 0)
  <2>1. ASSUME NEW l \in settling
        PROVE  \E u \in Settles :
                 /\ settle'[u].label = l /\ settle'[u].pc \in Settling
                 /\ \A v \in Settles \ {u} : settle'[v].label = l => settle'[v].pc = "begin"
    <3>1. PICK u \in Settles :
            /\ settle[u].label = l /\ settle[u].pc \in Settling
            /\ \A v \in Settles \ {u} : settle[v].label = l => settle[v].pc = "begin"
      BY <1>d
    <3>2. CASE u = t
      BY <1>m, <3>1, <3>2
    <3>3. CASE u # t
      <4>1. settle[t].label # l
        BY <1>m, <3>1, <3>3 DEF Settling
      <4> QED BY <1>m, <3>1, <3>3, <4>1
    <3> QED BY <3>2, <3>3
  <2>2. ASSUME NEW u \in Settles
        PROVE  /\ settle'[u].pc \in Settling => settle'[u].label \in settling'
               /\ settle'[u].pc = "idle" => settle'[u].label = 0
    BY <1>e, <1>m DEF Settling
  <2> QED BY <1>m, <2>1, <2>2
\* A settle ends, and gives its mark back.
<1>n. ASSUME NEW t \in Settles, settle[t].pc \in Settling, settle'[t].pc = "idle", settle'[t].label = 0,
             settling' = settling \ {settle[t].label},
             \A u \in Settles \ {t} : settle'[u] = settle[u]
      PROVE  /\ \A l \in settling' : \E u \in Settles :
                  /\ settle'[u].label = l /\ settle'[u].pc \in Settling
                  /\ \A v \in Settles \ {u} : settle'[v].label = l => settle'[v].pc = "begin"
             /\ \A u \in Settles : (settle'[u].pc \in Settling => settle'[u].label \in settling')
                                   /\ (settle'[u].pc = "idle" => settle'[u].label = 0)
  <2>1. ASSUME NEW l \in settling'
        PROVE  \E u \in Settles :
                 /\ settle'[u].label = l /\ settle'[u].pc \in Settling
                 /\ \A v \in Settles \ {u} : settle'[v].label = l => settle'[v].pc = "begin"
    <3>1. PICK u \in Settles :
            /\ settle[u].label = l /\ settle[u].pc \in Settling
            /\ \A v \in Settles \ {u} : settle[v].label = l => settle[v].pc = "begin"
      BY <1>d, <1>n
    <3>2. u # t /\ l # 0
      BY <1>a, <1>k, <1>n, <3>1
    <3> QED BY <1>n, <3>1, <3>2
  <2>2. ASSUME NEW u \in Settles
        PROVE  /\ settle'[u].pc \in Settling => settle'[u].label \in settling'
               /\ settle'[u].pc = "idle" => settle'[u].label = 0
    <3>1. CASE u = t
      BY <1>n, <3>1 DEF Settling
    <3>2. CASE u # t /\ settle[u].pc \in Settling
      <4>1. settle[u].label # settle[t].label
        <5>1. PICK v \in Settles : \A x \in Settles \ {v} :
                settle[x].label = settle[t].label => settle[x].pc = "begin"
          BY <1>d, <1>e, <1>n
        <5> QED BY <1>n, <3>2, <5>1 DEF Settling
      <4> QED BY <1>e, <1>n, <3>2, <4>1
    <3>3. CASE u # t /\ settle[u].pc \notin Settling
      BY <1>e, <1>n, <3>3
    <3> QED BY <3>1, <3>2, <3>3
  <2> QED BY <2>1, <2>2
\* A task of which no mark tells begins, or gives up: the marks stay.
<1>o. ASSUME NEW t \in Settles, settle[t].pc \notin Settling, settling' = settling,
             \/ settle'[t].pc = "begin"
             \/ settle'[t].pc = "idle" /\ settle'[t].label = 0,
             \A u \in Settles \ {t} : settle'[u] = settle[u]
      PROVE  /\ \A l \in settling' : \E u \in Settles :
                  /\ settle'[u].label = l /\ settle'[u].pc \in Settling
                  /\ \A v \in Settles \ {u} : settle'[v].label = l => settle'[v].pc = "begin"
             /\ \A u \in Settles : (settle'[u].pc \in Settling => settle'[u].label \in settling')
                                   /\ (settle'[u].pc = "idle" => settle'[u].label = 0)
  <2>1. ASSUME NEW l \in settling
        PROVE  \E u \in Settles :
                 /\ settle'[u].label = l /\ settle'[u].pc \in Settling
                 /\ \A v \in Settles \ {u} : settle'[v].label = l => settle'[v].pc = "begin"
    <3>1. PICK u \in Settles :
            /\ settle[u].label = l /\ settle[u].pc \in Settling
            /\ \A v \in Settles \ {u} : settle[v].label = l => settle[v].pc = "begin"
      BY <1>d
    <3>2. u # t /\ l # 0
      BY <1>a, <1>k, <1>o, <3>1
    <3> QED BY <1>o, <3>1, <3>2
  <2>2. ASSUME NEW u \in Settles
        PROVE  /\ settle'[u].pc \in Settling => settle'[u].label \in settling'
               /\ settle'[u].pc = "idle" => settle'[u].label = 0
    <3>1. CASE u = t
      BY <1>o, <3>1 DEF Settling
    <3>2. CASE u # t
      BY <1>e, <1>o, <3>2
    <3> QED BY <3>1, <3>2
  <2> QED BY <1>o, <2>1, <2>2
<1>3. ASSUME NEW t \in Settles, Window!SettleBegin(t) PROVE WindowInv'
  <2>1. settle[t].pc = "begin" /\ UNCHANGED <<layout, reg, open, closeReq>>
    BY <1>3 DEF Window!SettleBegin
  <2>2. CASE settle[t].label \in reg /\ settle[t].label \notin settling
    <3>1. settling' = settling \cup {settle[t].label} /\ settle' = [settle EXCEPT ![t].pc = "persist"]
      BY <1>3, <2>2 DEF Window!SettleBegin
    <3>2. /\ settle' \in [Settles -> WindowTasks]
          /\ settle'[t].pc = "persist" /\ settle'[t].label = settle[t].label
          /\ \A u \in Settles \ {t} : settle'[u] = settle[u]
      BY <1>i, <3>1
    <3>3. \A l \in reg \ DOMAIN layout : \E u \in Settles : settle'[u].pc = "remove" /\ settle'[u].label = l
      BY <1>c, <2>1, <3>2
    <3>4. ASSUME NEW l \in settling'
          PROVE  \E u \in Settles :
                   /\ settle'[u].label = l /\ settle'[u].pc \in Settling
                   /\ \A v \in Settles \ {u} : settle'[v].label = l => settle'[v].pc = "begin"
      <4>1. CASE l = settle[t].label
        <5>1. ASSUME NEW v \in Settles \ {t}, settle[v].label = l PROVE settle[v].pc = "begin"
          <6>1. settle[v].pc \notin Settling
            BY <1>e, <2>2, <4>1, <5>1
          <6>2. settle[v].pc # "idle"
            BY <1>a, <1>e, <1>k, <2>2, <4>1, <5>1
          <6> QED BY <1>a, <6>1, <6>2 DEF WindowTasks, Settling
        <5> QED BY <3>2, <4>1, <5>1 DEF Settling
      <4>2. CASE l # settle[t].label
        <5>1. PICK u \in Settles :
                /\ settle[u].label = l /\ settle[u].pc \in Settling
                /\ \A v \in Settles \ {u} : settle[v].label = l => settle[v].pc = "begin"
          BY <1>d, <3>1, <4>2
        <5> QED BY <3>2, <4>2, <5>1
      <4> QED BY <4>1, <4>2
    <3>5. \A u \in Settles : (settle'[u].pc \in Settling => settle'[u].label \in settling')
                             /\ (settle'[u].pc = "idle" => settle'[u].label = 0)
      BY <1>e, <3>1, <3>2
    <3>6. settling' \subseteq Labels
      BY <1>a, <2>2, <3>1
    <3> QED BY <1>a, <1>b, <1>f, <1>l, <2>1, <3>2, <3>3, <3>4, <3>5, <3>6
  <2>3. CASE ~(settle[t].label \in reg /\ settle[t].label \notin settling)
    <3>1. settling' = settling /\ settle' = [settle EXCEPT ![t] = [pc |-> "idle", label |-> 0]]
      BY <1>3, <2>3 DEF Window!SettleBegin, Window!Idle, Window!Main
    <3>0. 0 \in 0 .. MaxDetached
      BY <1>a
    <3>2. /\ settle' \in [Settles -> WindowTasks]
          /\ settle'[t].pc = "idle" /\ settle'[t].label = 0
          /\ \A u \in Settles \ {t} : settle'[u] = settle[u]
      BY <1>h, <3>0, <3>1
    <3>3. \A l \in reg \ DOMAIN layout : \E u \in Settles : settle'[u].pc = "remove" /\ settle'[u].label = l
      BY <1>c, <2>1, <3>2
    <3>4. settle[t].pc \notin Settling
      BY <2>1 DEF Settling
    <3> QED BY <1>a, <1>b, <1>f, <1>l, <1>o, <2>1, <3>1, <3>2, <3>3, <3>4
  <2> QED BY <2>2, <2>3
<1>4. ASSUME NEW t \in Settles, Window!SettlePersist(t) PROVE WindowInv'
  <2>1. /\ settle[t].pc = "persist" /\ Window!Reattach(settle[t].label)
        /\ settle' = [settle EXCEPT ![t].pc = "remove"]
        /\ settling' = settling /\ UNCHANGED <<reg, open, closeReq>>
    BY <1>4 DEF Window!SettlePersist
  <2>2. settle[t].pc \in Settling /\ settle[t].label \in Labels
    BY <1>a, <1>e, <2>1 DEF Settling
  <2>3. /\ settle' \in [Settles -> WindowTasks]
        /\ settle'[t].pc = "remove" /\ settle'[t].label = settle[t].label
        /\ \A u \in Settles \ {t} : settle'[u] = settle[u]
    BY <1>i, <2>1
  <2>4. DOMAIN layout' = DOMAIN layout \ {settle[t].label}
    BY <1>g, <2>1, <2>2
  <2>5. \A l \in reg' \ DOMAIN layout' : \E u \in Settles : settle'[u].pc = "remove" /\ settle'[u].label = l
    BY <1>c, <2>1, <2>3, <2>4
  <2>6. settle'[t].pc \in Settling
    BY <2>3 DEF Settling
  <2> QED BY <1>a, <1>f, <1>g, <1>m, <2>1, <2>2, <2>3, <2>5, <2>6
<1>5. ASSUME NEW t \in Settles, Window!SettleFails(t) \/ Window!TaskEnd(t) PROVE WindowInv'
  <2>1. /\ settle[t].pc \in Settling /\ settle[t].pc # "remove"
        /\ settling' = settling \ {settle[t].label}
        /\ settle' = [settle EXCEPT ![t] = [pc |-> "idle", label |-> 0]]
        /\ UNCHANGED <<layout, reg, open, closeReq>>
    BY <1>5 DEF Window!SettleFails, Window!TaskEnd, Window!Idle, Window!Main, Settling
  <2>0. 0 \in 0 .. MaxDetached
    BY <1>a
  <2>2. /\ settle' \in [Settles -> WindowTasks]
        /\ settle'[t].pc = "idle" /\ settle'[t].label = 0
        /\ \A u \in Settles \ {t} : settle'[u] = settle[u]
    BY <1>h, <2>0, <2>1
  <2>3. \A l \in reg' \ DOMAIN layout' : \E u \in Settles : settle'[u].pc = "remove" /\ settle'[u].label = l
    BY <1>c, <2>1, <2>2
  <2>4. settling' \subseteq Labels
    BY <1>a, <2>1
  <2> QED BY <1>a, <1>b, <1>f, <1>l, <1>n, <2>1, <2>2, <2>3, <2>4
<1>6. ASSUME NEW t \in Settles, Window!SettleRemove(t) PROVE WindowInv'
  <2>1. /\ settle[t].pc = "remove" /\ reg' = reg \ {settle[t].label}
        /\ settle' = [settle EXCEPT ![t].pc = "close"]
        /\ settling' = settling /\ UNCHANGED <<layout, open, closeReq>>
    BY <1>6 DEF Window!SettleRemove
  <2>2. /\ settle' \in [Settles -> WindowTasks]
        /\ settle'[t].pc = "close" /\ settle'[t].label = settle[t].label
        /\ \A u \in Settles \ {t} : settle'[u] = settle[u]
    BY <1>i, <2>1
  <2>3. \A l \in reg' \ DOMAIN layout' : \E u \in Settles : settle'[u].pc = "remove" /\ settle'[u].label = l
    BY <1>c, <2>1, <2>2
  <2>4. reg' \subseteq Labels /\ settle[t].pc \in Settling /\ settle'[t].pc \in Settling
    BY <1>a, <2>1, <2>2 DEF Settling
  <2> QED BY <1>a, <1>b, <1>f, <1>l, <1>m, <2>1, <2>2, <2>3, <2>4
<1>7. ASSUME NEW t \in Settles, Window!TaskClose(t) PROVE WindowInv'
  <2>1. /\ settle[t].pc = "close" /\ closeReq' \subseteq closeReq \cup open
        /\ settle' = [settle EXCEPT ![t].pc = "end"]
        /\ settling' = settling /\ UNCHANGED <<layout, reg, open>>
    BY <1>7 DEF Window!TaskClose
  <2>2. /\ settle' \in [Settles -> WindowTasks]
        /\ settle'[t].pc = "end" /\ settle'[t].label = settle[t].label
        /\ \A u \in Settles \ {t} : settle'[u] = settle[u]
    BY <1>i, <2>1
  <2>3. \A l \in reg' \ DOMAIN layout' : \E u \in Settles : settle'[u].pc = "remove" /\ settle'[u].label = l
    BY <1>c, <2>1, <2>2
  <2>4. closeReq' \subseteq Labels /\ settle[t].pc \in Settling /\ settle'[t].pc \in Settling
    BY <1>a, <2>1, <2>2 DEF Settling
  <2> QED BY <1>a, <1>b, <1>f, <1>l, <1>m, <2>1, <2>2, <2>3, <2>4
<1>8. ASSUME NEW l \in Labels, Window!WindowClose(l) PROVE WindowInv'
  <2>1. /\ Window!Reattach(l) /\ reg' = reg \ {l} /\ closeReq' = closeReq \cup {l}
        /\ UNCHANGED <<settling, open, settle>>
    BY <1>8 DEF Window!WindowClose
  <2>2. reg' \ DOMAIN layout' \subseteq reg \ DOMAIN layout
    BY <1>g, <2>1
  <2>3. reg' \subseteq Labels /\ closeReq' \subseteq Labels
    BY <1>a, <2>1
  <2>4. /\ \E E \in SUBSET Labels : layout' \in [E \cup {0} -> SUBSET Panes]
        /\ \A p \in Panes : \E w \in DOMAIN layout' :
             p \in layout'[w] /\ \A v \in DOMAIN layout' \ {w} : p \notin layout'[v]
    BY <1>g, <2>1
  <2>5. settling' = settling /\ open' = open /\ settle' = settle
    BY <2>1
  <2>6. \A k \in reg' \ DOMAIN layout' : \E t \in Settles : settle'[t].pc = "remove" /\ settle'[t].label = k
    BY <1>c, <2>2, <2>5
  <2> QED BY <1>a, <1>d, <1>e, <1>f, <2>3, <2>4, <2>5, <2>6
<1>9. ASSUME NEW l \in Labels, Window!PressX(l) PROVE WindowInv'
  <2>1. closeReq' = closeReq \cup {l} /\ UNCHANGED <<layout, reg, settling, open, settle>>
    BY <1>9 DEF Window!PressX
  <2>2. closeReq' \subseteq Labels
    BY <1>a, <2>1
  <2> QED BY <1>a, <1>b, <1>c, <1>d, <1>e, <1>f, <1>l, <2>1, <2>2
<1>10. ASSUME NEW l \in Labels, Window!CloseRequestedLive(l) PROVE WindowInv'
  <2>1. /\ closeReq' = closeReq \ {l} /\ settling' = settling /\ UNCHANGED <<layout, reg, open>>
    BY <1>10 DEF Window!CloseRequestedLive
  <2>2. PICK t \in Settles : /\ settle[t] = [pc |-> "idle", label |-> 0]
                             /\ settle' = [settle EXCEPT ![t] = [pc |-> "begin", label |-> l]]
    BY <1>10 DEF Window!CloseRequestedLive, Window!Idle, Window!Main
  <2>3. settle[t].pc = "idle" /\ settle[t].pc \notin Settling
    BY <2>2 DEF Settling
  <2>4. /\ settle' \in [Settles -> WindowTasks]
        /\ settle'[t].pc = "begin"
        /\ \A u \in Settles \ {t} : settle'[u] = settle[u]
    <3>1. l \in 0 .. MaxDetached
      BY <1>a DEF Labels
    <3> QED BY <1>h, <2>2, <3>1
  <2>5. \A k \in reg' \ DOMAIN layout' : \E u \in Settles : settle'[u].pc = "remove" /\ settle'[u].label = k
    BY <1>c, <2>1, <2>3, <2>4
  <2>6. closeReq' \subseteq Labels
    BY <1>a, <2>1
  <2> QED BY <1>a, <1>b, <1>f, <1>l, <1>o, <2>1, <2>3, <2>4, <2>5, <2>6
<1>11. ASSUME NEW l \in Labels, Window!CloseRequestedGone(l) PROVE WindowInv'
  <2>1. /\ closeReq' = closeReq \ {l} /\ open' = open \ {l} /\ UNCHANGED <<layout, reg, settling, settle>>
    BY <1>11 DEF Window!CloseRequestedGone
  <2>2. closeReq' \subseteq Labels /\ open' \subseteq Labels
    BY <1>a, <2>1
  <2> QED BY <1>a, <1>b, <1>c, <1>d, <1>e, <1>f, <1>l, <2>1, <2>2
<1>12. ASSUME Window!Restart PROVE WindowInv'
  <2>1. /\ layout' = layout /\ reg' = {} /\ settling' = {} /\ open' = {} /\ closeReq' = {}
        /\ settle' = [t \in Settles |-> [pc |-> "idle", label |-> 0]]
    BY <1>12 DEF Window!Restart, Window!Idle, Window!Main
  <2>2. settle' \in [Settles -> WindowTasks] /\ \A t \in Settles : settle'[t].pc = "idle" /\ settle'[t].label = 0
    BY <1>a, <2>1 DEF WindowTasks
  <2> QED BY <1>b, <1>f, <1>l, <2>1, <2>2 DEF Settling
<1>13. ASSUME UNCHANGED Window!vars PROVE WindowInv'
  BY <1>a, <1>b, <1>c, <1>d, <1>e, <1>f, <1>l, <1>13 DEF Window!vars
<1> QED
  BY <1>1, <1>2, <1>3, <1>4, <1>5, <1>6, <1>7, <1>8, <1>9, <1>10, <1>11, <1>12, <1>13
  DEF Window!Next, Window!TaskStep, Window!CloseRequested, Window!Labels, Labels

\* Whatever is opened, closed, retried, lost or restarted, each pane is in one
\* window on record, a live window is on record, and a mark has one owner
\* (window_reattach.rs, lib.rs), for any panes and any number of windows.
THEOREM WindowsStayInStep == Window!Spec => []Window!WindowsAgree
<1>1. WindowInv => Window!WindowsAgree
  BY DEF WindowInv
<1> QED
  BY <1>1, WindowInit, WindowStep, PTL DEF Window!Spec

----------------------------------------------------------------------------
(* Attention                                                                *)

\* A row of a task, and what a tick knows of it.
TaskRows == [state : {"running", "awaiting_review", "canceled"}, needs : BOOLEAN]
SeenTasks == [pc : {"no", "listed", "read"}, needs : BOOLEAN, late : BOOLEAN,
              moved : BOOLEAN, tail : {"trust", "danger", "work", "idle"}]

\* Whoever has had an Enter shows what it was sent to.  A trust prompt is then
\* known as such by its row, and by the tick that has listed it; and what that
\* tick has read is what is shown.
EnteredIsKnown ==
  \A p \in Watched : entered[p] # 0 =>
    /\ seen[p].pc = "read" => seen[p].tail = screen[p]
    /\ screen[p] = "trust" /\ Screen!Running(p) => taskRow[p].needs
    /\ screen[p] = "trust" /\ seen[p].pc # "no" => seen[p].needs

\* The inductive invariant of the poller.
ScreenInv == Screen!TypeOK /\ Screen!OneEnterPerPrompt /\ EnteredIsKnown

\* A row that is written stays a row.
LEMMA RowIsWritten ==
  ASSUME NEW r \in TaskRows, NEW b \in BOOLEAN
  PROVE  /\ [r EXCEPT !.needs = b] \in TaskRows /\ [r EXCEPT !.needs = b].needs = b
         /\ [r EXCEPT !.state = "canceled"] \in TaskRows
         /\ [r EXCEPT !.state = "canceled"].state = "canceled"
BY DEF TaskRows

\* What a tick knows of a task it has not listed, and of one it has.
LEMMA NobodyListed == Screen!NotListed \in SeenTasks /\ Screen!NotListed.pc = "no"
BY DEF SeenTasks, Screen!NotListed

LEMMA ListedIsKnown ==
  ASSUME NEW n \in SeenTasks, NEW b \in BOOLEAN, NEW l \in BOOLEAN
  PROVE  /\ [n EXCEPT !.pc = "listed", !.needs = b, !.late = l] \in SeenTasks
         /\ [n EXCEPT !.pc = "listed", !.needs = b, !.late = l].pc = "listed"
         /\ [n EXCEPT !.pc = "listed", !.needs = b, !.late = l].needs = b
BY DEF SeenTasks

\* At first nobody asks.
LEMMA ScreenInit == Screen!Init => ScreenInv
<1> SUFFICES ASSUME Screen!Init PROVE ScreenInv
  OBVIOUS
<1>1. Screen!TypeOK
  BY ScreenAssumption DEF Screen!Init, Screen!TypeOK, Screen!AttentionAssumption, Screen!NotListed,
     Screen!Screens, Screen!Prompts, Screen!Quiet, Screen!HasResult, Screen!NeedsInput
<1>2. Screen!OneEnterPerPrompt /\ EnteredIsKnown
  BY DEF Screen!Init, Screen!OneEnterPerPrompt, EnteredIsKnown
<1> QED BY <1>1, <1>2 DEF ScreenInv

\* Every step keeps it: the agents, the human, and each step of a tick.
LEMMA ScreenStep == ScreenInv /\ [Screen!Next]_(Screen!vars) => ScreenInv'
<1> SUFFICES ASSUME ScreenInv, [Screen!Next]_(Screen!vars) PROVE ScreenInv'
  OBVIOUS
<1>a. /\ screen \in [Watched -> {"trust", "danger", "work", "idle"}]
      /\ moved \subseteq Watched /\ on \subseteq Watched /\ late \subseteq Watched /\ hushed \subseteq Watched
      /\ taskRow \in [Watched -> TaskRows]
      /\ streak \in [Watched -> 0 .. Debounce] /\ Debounce \in Nat \ {0}
      /\ seen \in [Watched -> SeenTasks]
      /\ claim \in [Watched -> {0, 1, 2}] /\ entered \in [Watched -> 0 .. 2]
  BY ScreenAssumption DEF ScreenInv, Screen!TypeOK, Screen!AttentionAssumption, TaskRows, SeenTasks,
     Screen!Screens, Screen!Prompts, Screen!Quiet, Screen!HasResult, Screen!NeedsInput
<1>b. \A p \in Watched : entered[p] <= 1 /\ (entered[p] # 0 =>
        /\ seen[p].pc = "read" => seen[p].tail = screen[p]
        /\ screen[p] = "trust" /\ taskRow[p].state = "running" => taskRow[p].needs
        /\ screen[p] = "trust" /\ seen[p].pc # "no" => seen[p].needs)
  BY DEF ScreenInv, Screen!OneEnterPerPrompt, EnteredIsKnown, Screen!Running
<1>c. ASSUME /\ screen' \in [Watched -> {"trust", "danger", "work", "idle"}]
             /\ moved' \subseteq Watched /\ on' \subseteq Watched /\ late' \subseteq Watched
             /\ hushed' \subseteq Watched
             /\ taskRow' \in [Watched -> TaskRows]
             /\ streak' \in [Watched -> 0 .. Debounce]
             /\ seen' \in [Watched -> SeenTasks]
             /\ claim' \in [Watched -> {0, 1, 2}] /\ entered' \in [Watched -> 0 .. 2],
             \A p \in Watched : entered'[p] <= 1 /\ (entered'[p] # 0 =>
               /\ seen'[p].pc = "read" => seen'[p].tail = screen'[p]
               /\ screen'[p] = "trust" /\ taskRow'[p].state = "running" => taskRow'[p].needs
               /\ screen'[p] = "trust" /\ seen'[p].pc # "no" => seen'[p].needs)
      PROVE  ScreenInv'
  BY <1>c DEF TaskRows, SeenTasks, ScreenInv, Screen!TypeOK, Screen!OneEnterPerPrompt, EnteredIsKnown, Screen!Running,
     Screen!Screens, Screen!Prompts, Screen!Quiet, Screen!HasResult, Screen!NeedsInput
<1>1. ASSUME NEW p \in Watched, NEW s \in Screen!Screens, Screen!Show(p, s) PROVE ScreenInv'
  <2>1. /\ screen' = [screen EXCEPT ![p] = s] /\ moved' = moved \cup {p} /\ hushed' = hushed \ {p}
        /\ entered' = [entered EXCEPT ![p] = 0]
        /\ UNCHANGED <<taskRow, streak, seen, on, late, claim>>
        /\ s \in {"trust", "danger", "work", "idle"}
    BY <1>1 DEF Screen!Show, Screen!Screens, Screen!Prompts
  <2> QED BY <1>a, <1>b, <1>c, <2>1
<1>2. ASSUME NEW p \in Watched, Screen!Dismiss(p) PROVE ScreenInv'
  <2>1. /\ claim' = [claim EXCEPT ![p] = 0]
        /\ on' = on \cup {p} /\ late' = late \cup {p} /\ hushed' = hushed \cup {p}
        /\ seen' = [seen EXCEPT ![p].late = @ \/ seen[p].pc # "no"]
        /\ UNCHANGED <<screen, moved, taskRow, streak, entered>>
    BY <1>2 DEF Screen!Dismiss, Screen!Quiet
  <2>2. /\ seen' \in [Watched -> SeenTasks]
        /\ \A q \in Watched : /\ seen'[q].pc = seen[q].pc /\ seen'[q].tail = seen[q].tail
                              /\ seen'[q].needs = seen[q].needs
    BY <1>a, <2>1 DEF SeenTasks
  <2> QED BY <1>a, <1>b, <1>c, <2>1, <2>2
<1>3. ASSUME NEW p \in Watched, Screen!NextByPriority(p) PROVE ScreenInv'
  <2>1. /\ claim' = [claim EXCEPT ![p] = 0]
        /\ UNCHANGED <<screen, moved, taskRow, streak, seen, on, late, hushed, entered>>
    BY <1>3 DEF Screen!NextByPriority, Screen!Quiet
  <2> QED BY <1>a, <1>b, <1>c, <2>1
<1>4. ASSUME NEW p \in Watched, Screen!Cancel(p) PROVE ScreenInv'
  <2>1. /\ taskRow' = [taskRow EXCEPT ![p].state = "canceled"] /\ late' = late \ {p}
        /\ UNCHANGED <<screen, moved, streak, seen, on, claim, hushed, entered>>
    BY <1>4 DEF Screen!Cancel
  <2>2. /\ taskRow' \in [Watched -> TaskRows] /\ taskRow'[p].state = "canceled"
        /\ \A q \in Watched \ {p} : taskRow'[q] = taskRow[q]
    BY <1>a, <2>1, RowIsWritten
  <2> QED BY <1>a, <1>b, <1>c, <2>1, <2>2
<1>5. ASSUME Screen!ListTasks PROVE ScreenInv'
  <2>1. /\ seen' = [p \in Watched |->
                      IF taskRow[p].state = "running"
                      THEN [Screen!NotListed EXCEPT !.pc = "listed", !.needs = taskRow[p].needs,
                                                    !.late = p \in late]
                      ELSE Screen!NotListed]
        /\ UNCHANGED <<screen, moved, taskRow, streak, on, late, claim, hushed, entered>>
    BY <1>5 DEF Screen!ListTasks, Screen!Running
  <2>2. /\ seen' \in [Watched -> SeenTasks]
        /\ \A q \in Watched : /\ seen'[q].pc # "read"
                              /\ seen'[q].pc # "no" =>
                                   taskRow[q].state = "running" /\ seen'[q].needs = taskRow[q].needs
    <3>1. ASSUME NEW q \in Watched, taskRow[q].state = "running"
          PROVE  /\ seen'[q] \in SeenTasks /\ seen'[q].pc = "listed"
                 /\ seen'[q].needs = taskRow[q].needs
      <4>1. PICK b \in BOOLEAN : b = taskRow[q].needs
        BY <1>a DEF TaskRows
      <4>2. PICK l \in BOOLEAN : l = (q \in late)
        <5>1. (q \in late) \in BOOLEAN
          OBVIOUS
        <5> QED BY <5>1
      <4>4. seen'[q] = [Screen!NotListed EXCEPT !.pc = "listed", !.needs = b, !.late = l]
        BY <2>1, <3>1, <4>1, <4>2
      <4>5. /\ [Screen!NotListed EXCEPT !.pc = "listed", !.needs = b, !.late = l] \in SeenTasks
            /\ [Screen!NotListed EXCEPT !.pc = "listed", !.needs = b, !.late = l].pc = "listed"
            /\ [Screen!NotListed EXCEPT !.pc = "listed", !.needs = b, !.late = l].needs = b
        BY <4>1, <4>2, NobodyListed, ListedIsKnown
      <4> QED BY <4>1, <4>4, <4>5
    <3>2. ASSUME NEW q \in Watched, taskRow[q].state # "running"
          PROVE  seen'[q] \in SeenTasks /\ seen'[q].pc = "no"
      BY <2>1, <3>2 DEF SeenTasks, Screen!NotListed
    <3>3. seen' = [q \in Watched |-> seen'[q]]
      BY <2>1
    <3> QED BY <3>1, <3>2, <3>3
  <2> QED BY <1>a, <1>b, <1>c, <2>1, <2>2
<1>6. ASSUME NEW p \in Watched, Screen!ReadTail(p) PROVE ScreenInv'
  <2>1. /\ seen[p].pc = "listed" /\ moved' = moved \ {p}
        /\ seen' = [seen EXCEPT ![p].pc = "read", ![p].tail = screen[p], ![p].moved = p \in moved]
        /\ UNCHANGED <<screen, taskRow, streak, on, late, claim, hushed, entered>>
    BY <1>6 DEF Screen!ReadTail
  <2>2. /\ seen' \in [Watched -> SeenTasks]
        /\ seen'[p].tail = screen[p] /\ seen'[p].needs = seen[p].needs
        /\ \A q \in Watched \ {p} : seen'[q] = seen[q]
    <3>1. seen[p] \in SeenTasks /\ screen[p] \in {"trust", "danger", "work", "idle"}
      BY <1>a
    <3>2. PICK now \in SeenTasks :
            /\ now = [seen[p] EXCEPT !.pc = "read", !.tail = screen[p], !.moved = p \in moved]
            /\ now.tail = screen[p] /\ now.needs = seen[p].needs
      <4>1. PICK m \in BOOLEAN : m = (p \in moved)
        <5>1. (p \in moved) \in BOOLEAN
          OBVIOUS
        <5> QED BY <5>1
      <4>2. PICK n \in SeenTasks : n = seen[p]
        BY <3>1
      <4>3. PICK t \in {"trust", "danger", "work", "idle"} : t = screen[p]
        BY <3>1
      <4>4. /\ [n EXCEPT !.pc = "read", !.tail = t, !.moved = m] \in SeenTasks
            /\ [n EXCEPT !.pc = "read", !.tail = t, !.moved = m].tail = t
            /\ [n EXCEPT !.pc = "read", !.tail = t, !.moved = m].needs = n.needs
        BY DEF SeenTasks
      <4> QED BY <4>1, <4>2, <4>3, <4>4
    <3>3. seen' = [seen EXCEPT ![p] = now]
      BY <1>a, <2>1, <3>2
    <3> QED BY <1>a, <3>2, <3>3
  <2> QED BY <1>a, <1>b, <1>c, <2>1, <2>2
\* The steps that end with a task: its row may be written, and an Enter sent.
<1>7. ASSUME NEW p \in Watched, Screen!Leave(p), screen' = screen, hushed' = hushed,
             moved' \in {moved, moved \cup {p}}, streak' \in [Watched -> 0 .. Debounce],
             late' \in {late, late \ {p}}, on' \in {on, on \ {p}}, claim' \in [Watched -> {0, 1, 2}],
             taskRow' \in [Watched -> TaskRows],
             \A q \in Watched \ {p} : taskRow'[q] = taskRow[q] /\ entered'[q] = entered[q],
             entered' \in [Watched -> 0 .. 2], entered'[p] <= 1,
             entered'[p] # 0 /\ screen[p] = "trust" /\ taskRow'[p].state = "running" => taskRow'[p].needs
      PROVE  ScreenInv'
  <2>1. /\ seen' = [seen EXCEPT ![p] = [pc |-> "no", needs |-> FALSE, late |-> FALSE, moved |-> FALSE,
                                        tail |-> "work"]]
    BY <1>7 DEF Screen!Leave, Screen!NotListed
  <2>2. /\ seen' \in [Watched -> SeenTasks]
        /\ seen'[p].pc = "no"
        /\ \A q \in Watched \ {p} : seen'[q] = seen[q]
    BY <1>a, <2>1 DEF SeenTasks
  <2>3. /\ screen' \in [Watched -> {"trust", "danger", "work", "idle"}]
        /\ moved' \subseteq Watched /\ on' \subseteq Watched /\ late' \subseteq Watched
        /\ hushed' \subseteq Watched
    BY <1>a, <1>7
  <2>4. ASSUME NEW q \in Watched
        PROVE  entered'[q] <= 1 /\ (entered'[q] # 0 =>
                 /\ seen'[q].pc = "read" => seen'[q].tail = screen'[q]
                 /\ screen'[q] = "trust" /\ taskRow'[q].state = "running" => taskRow'[q].needs
                 /\ screen'[q] = "trust" /\ seen'[q].pc # "no" => seen'[q].needs)
    <3>1. CASE q = p
      BY <1>7, <2>2, <3>1
    <3>2. CASE q # p
      <4>1. /\ entered'[q] = entered[q] /\ seen'[q] = seen[q] /\ taskRow'[q] = taskRow[q]
            /\ screen'[q] = screen[q]
        BY <1>7, <2>2, <3>2
      <4> QED BY <1>b, <4>1
    <3> QED BY <3>1, <3>2
  <2> QED BY <1>c, <1>7, <2>2, <2>3, <2>4
<1>8. ASSUME NEW p \in Watched, NEW n \in {1, 2}, Screen!Ask(p, n)
      PROVE  on' \in {on, on \ {p}} /\ claim' \in [Watched -> {0, 1, 2}]
  <2>1. CASE Screen!Suppressed(p)
    BY <1>a, <1>8, <2>1 DEF Screen!Ask
  <2>2. CASE ~Screen!Suppressed(p)
    <3>1. PICK c \in {0, 1, 2} : claim' = [claim EXCEPT ![p] = c]
      BY <1>a, <1>8, <2>2 DEF Screen!Ask
    <3>2. on' = on \ {p}
      BY <1>8, <2>2 DEF Screen!Ask
    <3> QED BY <1>a, <3>1, <3>2
  <2> QED BY <2>1, <2>2
<1>9. ASSUME NEW p \in Watched, seen[p].pc = "read", Screen!NeedInput(p), Screen!Leave(p), screen' = screen,
             hushed' = hushed, moved' \in {moved, moved \cup {p}}, streak' \in [Watched -> 0 .. Debounce]
      PROVE  ScreenInv'
  <2>1. taskRow' = [taskRow EXCEPT ![p] = [taskRow[p] EXCEPT !.needs = TRUE]] /\ late' = late \ {p}
    BY <1>9 DEF Screen!NeedInput, Screen!Write
  <2>2. /\ taskRow' \in [Watched -> TaskRows]
        /\ taskRow'[p].needs /\ \A q \in Watched \ {p} : taskRow'[q] = taskRow[q]
    BY <1>a, <2>1, RowIsWritten
  <2>3. CASE Screen!Ask(p, 2) /\ entered' = entered
    <3>1. on' \in {on, on \ {p}} /\ claim' \in [Watched -> {0, 1, 2}]
      BY <1>8, <2>3
    <3> QED BY <1>a, <1>b, <1>7, <1>9, <2>1, <2>2, <2>3, <3>1
  <2>4. CASE /\ Screen!MayConfirm(p) /\ UNCHANGED <<on, claim>>
             /\ entered' = [entered EXCEPT ![p] = IF Screen!Running(p) /\ @ < 2 THEN @ + 1 ELSE @]
    <3>1. seen[p].tail = "trust" /\ ~seen[p].needs
      BY <2>4 DEF Screen!MayConfirm
    <3>2. entered[p] = 0
      BY <1>a, <1>b, <1>9, <3>1
    <3>3. /\ entered' \in [Watched -> 0 .. 2] /\ entered'[p] <= 1
          /\ \A q \in Watched \ {p} : entered'[q] = entered[q]
      <4>1. PICK n \in 0 .. 1 : entered' = [entered EXCEPT ![p] = n]
        <5>1. CASE Screen!Running(p)
          <6>1. entered' = [entered EXCEPT ![p] = entered[p] + 1] /\ entered[p] + 1 \in 0 .. 1
            BY <2>4, <3>2, <5>1
          <6> QED BY <6>1
        <5>2. CASE ~Screen!Running(p)
          <6>1. entered' = [entered EXCEPT ![p] = entered[p]] /\ entered[p] \in 0 .. 1
            BY <2>4, <3>2, <5>2
          <6> QED BY <6>1
        <5> QED BY <5>1, <5>2
      <4> QED BY <1>a, <4>1
    <3> QED BY <1>a, <1>7, <1>9, <2>1, <2>2, <2>4, <3>3
  <2> QED BY <1>9, <2>3, <2>4 DEF Screen!NeedInput, Screen!NeedsInput
<1>10. ASSUME NEW p \in Watched, seen[p].pc = "read", seen[p].tail # "trust", Screen!Work(p), Screen!Leave(p),
             screen' = screen, hushed' = hushed, moved' \in {moved, moved \cup {p}},
             streak' \in [Watched -> 0 .. Debounce]
      PROVE  ScreenInv'
  <2>1. /\ UNCHANGED <<on, claim, entered>>
        /\ \/ UNCHANGED <<taskRow, late>>
           \/ /\ taskRow' = [taskRow EXCEPT ![p] = [taskRow[p] EXCEPT !.needs = FALSE]]
              /\ late' = late \ {p}
    BY <1>10 DEF Screen!Work, Screen!Write
  <2>2. /\ taskRow' \in [Watched -> TaskRows]
        /\ \A q \in Watched \ {p} : taskRow'[q] = taskRow[q]
    <3>1. CASE UNCHANGED <<taskRow, late>>
      BY <1>a, <3>1
    <3>2. CASE taskRow' = [taskRow EXCEPT ![p] = [taskRow[p] EXCEPT !.needs = FALSE]]
      BY <1>a, <3>2, RowIsWritten
    <3> QED BY <2>1, <3>1, <3>2
  <2>3. entered[p] # 0 => screen[p] # "trust"
    BY <1>b, <1>10
  <2> QED BY <1>a, <1>b, <1>7, <1>10, <2>1, <2>2, <2>3
<1>11. ASSUME NEW p \in Watched, seen[p].pc = "read", seen[p].tail # "trust", Screen!Finish(p), Screen!Leave(p),
             screen' = screen, hushed' = hushed, moved' \in {moved, moved \cup {p}},
             streak' \in [Watched -> 0 .. Debounce]
      PROVE  ScreenInv'
  <2>3. entered[p] # 0 => screen[p] # "trust"
    BY <1>b, <1>11
  <2>1. CASE Screen!Running(p)
    <3>1. /\ taskRow' = [taskRow EXCEPT ![p] = [state |-> "awaiting_review", needs |-> FALSE]]
          /\ late' = late \ {p} /\ Screen!Ask(p, 1) /\ entered' = entered
      BY <1>11, <2>1 DEF Screen!Finish, Screen!Write, Screen!HasResult
    <3>2. on' \in {on, on \ {p}} /\ claim' \in [Watched -> {0, 1, 2}]
      BY <1>8, <3>1
    <3>3. /\ taskRow' \in [Watched -> TaskRows]
          /\ \A q \in Watched \ {p} : taskRow'[q] = taskRow[q]
      BY <1>a, <3>1 DEF TaskRows
    <3> QED BY <1>a, <1>b, <1>7, <1>11, <2>3, <3>1, <3>2, <3>3
  <2>2. CASE ~Screen!Running(p)
    <3>1. UNCHANGED <<taskRow, late, on, claim, entered>>
      BY <1>11, <2>2 DEF Screen!Finish
    <3> QED BY <1>a, <1>b, <1>7, <1>11, <2>3, <3>1
  <2> QED BY <2>1, <2>2
<1>12. ASSUME NEW p \in Watched, Screen!ProcessWork(p) PROVE ScreenInv'
  <2>1. /\ seen[p].pc = "read" /\ seen[p].tail = "work" /\ streak' = [streak EXCEPT ![p] = 0]
        /\ moved' = moved \cup {p} /\ Screen!Work(p) /\ Screen!Leave(p) /\ UNCHANGED <<screen, hushed>>
    BY <1>12 DEF Screen!ProcessWork
  <2>2. streak' \in [Watched -> 0 .. Debounce]
    BY <1>a, <2>1
  <2> QED BY <1>10, <2>1, <2>2
<1>13. ASSUME NEW p \in Watched, Screen!ProcessPrompt(p) PROVE ScreenInv'
  <2>1. /\ seen[p].pc = "read" /\ streak' = [streak EXCEPT ![p] = 0]
        /\ moved' = moved \cup {p} /\ Screen!NeedInput(p) /\ Screen!Leave(p) /\ UNCHANGED <<screen, hushed>>
    BY <1>13 DEF Screen!ProcessPrompt
  <2>2. streak' \in [Watched -> 0 .. Debounce]
    BY <1>a, <2>1
  <2> QED BY <1>9, <2>1, <2>2
<1>14. ASSUME NEW p \in Watched, Screen!ProcessDebounce(p) PROVE ScreenInv'
  <2>1. /\ seen[p].pc = "read" /\ seen[p].tail = "idle" /\ (seen[p].moved \/ streak[p] + 1 < Debounce)
        /\ streak' = [streak EXCEPT ![p] = IF seen[p].moved THEN 1 ELSE @ + 1] /\ Screen!Leave(p)
        /\ UNCHANGED <<screen, moved, taskRow, on, late, claim, hushed, entered>>
    BY <1>14 DEF Screen!ProcessDebounce
  <2>2. streak' \in [Watched -> 0 .. Debounce]
    BY <1>a, <2>1
  <2> QED BY <1>a, <1>b, <1>7, <2>1, <2>2
<1>15. ASSUME NEW p \in Watched, Screen!ProcessIdle(p) PROVE ScreenInv'
  <2>1. /\ seen[p].pc = "read" /\ seen[p].tail = "idle" /\ streak' = [streak EXCEPT ![p] = 0]
        /\ moved' = moved \cup {p} /\ (Screen!Finish(p) \/ Screen!Work(p) \/ Screen!NeedInput(p))
        /\ Screen!Leave(p) /\ UNCHANGED <<screen, hushed>>
    BY <1>15 DEF Screen!ProcessIdle
  <2>2. streak' \in [Watched -> 0 .. Debounce]
    BY <1>a, <2>1
  <2> QED BY <1>9, <1>10, <1>11, <2>1, <2>2
<1>16. ASSUME UNCHANGED Screen!vars PROVE ScreenInv'
  BY <1>a, <1>b, <1>c, <1>16 DEF Screen!vars
<1> QED
  BY <1>1, <1>2, <1>3, <1>4, <1>5, <1>6, <1>12, <1>13, <1>14, <1>15, <1>16 DEF Screen!Next

\* Auto-confirm sends one Enter to a prompt at most, however many ticks it stays
\* and whatever agent and human do between the steps of a tick
\* (done_detection.rs), for any panes and any debounce.
THEOREM OneEnterIsSent == Screen!Spec => []Screen!OneEnterPerPrompt
<1>1. ScreenInv => Screen!OneEnterPerPrompt
  BY DEF ScreenInv
<1> QED
  BY <1>1, ScreenInit, ScreenStep, PTL DEF Screen!Spec

----------------------------------------------------------------------------
(* Breaker                                                                  *)

\* What a thread is about to do, and the age of its now_ms.
Calls == [pc : {"idle", "request"} \cup Free!Steps, age : 0 .. MaxDelay]

\* Who is about to open the breaker finds a cooldown at least this long: its own
\* is as old as its call, and one that was set since is MaxDelay younger at most.
CooldownLasts ==
  \A t \in Routing : routing[t].pc \in {"reopen", "halfOpen", "openClosed"} =>
    until >= CooldownTicks - MaxDelay - routing[t].age

\* While a probe is out its winner does not count a failure like any other.
WinnerDoesNotCount ==
  \A t \in Routing : circuit = "half" /\ winner = t =>
    routing[t].pc \notin {"count", "trip", "openClosed"}

\* The inductive invariant of the breaker.
BreakerInv == Free!TypeOK /\ CooldownLasts /\ Free!HalfOpenIsProbed /\ WinnerDoesNotCount

\* What a step does to what a thread is about to do.
LEMMA CallMoves ==
  ASSUME NEW t \in Routing, routing \in [Routing -> Calls],
         NEW to \in {"idle", "request"} \cup Free!Steps
  PROVE  /\ Free!Go(t, to) =>
              /\ routing' \in [Routing -> Calls]
              /\ routing'[t].pc = to /\ routing'[t].age = routing[t].age
              /\ \A u \in Routing \ {t} : routing'[u] = routing[u]
         /\ Free!Leave(t, to) =>
              /\ routing' \in [Routing -> Calls]
              /\ routing'[t].pc = to
              /\ \A u \in Routing \ {t} : routing'[u] = routing[u]
<1>0. 0 \in 0 .. MaxDelay
  BY FreeAssumption DEF Free!BreakerAssumption
<1>1. ASSUME Free!Go(t, to)
      PROVE  /\ routing' \in [Routing -> Calls]
             /\ routing'[t].pc = to /\ routing'[t].age = routing[t].age
             /\ \A u \in Routing \ {t} : routing'[u] = routing[u]
  BY <1>1 DEF Free!Go, Calls
<1>2. ASSUME Free!Leave(t, to)
      PROVE  /\ routing' \in [Routing -> Calls]
             /\ routing'[t].pc = to
             /\ \A u \in Routing \ {t} : routing'[u] = routing[u]
  BY <1>0, <1>2 DEF Free!Leave, Calls
<1> QED BY <1>1, <1>2

\* At first the breaker is closed.
LEMMA BreakerInit == Free!Init => BreakerInv
<1> SUFFICES ASSUME Free!Init PROVE BreakerInv
  OBVIOUS
<1>0. /\ MaxDelay \in Nat /\ CooldownTicks \in Nat /\ FailLimit \in Nat /\ ProbeTimeout \in Nat
  BY FreeAssumption DEF Free!BreakerAssumption
<1>1. Free!TypeOK
  BY <1>0 DEF Free!Init, Free!TypeOK, Free!NoProbe, Free!Oldest
<1>2. CooldownLasts /\ Free!HalfOpenIsProbed /\ WinnerDoesNotCount
  BY DEF Free!Init, CooldownLasts, Free!HalfOpenIsProbed, WinnerDoesNotCount
<1> QED BY <1>1, <1>2 DEF BreakerInv

\* Every step keeps it, and opens the breaker only while the cooldown runs.
LEMMA BreakerStep ==
  BreakerInv /\ [Free!Next]_(Free!vars) =>
    BreakerInv' /\ (circuit # "open" /\ circuit' = "open" => until > 0)
                /\ (circuit = "open" => circuit' # "closed")
<1> SUFFICES ASSUME BreakerInv, [Free!Next]_(Free!vars)
             PROVE  /\ BreakerInv' /\ (circuit # "open" /\ circuit' = "open" => until > 0)
                    /\ (circuit = "open" => circuit' # "closed")
  OBVIOUS
<1> DEFINE Good == /\ BreakerInv' /\ (circuit # "open" /\ circuit' = "open" => until > 0)
                   /\ (circuit = "open" => circuit' # "closed")
<1>0. /\ MaxDelay \in Nat /\ CooldownTicks \in Nat \ {0} /\ FailLimit \in Nat \ {0} /\ ProbeTimeout \in Nat
      /\ 2 * MaxDelay < CooldownTicks /\ NoThread \notin Routing
  BY FreeAssumption DEF Free!BreakerAssumption
<1>a. /\ circuit \in {"closed", "half", "open"} /\ until \in -MaxDelay .. CooldownTicks
      /\ probe \in -1 .. ProbeTimeout + MaxDelay + 1
      /\ fails \in 0 .. FailLimit /\ routing \in [Routing -> Calls] /\ winner \in Routing \cup {NoThread}
  BY DEF BreakerInv, Free!TypeOK, Calls, Free!NoProbe, Free!Oldest
<1>b. \A t \in Routing : routing[t].pc \in {"reopen", "halfOpen", "openClosed"} =>
        until >= CooldownTicks - MaxDelay - routing[t].age
  BY DEF BreakerInv, CooldownLasts
<1>c. circuit = "half" => winner # NoThread
  BY DEF BreakerInv, Free!HalfOpenIsProbed
<1>d. \A t \in Routing : circuit = "half" /\ winner = t => routing[t].pc \notin {"count", "trip", "openClosed"}
  BY DEF BreakerInv, WinnerDoesNotCount
<1>e. \A t \in Routing : routing[t].age \in 0 .. MaxDelay /\ routing[t].pc \in {"idle", "request"} \cup Free!Steps
  BY <1>a DEF Calls
<1>f. ASSUME circuit' \in {"closed", "half", "open"}, until' \in -MaxDelay .. CooldownTicks,
             probe' \in -1 .. ProbeTimeout + MaxDelay + 1,
             fails' \in 0 .. FailLimit, routing' \in [Routing -> Calls], winner' \in Routing \cup {NoThread},
             \A t \in Routing : routing'[t].pc \in {"reopen", "halfOpen", "openClosed"} =>
               until' >= CooldownTicks - MaxDelay - routing'[t].age,
             circuit' = "half" => winner' # NoThread,
             \A t \in Routing : circuit' = "half" /\ winner' = t =>
               routing'[t].pc \notin {"count", "trip", "openClosed"},
             circuit # "open" /\ circuit' = "open" => until > 0,
             circuit = "open" => circuit' # "closed"
      PROVE  Good
  BY <1>f DEF BreakerInv, Free!TypeOK, Calls, CooldownLasts, Free!HalfOpenIsProbed, WinnerDoesNotCount,
     Free!NoProbe, Free!Oldest
<1> HIDE DEF Good
\* A thread goes on and leaves the breaker's state alone.
<1>g. ASSUME NEW t \in Routing, NEW to \in {"idle", "request"} \cup Free!Steps,
             Free!Go(t, to) \/ Free!Leave(t, to), to \notin {"reopen", "halfOpen", "openClosed"},
             to \in {"count", "trip"} /\ winner = t => circuit # "half" \/ routing[t].pc \in {"count", "trip"},
             circuit' = circuit, until' = until, winner' = winner, fails' \in 0 .. FailLimit,
             probe' \in -1 .. ProbeTimeout + MaxDelay + 1
      PROVE  Good
  <2>1. /\ routing' \in [Routing -> Calls] /\ routing'[t].pc = to
        /\ \A u \in Routing \ {t} : routing'[u] = routing[u]
    BY <1>a, <1>g, CallMoves
  <2>2. ASSUME NEW u \in Routing, routing'[u].pc \in {"reopen", "halfOpen", "openClosed"}
        PROVE  until' >= CooldownTicks - MaxDelay - routing'[u].age
    BY <1>b, <1>g, <2>1, <2>2
  <2>3. ASSUME NEW u \in Routing, circuit' = "half", winner' = u
        PROVE  routing'[u].pc \notin {"count", "trip", "openClosed"}
    BY <1>d, <1>g, <2>1, <2>3
  <2> QED BY <1>a, <1>c, <1>f, <1>g, <2>1, <2>2, <2>3
\* A thread sets the cooldown, and is about to open.
<1>h. ASSUME NEW t \in Routing, NEW to \in {"reopen", "halfOpen", "openClosed"}, Free!Go(t, to),
             until' = CooldownTicks - routing[t].age,
             to = "openClosed" /\ winner = t => circuit # "half" \/ routing[t].pc = "trip",
             circuit' = circuit, winner' = winner, fails' = fails, probe' = probe
      PROVE  Good
  <2>0. to \in {"idle", "request"} \cup Free!Steps
    BY <1>h DEF Free!Steps
  <2>1. /\ routing' \in [Routing -> Calls] /\ routing'[t].pc = to /\ routing'[t].age = routing[t].age
        /\ \A u \in Routing \ {t} : routing'[u] = routing[u]
    BY <1>a, <1>h, <2>0, CallMoves
  <2>2. ASSUME NEW u \in Routing PROVE until' >= CooldownTicks - MaxDelay - routing'[u].age
    <3>1. routing'[u].age \in 0 .. MaxDelay /\ routing[t].age \in 0 .. MaxDelay
      BY <1>e, <2>1
    <3> QED BY <1>0, <1>h, <3>1
  <2>3. ASSUME NEW u \in Routing, circuit' = "half", winner' = u
        PROVE  routing'[u].pc \notin {"count", "trip", "openClosed"}
    BY <1>d, <1>h, <2>1, <2>3
  <2>4. until' \in -MaxDelay .. CooldownTicks
    <3>1. routing[t].age \in 0 .. MaxDelay
      BY <1>e
    <3> QED BY <1>0, <1>h, <3>1
  <2> QED BY <1>a, <1>c, <1>f, <1>h, <2>1, <2>2, <2>3, <2>4
\* A thread has changed the state and leaves, and may have reported.
<1>i. ASSUME NEW t \in Routing, Free!Leave(t, "idle"), circuit' \in {"closed", "half", "open"},
             circuit' = "half" => circuit = "half" /\ winner' = winner,
             circuit # "open" /\ circuit' = "open" => until > 0,
             circuit = "open" => circuit' # "closed",
             winner' \in {winner, NoThread}, until' = until, probe' = probe, fails' \in 0 .. FailLimit
      PROVE  Good
  <2>0. "idle" \in {"idle", "request"} \cup Free!Steps
    OBVIOUS
  <2>1. /\ routing' \in [Routing -> Calls] /\ routing'[t].pc = "idle"
        /\ \A u \in Routing \ {t} : routing'[u] = routing[u]
    BY <1>a, <1>i, <2>0, CallMoves
  <2>2. ASSUME NEW u \in Routing, routing'[u].pc \in {"reopen", "halfOpen", "openClosed"}
        PROVE  until' >= CooldownTicks - MaxDelay - routing'[u].age
    BY <1>b, <1>i, <2>1, <2>2
  <2>3. ASSUME NEW u \in Routing, circuit' = "half", winner' = u
        PROVE  routing'[u].pc \notin {"count", "trip", "openClosed"}
    BY <1>d, <1>i, <2>1, <2>3
  <2>4. circuit' = "half" => winner' # NoThread
    BY <1>c, <1>i
  <2>5. winner' \in Routing \cup {NoThread}
    BY <1>a, <1>i
  <2> QED BY <1>a, <1>f, <1>i, <2>1, <2>2, <2>3, <2>4, <2>5
\* Who is about to open finds the cooldown running.
<1>j. ASSUME NEW t \in Routing, routing[t].pc \in {"reopen", "halfOpen", "openClosed"} PROVE until > 0
  <2>1. until >= CooldownTicks - MaxDelay - routing[t].age /\ routing[t].age \in 0 .. MaxDelay
    BY <1>b, <1>e, <1>j
  <2> QED BY <1>0, <1>a, <2>1
<1>1. ASSUME NEW t \in Routing, Free!Decide(t) PROVE Good
  <2>1. /\ Free!Go(t, "ask") /\ circuit' = circuit /\ until' = until /\ winner' = winner
        /\ fails' = fails /\ probe' = probe
    BY <1>1 DEF Free!Decide
  <2>2. "ask" \in Free!Steps
    BY DEF Free!Steps
  <2> QED BY <1>a, <1>g, <2>1, <2>2
<1>2. ASSUME NEW t \in Routing, Free!IsOpen(t) \/ Free!ReadCooldown(t) \/ Free!ReadProbe(t) PROVE Good
  <2>1. /\ circuit' = circuit /\ until' = until /\ winner' = winner
        /\ fails' = fails /\ probe' = probe
        /\ \/ Free!Leave(t, "request") \/ Free!Go(t, "cooldown") \/ Free!Go(t, "hung")
           \/ Free!Leave(t, "idle") \/ Free!Go(t, "take") \/ Free!Go(t, "rearm")
    BY <1>2 DEF Free!IsOpen, Free!ReadCooldown, Free!ReadProbe
  <2>2. {"cooldown", "hung", "take", "rearm"} \subseteq Free!Steps
    BY DEF Free!Steps
  <2>3. PICK to \in {"request", "cooldown", "hung", "idle", "take", "rearm"} : Free!Go(t, to) \/ Free!Leave(t, to)
    BY <2>1
  <2>4. to \in {"idle", "request"} \cup Free!Steps
    BY <2>2
  <2> QED BY <1>a, <1>g, <2>1, <2>3, <2>4
<1>3. ASSUME NEW t \in Routing, Free!TakeProbe(t) PROVE Good
  <2>1. CASE circuit = "open"
    <3>1. /\ circuit' = "half" /\ Free!Go(t, "stamp") /\ winner' = t /\ until' = until /\ probe' = probe
          /\ fails' = fails
      BY <1>3, <2>1 DEF Free!TakeProbe, Free!Swap
    <3>2. "stamp" \in {"idle", "request"} \cup Free!Steps
      BY DEF Free!Steps
    <3>3. /\ routing' \in [Routing -> Calls] /\ routing'[t].pc = "stamp"
          /\ \A u \in Routing \ {t} : routing'[u] = routing[u]
      BY <1>a, <3>1, <3>2, CallMoves
    <3>4. ASSUME NEW u \in Routing, routing'[u].pc \in {"reopen", "halfOpen", "openClosed"}
          PROVE  until' >= CooldownTicks - MaxDelay - routing'[u].age
      BY <1>b, <3>1, <3>3, <3>4
    <3>5. winner' # NoThread
      BY <1>0, <3>1
    <3> QED BY <1>a, <1>f, <2>1, <3>1, <3>3, <3>4, <3>5
  <2>2. CASE circuit # "open"
    <3>1. /\ circuit' = circuit /\ Free!Leave(t, "idle") /\ winner' = winner /\ until' = until /\ probe' = probe
          /\ fails' = fails
      BY <1>3, <2>2 DEF Free!TakeProbe, Free!Swap
    <3> QED BY <1>a, <1>g, <3>1
  <2> QED BY <2>1, <2>2
<1>4. ASSUME NEW t \in Routing, Free!StampProbe(t) PROVE Good
  <2>1. /\ circuit' = circuit /\ until' = until /\ winner' = winner /\ fails' = fails
        /\ probe' = routing[t].age /\ Free!Leave(t, "request")
    BY <1>4 DEF Free!StampProbe
  <2>2. probe' \in -1 .. ProbeTimeout + MaxDelay + 1
    <3>1. routing[t].age \in 0 .. MaxDelay
      BY <1>e
    <3> QED BY <1>0, <2>1, <3>1
  <2> QED BY <1>a, <1>g, <2>1, <2>2
<1>5. ASSUME NEW t \in Routing, Free!Rearm(t) PROVE Good
  <2>1. /\ until' = CooldownTicks - routing[t].age /\ Free!Go(t, "reopen")
        /\ circuit' = circuit /\ winner' = winner /\ fails' = fails /\ probe' = probe
    BY <1>5 DEF Free!Rearm
  <2> QED BY <1>h, <2>1
<1>6. ASSUME NEW t \in Routing, Free!Reopen(t) PROVE Good
  <2>1. /\ routing[t].pc = "reopen" /\ Free!Leave(t, "idle")
        /\ circuit' = IF circuit = "half" THEN "open" ELSE circuit
        /\ until' = until /\ winner' = winner /\ fails' = fails /\ probe' = probe
    BY <1>6 DEF Free!Reopen, Free!Swap, Free!At
  <2>2. until > 0
    BY <1>j, <2>1
  <2> QED BY <1>a, <1>i, <2>1, <2>2
<1>7. ASSUME NEW t \in Routing, Free!Answer(t) PROVE Good
  <2>1. /\ circuit' = circuit /\ until' = until /\ winner' = winner /\ fails' = fails /\ probe' = probe
        /\ Free!Leave(t, "succeed") \/ Free!Leave(t, "fail") \/ Free!Leave(t, "idle")
    BY <1>7 DEF Free!Answer
  <2>2. PICK to \in {"succeed", "fail", "idle"} : Free!Leave(t, to)
    BY <2>1
  <2>3. to \in {"idle", "request"} \cup Free!Steps
    BY DEF Free!Steps
  <2> QED BY <1>a, <1>g, <2>1, <2>2, <2>3
<1>8. ASSUME NEW t \in Routing, Free!ResetFails(t) PROVE Good
  <2>1. /\ circuit' = circuit /\ until' = until /\ winner' = winner /\ fails' = 0 /\ probe' = probe
        /\ Free!Go(t, "close")
    BY <1>8 DEF Free!ResetFails
  <2>2. "close" \in Free!Steps /\ 0 \in 0 .. FailLimit
    BY <1>0 DEF Free!Steps
  <2> QED BY <1>a, <1>g, <2>1, <2>2
<1>9. ASSUME NEW t \in Routing, Free!Close(t) PROVE Good
  <2>1. /\ Free!Leave(t, "idle") /\ circuit' = IF circuit = "half" THEN "closed" ELSE circuit
        /\ until' = until /\ winner' \in {winner, NoThread} /\ fails' = fails /\ probe' = probe
    BY <1>9 DEF Free!Close, Free!Swap, Free!Reported
  <2> QED BY <1>a, <1>i, <2>1
<1>10. ASSUME NEW t \in Routing, Free!ReadState(t) PROVE Good
  <2>1. /\ circuit' = circuit /\ until' = until /\ winner' = winner /\ fails' = fails /\ probe' = probe
        /\ \/ circuit = "half" /\ Free!Go(t, "probeFailed")
           \/ circuit # "half" /\ Free!Go(t, "count")
    BY <1>10 DEF Free!ReadState
  <2>2. "probeFailed" \in Free!Steps /\ "count" \in Free!Steps
    BY DEF Free!Steps
  <2> QED BY <1>a, <1>g, <2>1, <2>2
<1>11. ASSUME NEW t \in Routing, Free!SetCooldown(t) PROVE Good
  <2>1. /\ until' = CooldownTicks - routing[t].age
        /\ circuit' = circuit /\ winner' = winner /\ fails' = fails /\ probe' = probe
        /\ \/ Free!Go(t, "halfOpen")
           \/ routing[t].pc = "trip" /\ Free!Go(t, "openClosed")
    BY <1>11 DEF Free!SetCooldown, Free!At
  <2> QED BY <1>h, <2>1
<1>12. ASSUME NEW t \in Routing, Free!OpenHalf(t) PROVE Good
  <2>1. routing[t].pc = "halfOpen" /\ until' = until /\ fails' = fails /\ probe' = probe
    BY <1>12 DEF Free!OpenHalf, Free!At
  <2>2. CASE circuit = "half"
    <3>1. circuit' = "open" /\ Free!Leave(t, "idle") /\ winner' \in {winner, NoThread}
      BY <1>12, <2>2 DEF Free!OpenHalf, Free!Swap, Free!Reported
    <3>2. until > 0
      BY <1>j, <2>1
    <3> QED BY <1>a, <1>i, <2>1, <2>2, <3>1, <3>2
  <2>3. CASE circuit # "half"
    <3>1. circuit' = circuit /\ Free!Go(t, "count") /\ winner' = winner
      BY <1>12, <2>3 DEF Free!OpenHalf, Free!Swap
    <3>2. "count" \in Free!Steps
      BY DEF Free!Steps
    <3> QED BY <1>a, <1>g, <2>1, <2>3, <3>1, <3>2
  <2> QED BY <2>2, <2>3
<1>13. ASSUME NEW t \in Routing, Free!Count(t) PROVE Good
  <2>1. /\ routing[t].pc = "count" /\ circuit' = circuit /\ until' = until /\ probe' = probe
        /\ fails' \in 0 .. FailLimit
    BY <1>0, <1>a, <1>13 DEF Free!Count, Free!At
  <2>2. CASE fails + 1 >= FailLimit
    <3>1. Free!Go(t, "trip") /\ winner' = winner
      BY <1>13, <2>2 DEF Free!Count
    <3>2. "trip" \in Free!Steps
      BY DEF Free!Steps
    <3> QED BY <1>a, <1>g, <2>1, <3>1, <3>2
  <2>3. CASE ~(fails + 1 >= FailLimit)
    <3>1. Free!Leave(t, "idle") /\ winner' = IF winner = t THEN NoThread ELSE winner
      BY <1>13, <2>3 DEF Free!Count, Free!Reported
    <3>2. circuit = "half" => winner # t
      BY <1>d, <2>1
    <3> QED BY <1>a, <1>i, <2>1, <3>1, <3>2
  <2> QED BY <2>2, <2>3
<1>14. ASSUME NEW t \in Routing, Free!OpenClosed(t) PROVE Good
  <2>1. /\ routing[t].pc = "openClosed" /\ Free!Leave(t, "idle")
        /\ circuit' = IF circuit = "closed" THEN "open" ELSE circuit
        /\ winner' = IF winner = t THEN NoThread ELSE winner
        /\ until' = until /\ fails' = fails /\ probe' = probe
    BY <1>14 DEF Free!OpenClosed, Free!Swap, Free!Reported, Free!At
  <2>2. until > 0 /\ (circuit = "half" => winner # t)
    BY <1>d, <1>j, <2>1
  <2> QED BY <1>a, <1>i, <2>1, <2>2
<1>15. ASSUME Free!Tick PROVE Good
  <2>1. /\ circuit' = circuit /\ winner' = winner /\ fails' = fails
        /\ until' = IF until > -MaxDelay THEN until - 1 ELSE until
        /\ probe' = IF probe \in 0 .. Free!Oldest - 1 THEN probe + 1 ELSE probe
        /\ \A t \in Routing : routing[t].pc \in Free!Steps => routing[t].age < MaxDelay
    BY <1>15 DEF Free!Tick
  <2>7. routing' = [t \in Routing |-> IF routing[t].pc \in Free!Steps
                                     THEN [routing[t] EXCEPT !.age = routing[t].age + 1] ELSE routing[t]]
    <3> HIDE DEF Free!Steps
    <3> QED BY <1>15, ZenonT(30) DEF Free!Tick
  <2>2. until' \in -MaxDelay .. CooldownTicks /\ probe' \in -1 .. ProbeTimeout + MaxDelay + 1 /\ until' >= until - 1
    BY <1>0, <1>a, <2>1 DEF Free!Oldest
  <2>3. ASSUME NEW t \in Routing
        PROVE  /\ routing'[t] \in Calls /\ routing'[t].pc = routing[t].pc
               /\ routing[t].pc \in Free!Steps => routing'[t].age = routing[t].age + 1
    <3>1. CASE routing[t].pc \in Free!Steps
      <4>1. routing[t] \in Calls /\ routing[t].age + 1 \in 0 .. MaxDelay
        BY <1>0, <1>a, <1>e, <2>1, <3>1
      <4>2. routing'[t] = [routing[t] EXCEPT !.age = routing[t].age + 1]
        BY <2>7, <3>1
      <4> QED BY <4>1, <4>2 DEF Calls
    <3>2. CASE routing[t].pc \notin Free!Steps
      BY <1>a, <2>7, <3>2
    <3> QED BY <3>1, <3>2
  <2>4. routing' \in [Routing -> Calls]
    BY <2>3, <2>7
  <2>5. ASSUME NEW t \in Routing, routing'[t].pc \in {"reopen", "halfOpen", "openClosed"}
        PROVE  until' >= CooldownTicks - MaxDelay - routing'[t].age
    <3>1. routing[t].pc \in {"reopen", "halfOpen", "openClosed"} /\ routing[t].pc \in Free!Steps
      BY <2>3, <2>5 DEF Free!Steps
    <3>2. until >= CooldownTicks - MaxDelay - routing[t].age /\ routing'[t].age = routing[t].age + 1
      BY <1>b, <2>3, <3>1
    <3> QED BY <1>0, <1>a, <1>e, <2>2, <3>2
  <2>6. ASSUME NEW u \in Routing, circuit' = "half", winner' = u
        PROVE  routing'[u].pc \notin {"count", "trip", "openClosed"}
    BY <1>d, <2>1, <2>3, <2>6
  <2> QED BY <1>a, <1>c, <1>f, <2>1, <2>2, <2>4, <2>5, <2>6
<1>16. ASSUME UNCHANGED Free!vars PROVE Good
  BY <1>a, <1>b, <1>c, <1>d, <1>f, <1>16 DEF Free!vars
<1> QED
  BY <1>1, <1>2, <1>3, <1>4, <1>5, <1>6, <1>7, <1>8, <1>9, <1>10, <1>11, <1>12, <1>13, <1>14, <1>15, <1>16
  DEF Free!Next, Free!Inside, Good

\* However the threads overlap, the breaker opens only while a cooldown runs, it
\* closes by a probe, and half-open stands for a probe that has a winner
\* (cost_router_v2.rs), for any threads, limits and delays of a call under half
\* the cooldown.
THEOREM BreakerIsSafe ==
  Free!Spec => Free!OpensWithCooldown /\ Free!ClosesByProbe /\ []Free!HalfOpenIsProbed
<1>1. BreakerInv => Free!HalfOpenIsProbed
  BY DEF BreakerInv
<1>2. BreakerInv /\ [Free!Next]_(Free!vars) =>
        /\ [circuit # "open" /\ circuit' = "open" => until > 0]_(Free!vars)
        /\ [circuit = "open" => circuit' # "closed"]_(Free!vars)
  BY BreakerStep
<1> QED
  BY <1>1, <1>2, BreakerInit, BreakerStep, PTL DEF Free!Spec, Free!OpensWithCooldown, Free!ClosesByProbe

----------------------------------------------------------------------------
(* Uploader                                                                 *)

\* The jobs in ring r are those that f calls queued, the oldest first; what was
\* given up is older than they, and what is still to come younger than all others.
RingHolds(r, f) ==
  /\ r \in Seq(Upload!Jobs) /\ DOMAIN f = Upload!Jobs
  /\ \A j \in Upload!Jobs : f[j] = "queued" <=> \E k \in 1 .. Len(r) : r[k] = j
  /\ \A k, l \in 1 .. Len(r) : k < l => r[k] < r[l]
  /\ \A i, j \in Upload!Jobs : f[i] = "dropped" /\ f[j] = "queued" => i < j
  /\ \A i, j \in Upload!Jobs : f[i] # "new" /\ f[j] = "new" => i < j

\* The task has its job, and is told of the ring before it rests.
LoopIsTold ==
  /\ DOMAIN loop = {"pc", "job", "attempt"} /\ untold \in Nat /\ permit \in BOOLEAN
  /\ loop.pc \in {"cooldown", "upload"} => loop.job \in Upload!Jobs /\ fate[loop.job] = "taken"
  /\ loop.pc \in {"empty", "wait"} /\ ring # <<>> => permit \/ untold > 0

\* The inductive invariant of the uploader.
UploadInv == RingHolds(ring, fate) /\ LoopIsTold

\* At first there is no job.
LEMMA UploadInit == Upload!Init => UploadInv
<1> SUFFICES ASSUME Upload!Init PROVE UploadInv
  OBVIOUS
<1>1. RingHolds(ring, fate)
  BY DEF Upload!Init, RingHolds
<1>2. LoopIsTold
  BY DEF Upload!Init, Upload!Popping, LoopIsTold
<1> QED BY <1>1, <1>2 DEF UploadInv

\* The next job comes in behind all others.
LEMMA RingTakesIn ==
  ASSUME NEW r, NEW f, NEW j \in Upload!Jobs, RingHolds(r, f), f[j] = "new",
         \A i \in 1 .. j - 1 : f[i] # "new"
  PROVE  RingHolds(Append(r, j), [f EXCEPT ![j] = "queued"])
<1> DEFINE s == Append(r, j)
           g == [f EXCEPT ![j] = "queued"]
<1>1. /\ r \in Seq(Upload!Jobs) /\ DOMAIN f = Upload!Jobs
      /\ \A i \in Upload!Jobs : f[i] = "queued" <=> \E k \in 1 .. Len(r) : r[k] = i
      /\ \A k, l \in 1 .. Len(r) : k < l => r[k] < r[l]
      /\ \A i, h \in Upload!Jobs : f[i] = "dropped" /\ f[h] = "queued" => i < h
      /\ \A i, h \in Upload!Jobs : f[i] # "new" /\ f[h] = "new" => i < h
  BY DEF RingHolds
<1>2. Upload!Jobs = 1 .. MaxJobs /\ MaxJobs \in Nat
  BY UploadAssumption DEF Upload!UploaderAssumption, Upload!Jobs
<1>3. /\ s \in Seq(Upload!Jobs) /\ Len(s) = Len(r) + 1 /\ s[Len(r) + 1] = j /\ Len(r) \in Nat
      /\ \A k \in 1 .. Len(r) : s[k] = r[k] /\ r[k] \in Upload!Jobs
  BY <1>1
<1>4. /\ DOMAIN g = Upload!Jobs /\ g[j] = "queued"
      /\ \A i \in Upload!Jobs : i # j => g[i] = f[i]
  BY <1>1
<1> HIDE DEF s, g
<1>5. ASSUME NEW i \in Upload!Jobs PROVE g[i] = "queued" <=> \E k \in 1 .. Len(s) : s[k] = i
  <2>1. CASE i = j
    BY <1>3, <1>4, <2>1
  <2>2. CASE i # j
    <3>1. g[i] = "queued" <=> \E k \in 1 .. Len(r) : r[k] = i
      BY <1>1, <1>4, <2>2
    <3>2. ASSUME NEW k \in 1 .. Len(s), s[k] = i PROVE k \in 1 .. Len(r) /\ r[k] = i
      BY <1>3, <2>2, <3>2
    <3>3. ASSUME NEW k \in 1 .. Len(r), r[k] = i PROVE k \in 1 .. Len(s) /\ s[k] = i
      BY <1>3, <3>3
    <3> QED BY <3>1, <3>2, <3>3
  <2> QED BY <2>1, <2>2
<1>6. ASSUME NEW k \in 1 .. Len(r) PROVE r[k] < j
  BY <1>1, <1>3, <1>6
<1>7. ASSUME NEW k \in 1 .. Len(s), NEW l \in 1 .. Len(s), k < l PROVE s[k] < s[l]
  <2>1. k \in 1 .. Len(r) /\ s[k] = r[k]
    BY <1>3, <1>7
  <2>2. CASE l = Len(r) + 1
    BY <1>3, <1>6, <2>1, <2>2
  <2>3. CASE l \in 1 .. Len(r)
    BY <1>1, <1>3, <1>7, <2>1, <2>3
  <2> QED BY <1>3, <2>2, <2>3
<1>8. ASSUME NEW i \in Upload!Jobs, NEW h \in Upload!Jobs PROVE
        /\ g[i] = "dropped" /\ g[h] = "queued" => i < h
        /\ g[i] # "new" /\ g[h] = "new" => i < h
  <2>1. f[i] # "new" => i < j
    BY <1>1
  <2>2. g[h] = "new" => h # j /\ f[h] = "new" /\ j < h
    BY <1>2, <1>4
  <2>3. g[i] = "dropped" => i # j /\ f[i] = "dropped"
    BY <1>4
  <2>4. CASE i = j
    BY <2>2, <2>3, <2>4
  <2>5. CASE i # j /\ h = j
    BY <1>4, <2>1, <2>2, <2>3, <2>5
  <2>6. CASE i # j /\ h # j
    BY <1>1, <1>4, <2>6
  <2> QED BY <2>4, <2>5, <2>6
<1>9. RingHolds(s, g)
  BY <1>3, <1>4, <1>5, <1>7, <1>8 DEF RingHolds
<1> QED BY <1>9 DEF s, g

\* The oldest job leaves, to be sent or to be given up.
LEMMA RingGivesOut ==
  ASSUME NEW r, NEW f, RingHolds(r, f), r # <<>>, NEW what \in {"taken", "dropped"}
  PROVE  /\ Head(r) \in Upload!Jobs /\ f[Head(r)] = "queued"
         /\ RingHolds(Tail(r), [f EXCEPT ![Head(r)] = what])
<1> DEFINE s == Tail(r)
           e == Head(r)
           g == [f EXCEPT ![e] = what]
<1>1. /\ r \in Seq(Upload!Jobs) /\ DOMAIN f = Upload!Jobs
      /\ \A i \in Upload!Jobs : f[i] = "queued" <=> \E k \in 1 .. Len(r) : r[k] = i
      /\ \A k, l \in 1 .. Len(r) : k < l => r[k] < r[l]
      /\ \A i, h \in Upload!Jobs : f[i] = "dropped" /\ f[h] = "queued" => i < h
      /\ \A i, h \in Upload!Jobs : f[i] # "new" /\ f[h] = "new" => i < h
  BY DEF RingHolds
<1>2. Upload!Jobs = 1 .. MaxJobs /\ MaxJobs \in Nat
  BY UploadAssumption DEF Upload!UploaderAssumption, Upload!Jobs
<1>3. /\ s \in Seq(Upload!Jobs) /\ Len(r) \in Nat /\ Len(r) > 0 /\ Len(s) = Len(r) - 1 /\ e = r[1]
      /\ \A k \in 1 .. Len(s) : s[k] = r[k + 1]
      /\ \A k \in 1 .. Len(r) : r[k] \in Upload!Jobs
  BY <1>1
<1>4. e \in Upload!Jobs /\ f[e] = "queued"
  BY <1>1, <1>3
<1>5. /\ DOMAIN g = Upload!Jobs /\ g[e] = what
      /\ \A i \in Upload!Jobs : i # e => g[i] = f[i]
  BY <1>1, <1>4
<1> HIDE DEF s, e, g
<1>6. ASSUME NEW k \in 2 .. Len(r) PROVE e < r[k] /\ e # r[k]
  <2>1. k \in 1 .. Len(r) /\ 1 \in 1 .. Len(r) /\ 1 < k
    BY <1>3
  <2> QED BY <1>1, <1>2, <1>3, <2>1
<1>7. ASSUME NEW i \in Upload!Jobs PROVE g[i] = "queued" <=> \E k \in 1 .. Len(s) : s[k] = i
  <2>1. ASSUME NEW k \in 1 .. Len(s), s[k] = i PROVE g[i] = "queued"
    <3>1. k + 1 \in 2 .. Len(r) /\ k + 1 \in 1 .. Len(r) /\ r[k + 1] = i
      BY <1>3, <2>1
    <3>2. i # e
      BY <1>6, <3>1
    <3> QED BY <1>1, <1>5, <3>1, <3>2
  <2>2. ASSUME g[i] = "queued" PROVE \E k \in 1 .. Len(s) : s[k] = i
    <3>1. i # e /\ f[i] = "queued"
      BY <1>5, <2>2
    <3>2. PICK k \in 1 .. Len(r) : r[k] = i
      BY <1>1, <3>1
    <3>3. k # 1
      BY <1>3, <3>1, <3>2
    <3>4. k - 1 \in 1 .. Len(s) /\ (k - 1) + 1 = k
      BY <1>3, <3>3
    <3> QED BY <1>3, <3>2, <3>4
  <2> QED BY <2>1, <2>2
<1>8. ASSUME NEW k \in 1 .. Len(s), NEW l \in 1 .. Len(s), k < l PROVE s[k] < s[l]
  <2>1. k + 1 \in 1 .. Len(r) /\ l + 1 \in 1 .. Len(r) /\ k + 1 < l + 1
    BY <1>3, <1>8
  <2> QED BY <1>1, <1>3, <2>1
<1>9. ASSUME NEW i \in Upload!Jobs, NEW h \in Upload!Jobs PROVE
        /\ g[i] = "dropped" /\ g[h] = "queued" => i < h
        /\ g[i] # "new" /\ g[h] = "new" => i < h
  <2>1. g[h] = "queued" => h # e /\ f[h] = "queued" /\ e < h
    <3> SUFFICES ASSUME g[h] = "queued" PROVE h # e /\ f[h] = "queued" /\ e < h
      OBVIOUS
    <3>1. PICK k \in 1 .. Len(s) : s[k] = h
      BY <1>7
    <3>2. k + 1 \in 2 .. Len(r) /\ r[k + 1] = h
      BY <1>3, <3>1
    <3> QED BY <1>5, <1>6, <3>2
  <2>2. g[h] = "new" => h # e /\ f[h] = "new"
    BY <1>5
  <2>3. i # e => g[i] = f[i]
    BY <1>5
  <2>4. CASE i = e
    BY <1>1, <1>4, <2>1, <2>2, <2>4
  <2>5. CASE i # e
    BY <1>1, <2>1, <2>2, <2>3, <2>5
  <2> QED BY <2>4, <2>5
<1>10. RingHolds(s, g)
  BY <1>3, <1>5, <1>7, <1>8, <1>9 DEF RingHolds
<1> QED BY <1>4, <1>10 DEF s, e, g

\* Every step keeps it: jobs that come in, wake-ups, and each step of the task.
LEMMA UploadStep == UploadInv /\ [Upload!Next]_(Upload!vars) => UploadInv'
<1> SUFFICES ASSUME UploadInv, [Upload!Next]_(Upload!vars) PROVE UploadInv'
  OBVIOUS
<1>a. RingHolds(ring, fate) /\ LoopIsTold
  BY DEF UploadInv
<1>b. /\ DOMAIN loop = {"pc", "job", "attempt"} /\ untold \in Nat /\ permit \in BOOLEAN
      /\ loop.pc \in {"cooldown", "upload"} => loop.job \in Upload!Jobs /\ fate[loop.job] = "taken"
      /\ loop.pc \in {"empty", "wait"} /\ ring # <<>> => permit \/ untold > 0
      /\ DOMAIN fate = Upload!Jobs /\ ring \in Seq(Upload!Jobs)
  BY <1>a DEF LoopIsTold, RingHolds
<1>1. ASSUME NEW j \in Upload!Jobs, Upload!TryEnqueue(j) PROVE UploadInv'
  <2>1. /\ fate[j] = "new" /\ (\A i \in 1 .. j - 1 : fate[i] # "new") /\ Upload!Push(j)
        /\ untold' = untold + 1 /\ UNCHANGED <<permit, loop, inARow>>
    BY <1>1 DEF Upload!TryEnqueue
  <2>2. CASE Len(ring) < Cap
    <3>1. ring' = Append(ring, j) /\ fate' = [fate EXCEPT ![j] = "queued"]
      BY <2>1, <2>2 DEF Upload!Push
    <3>2. RingHolds(ring', fate')
      BY <1>a, <2>1, <3>1, RingTakesIn
    <3>3. \A i \in Upload!Jobs : fate[i] = "taken" => fate'[i] = "taken"
      BY <1>b, <2>1, <3>1
    <3>4. LoopIsTold'
      BY <1>b, <2>1, <3>3 DEF LoopIsTold
    <3>5. RingHolds(ring, fate)'
      BY <3>2 DEF RingHolds
    <3> QED BY <3>4, <3>5 DEF UploadInv
  <2>3. CASE ~(Len(ring) < Cap)
    <3>1. /\ ring' = Append(Tail(ring), j)
          /\ fate' = [fate EXCEPT ![j] = "queued", ![Head(ring)] = "dropped"]
      BY <2>1, <2>3 DEF Upload!Push
    <3>2. ring # <<>>
      <4>1. Cap \in Nat /\ Cap > 0 /\ Len(ring) \in Nat
        BY <1>b, UploadAssumption DEF Upload!UploaderAssumption
      <4> QED BY <2>3, <4>1
    <3> DEFINE f == [fate EXCEPT ![Head(ring)] = "dropped"]
    <3>3. Head(ring) \in Upload!Jobs /\ fate[Head(ring)] = "queued" /\ RingHolds(Tail(ring), f)
      BY <1>a, <3>2, RingGivesOut
    <3>4. Head(ring) # j
      BY <2>1, <3>3
    <3>5. f[j] = "new" /\ \A i \in 1 .. j - 1 : f[i] # "new"
      <4>1. \A i \in Upload!Jobs : f[i] = IF i = Head(ring) THEN "dropped" ELSE fate[i]
        BY <1>b, <3>3
      <4>2. 1 .. j - 1 \subseteq Upload!Jobs
        BY UploadAssumption DEF Upload!UploaderAssumption, Upload!Jobs
      <4> HIDE DEF f
      <4> QED BY <2>1, <3>4, <4>1, <4>2
    <3>6. fate' = [f EXCEPT ![j] = "queued"]
      BY <1>b, <3>1, <3>3, <3>4
    <3> HIDE DEF f
    <3>r. RingHolds(Append(Tail(ring), j), [f EXCEPT ![j] = "queued"])
      BY <3>3, <3>5, RingTakesIn
    <3>7. RingHolds(ring', fate')
      BY <3>1, <3>6, <3>r
    <3>8. \A i \in Upload!Jobs : fate[i] = "taken" => fate'[i] = "taken"
      BY <1>b, <2>1, <3>1, <3>3
    <3>9. LoopIsTold'
      BY <1>b, <2>1, <3>8 DEF LoopIsTold
    <3>10. RingHolds(ring, fate)'
      BY <3>7 DEF RingHolds
    <3> QED BY <3>9, <3>10 DEF UploadInv
  <2> QED BY <2>2, <2>3
<1>2. ASSUME Upload!Pop PROVE UploadInv'
  <2>1. /\ ring # <<>> /\ ring' = Tail(ring) /\ fate' = [fate EXCEPT ![Head(ring)] = "taken"]
        /\ loop' = [pc |-> IF inARow >= RestAfter THEN "cooldown" ELSE "upload",
                    job |-> Head(ring), attempt |-> 1]
        /\ UNCHANGED <<untold, permit, inARow>>
    BY <1>2 DEF Upload!Pop
  <2>2. Head(ring) \in Upload!Jobs /\ RingHolds(ring', fate')
    BY <1>a, <2>1, RingGivesOut
  <2>3. LoopIsTold'
    BY <1>b, <2>1, <2>2 DEF LoopIsTold
  <2>4. RingHolds(ring, fate)'
    BY <2>2 DEF RingHolds
  <2> QED BY <2>3, <2>4 DEF UploadInv
<1>3. ASSUME UNCHANGED <<ring, fate>>, LoopIsTold' PROVE UploadInv'
  <2>1. RingHolds(ring, fate)'
    BY <1>a, <1>3 DEF RingHolds
  <2> QED BY <1>3, <2>1 DEF UploadInv
<1>4. ASSUME Upload!Notify PROVE UploadInv'
  BY <1>b, <1>3, <1>4 DEF Upload!Notify, LoopIsTold
<1>5. ASSUME Upload!PopNothing \/ Upload!Wait \/ Upload!Notified PROVE UploadInv'
  <2>1. CASE Upload!PopNothing
    BY <1>b, <1>3, <2>1 DEF Upload!PopNothing, LoopIsTold
  <2>2. CASE Upload!Wait
    BY <1>b, <1>3, <2>2 DEF Upload!Wait, LoopIsTold
  <2>3. CASE Upload!Notified
    BY <1>b, <1>3, <2>3 DEF Upload!Notified, Upload!Popping, LoopIsTold
  <2> QED BY <1>5, <2>1, <2>2, <2>3
<1>6. ASSUME Upload!Cooldown \/ Upload!Retry PROVE UploadInv'
  BY <1>b, <1>3, <1>6 DEF Upload!Cooldown, Upload!Retry, LoopIsTold
<1>7. ASSUME Upload!Uploaded \/ Upload!Failed PROVE UploadInv'
  <2>1. PICK what \in {"sent", "failed"} : fate' = [fate EXCEPT ![loop.job] = what]
    BY <1>7 DEF Upload!Uploaded, Upload!Failed
  <2>2. loop.pc = "upload" /\ loop' = Upload!Popping /\ UNCHANGED <<ring, untold, permit>>
    BY <1>7 DEF Upload!Uploaded, Upload!Failed
  <2>3. /\ DOMAIN fate' = Upload!Jobs
        /\ \A i \in Upload!Jobs : fate'[i] = IF i = loop.job THEN what ELSE fate[i]
    BY <1>b, <2>1
  <2>4. \A i \in Upload!Jobs : /\ fate'[i] = "queued" <=> fate[i] = "queued"
                               /\ fate'[i] = "dropped" <=> fate[i] = "dropped"
                               /\ fate'[i] = "new" <=> fate[i] = "new"
    BY <1>b, <2>2, <2>3
  <2>5. RingHolds(ring, fate)'
    BY <1>a, <2>2, <2>3, <2>4 DEF RingHolds
  <2>6. LoopIsTold'
    BY <1>b, <2>2 DEF LoopIsTold, Upload!Popping
  <2> QED BY <2>5, <2>6 DEF UploadInv
<1>8. ASSUME UNCHANGED Upload!vars PROVE UploadInv'
  BY <1>b, <1>3, <1>8 DEF Upload!vars, LoopIsTold
<1> QED
  BY <1>1, <1>2, <1>4, <1>5, <1>6, <1>7, <1>8 DEF Upload!Next, Upload!Loop

\* Whatever threads push, and however often the ring overflows: what it gave up is
\* older than all that it holds, and the task does not sleep beside a job unless
\* it is about to be told (cloud_uploader.rs), for any jobs and any ring.
THEOREM NewestAreKept == Upload!Spec => [](Upload!NewestSurvive /\ Upload!WaiterIsTold)
<1>1. UploadInv => Upload!NewestSurvive /\ Upload!WaiterIsTold
  BY DEF UploadInv, RingHolds, LoopIsTold, Upload!NewestSurvive, Upload!WaiterIsTold
<1> QED
  BY <1>1, UploadInit, UploadStep, PTL DEF Upload!Spec
=============================================================================
