------------------------------ MODULE BgQueue ------------------------------
(***************************************************************************)
(* The background job queue (services/bg_queue.rs): a table of jobs, a     *)
(* worker that polls the pending ones every two seconds and spawns one     *)
(* task per polled job under a semaphore, and the user who enqueues and    *)
(* cancels.  The connection is one mutex: an action that locks and unlocks *)
(* it is atomic, and only the end of a task keeps it across a call.        *)
(***************************************************************************)
EXTENDS Naturals, Sequences, FiniteSets

CONSTANTS
    Jobs,           \* the jobs that may be enqueued
    Tasks,          \* names for the tasks that tokio::spawn starts
    Permits,        \* the permits of the semaphore (8 in the code)
    Limit,          \* the LIMIT of the poll (8 in the code)
    OneConnection,  \* does the audit writer share the worker's connection?
                    \* lib.rs builds it so; FALSE shows the queue alone
    MaxRestarts,    \* bound on the restarts of the app
    None            \* no task

QueueAssumption ==
    /\ {Permits, Limit} \subseteq Nat \ {0}
    /\ OneConnection \in BOOLEAN
    /\ None \notin Tasks

VARIABLES
    row,        \* status of each job, "absent" before it is enqueued
    order,      \* the jobs in the order of created_at
    batch,      \* polled jobs for which the worker has no permit yet
    permits,    \* free permits of the semaphore
    task,       \* where each task is, for which job, with what result
    lock,       \* the task that keeps the connection's mutex locked
    restarts

vars == <<row, order, batch, permits, task, lock, restarts>>

Statuses == {"absent", "pending", "running", "done", "error", "cancelled"}
Results  == {"done", "error"}
Idle     == [pc |-> "idle"]
TaskStates ==
    {Idle} \cup [pc : {"spawned", "executing"}, job : Jobs]
           \cup [pc : {"ended", "auditing"}, job : Jobs, res : Results]

LiveTasks == {t \in Tasks : task[t].pc # "idle"}
Unlocked  == lock = None

Init ==
    /\ row      = [j \in Jobs |-> "absent"]
    /\ order    = <<>>
    /\ batch    = <<>>
    /\ permits  = Permits
    /\ task     = [t \in Tasks |-> Idle]
    /\ lock     = None
    /\ restarts = 0

----------------------------------------------------------------------------
(* The commands of the user.                                               *)

Enqueue(j) ==
    /\ Unlocked
    /\ row[j] = "absent"
    /\ row'   = [row EXCEPT ![j] = "pending"]
    /\ order' = Append(order, j)
    /\ UNCHANGED <<batch, permits, task, lock, restarts>>

\* Only a pending job changes; the user is told ok whether or not it was.
Cancel(j) ==
    /\ Unlocked
    /\ row[j] # "absent"
    /\ row' = [row EXCEPT ![j] = IF @ = "pending" THEN "cancelled" ELSE @]
    /\ UNCHANGED <<order, batch, permits, task, lock, restarts>>

----------------------------------------------------------------------------
(* The worker.                                                             *)

\* The oldest pending jobs.  A job stays pending until its task gets the
\* connection, so that a later poll may find it again.
Poll ==
    /\ Unlocked
    /\ batch = <<>>
    /\ LET found == SelectSeq(order, LAMBDA j : row[j] = "pending")
       IN  batch' = SubSeq(found, 1, IF Len(found) < Limit THEN Len(found) ELSE Limit)
    /\ UNCHANGED <<row, order, permits, task, lock, restarts>>

\* Mutated: The worker takes what it did not count.
SpawnTaskNoPermit(t) ==
    /\ batch # <<>>
    /\ permits > 0
    /\ task[t] = Idle
    /\ task'  = [task EXCEPT ![t] = [pc |-> "spawned", job |-> Head(batch)]]
    /\ batch' = Tail(batch)
    /\ UNCHANGED <<row, order, permits, lock, restarts>>

\* acquire_owned().await, then tokio::spawn with the permit.
SpawnTask(t) ==
    /\ batch # <<>>
    /\ permits > 0
    /\ task[t] = Idle
    /\ task'    = [task EXCEPT ![t] = [pc |-> "spawned", job |-> Head(batch)]]
    /\ permits' = permits - 1
    /\ batch'   = Tail(batch)
    /\ UNCHANGED <<row, order, lock, restarts>>

----------------------------------------------------------------------------
(* A task.                                                                 *)

\* The UPDATE to running; the job is executed even if no row changed.
StartJob(t) ==
    /\ Unlocked
    /\ task[t].pc = "spawned"
    /\ row'  = [row EXCEPT ![task[t].job] = IF @ = "pending" THEN "running" ELSE @]
    /\ task' = [task EXCEPT ![t] = [@ EXCEPT !.pc = "executing"]]
    /\ UNCHANGED <<order, batch, permits, lock, restarts>>

\* The handler of the job's kind, to its end or its error.  Its own uses of the
\* database touch other tables and come and go inside it.
RunJob(t) ==
    /\ task[t].pc = "executing"
    /\ \E res \in Results :
          task' = [task EXCEPT ![t] = [pc |-> "ended", job |-> @.job, res |-> res]]
    /\ UNCHANGED <<row, order, batch, permits, lock, restarts>>

\* Mutated: The branch of the error writes the audit event but not the row.
SettleDoneOnly(t) ==
    /\ Unlocked
    /\ task[t].pc = "ended"
    /\ row'  = [row EXCEPT ![task[t].job] = IF task[t].res = "done" THEN "done" ELSE @]
    /\ lock' = t
    /\ task' = [task EXCEPT ![t] = [@ EXCEPT !.pc = "auditing"]]
    /\ UNCHANGED <<order, batch, permits, restarts>>

\* let conn = db.lock(), the last UPDATE, and on to audit.write with the guard
\* of the lock still alive.
Settle(t) ==
    /\ Unlocked
    /\ task[t].pc = "ended"
    /\ row'  = [row EXCEPT ![task[t].job] = task[t].res]
    /\ lock' = t
    /\ task' = [task EXCEPT ![t] = [@ EXCEPT !.pc = "auditing"]]
    /\ UNCHANGED <<order, batch, permits, restarts>>

\* Mutated: The permit is forgotten with the task.
AuditEndKeepsPermit(t) ==
    /\ task[t].pc = "auditing"
    /\ OneConnection => Unlocked
    /\ lock'    = None
    /\ task'    = [task EXCEPT ![t] = Idle]
    /\ UNCHANGED <<row, order, batch, permits, restarts>>

\* AuditWriter::write locks its connection; then the guard and the permit drop.
AuditEnd(t) ==
    /\ task[t].pc = "auditing"
    /\ OneConnection => Unlocked
    /\ lock'    = None
    /\ permits' = permits + 1
    /\ task'    = [task EXCEPT ![t] = Idle]
    /\ UNCHANGED <<row, order, batch, restarts>>

\* The app is closed or dies, and boots again: only the table survives.
Restart ==
    /\ restarts < MaxRestarts
    /\ restarts' = restarts + 1
    /\ batch'    = <<>>
    /\ permits'  = Permits
    /\ task'     = [t \in Tasks |-> Idle]
    /\ lock'     = None
    /\ UNCHANGED <<row, order>>

----------------------------------------------------------------------------
TaskStep(t) == StartJob(t) \/ RunJob(t) \/ Settle(t) \/ AuditEnd(t)
Worker      == Poll \/ \E t \in Tasks : SpawnTask(t)

Next ==
    \/ \E j \in Jobs : Enqueue(j) \/ Cancel(j)
    \/ Worker
    \/ \E t \in Tasks : TaskStep(t)
    \/ Restart

Spec == Init /\ [][Next]_vars

\* The runtime polls every task that is ready, the timer of the worker fires
\* and the mutex is free between its short holders; handlers have timeouts.
\* Nobody has to enqueue, cancel or restart.
Fairness == WF_vars(Worker) /\ \A t \in Tasks : WF_vars(TaskStep(t))
FairSpec == Spec /\ Fairness

----------------------------------------------------------------------------
\* Every variable keeps its type, and only a task that ends keeps the lock.
TypeOK ==
    /\ row \in [Jobs -> Statuses]
    /\ order \in Seq(Jobs)
    /\ batch \in Seq(Jobs)
    /\ permits \in 0 .. Permits
    /\ task \in [Tasks -> TaskStates]
    /\ lock \in {t \in Tasks : task[t].pc = "auditing"} \cup {None}
    /\ restarts \in 0 .. MaxRestarts

\* "concurrency limit via Semaphore = 8": permits are neither lost nor made,
\* whatever the tasks' ends, so that at most Permits tasks are alive.
PermitsAreKept == permits + Cardinality(LiveTasks) = Permits

\* Until a restart, a job that the table calls running is being run: no end of
\* a task, of a duplicate of it, or of a cancel leaves it running for ever.
RunningHasTask ==
    restarts = 0 =>
        \A j \in Jobs : row[j] = "running" =>
            \E t \in Tasks : task[t].pc \in {"executing", "ended"} /\ task[t].job = j

\* The limit is kept and the table tells the truth, whichever tasks of one job
\* overlap and wherever a cancel falls.
QueueIsAccounted == PermitsAreKept /\ RunningHasTask

\* No pending job waits for ever: each one is polled past the LIMIT, gets a
\* permit and runs, or is cancelled.
PendingIsTaken == \A j \in Jobs : []<>(row[j] # "pending")

\* What audit.rs asks of a caller that holds the connection: never to reach
\* the lock of AuditWriter::write, which is the one it holds.
NoDoubleLock ==
    \A t \in Tasks : task[t].pc = "auditing" /\ lock = t => ~OneConnection
============================================================================
