------------------------------- MODULE Uploader -------------------------------
(***************************************************************************)
(* The uploader of traces (cloud_uploader.rs): a bounded ring that any     *)
(* thread pushes to, a Notify that remembers one wake-up, and one task     *)
(* that takes the oldest job, tries it a few times and goes on.  A full    *)
(* ring gives up its oldest job.  After several jobs in a row have failed  *)
(* the task rests before each further one.                                 *)
(***************************************************************************)
EXTENDS Naturals, Sequences, FiniteSets, SequencesExt

CONSTANTS MaxJobs,     \* bound on the jobs, which are numbered as they come
          Cap,         \* UPLOAD_QUEUE_CAP
          MaxAttempts, \* HTTP_RETRY_MAX_ATTEMPTS
          Threshold    \* CIRCUIT_BREAKER_THRESHOLD

UploaderAssumption ==
  /\ {MaxJobs, Threshold} \subseteq Nat
  /\ {Cap, MaxAttempts} \subseteq Nat \ {0}

Jobs == 1 .. MaxJobs

VARIABLES ring,    \* queue: jobs, the oldest first
          untold,  \* pushes whose notify_one is still to come
          permit,  \* the Notify has been told and nobody has woken up yet
          loop,    \* uploader_loop: what it does, with which job, at which attempt
          inARow,  \* consecutive_fails
          fate     \* what became of each job

vars == <<ring, untold, permit, loop, inARow, fate>>

TypeOK ==
  /\ ring \in SeqOf(Jobs, Cap)
  /\ untold \in 0 .. MaxJobs /\ permit \in BOOLEAN
  /\ loop \in [pc : {"pop", "empty", "wait", "cooldown", "upload"}, job : 0 .. MaxJobs,
               attempt : 0 .. MaxAttempts]
  /\ inARow \in 0 .. Threshold
  /\ fate \in [Jobs -> {"new", "queued", "taken", "sent", "failed", "dropped"}]

Popping == [pc |-> "pop", job |-> 0, attempt |-> 0]

Init == /\ ring = <<>> /\ untold = 0 /\ permit = FALSE /\ loop = Popping /\ inARow = 0
        /\ fate = [j \in Jobs |-> "new"]

----------------------------------------------------------------------------
\* Mutant: a full ring refuses what is new.
PushUnlessFull(j) ==
  /\ ring' = IF Len(ring) < Cap THEN Append(ring, j) ELSE ring
  /\ fate' = [fate EXCEPT ![j] = IF Len(ring) < Cap THEN "queued" ELSE "dropped"]

Push(j) ==
  IF Len(ring) < Cap
  THEN ring' = Append(ring, j) /\ fate' = [fate EXCEPT ![j] = "queued"]
  ELSE /\ ring' = Append(Tail(ring), j)
       /\ fate' = [fate EXCEPT ![j] = "queued", ![Head(ring)] = "dropped"]

\* try_enqueue, under the lock of the ring ...
TryEnqueue(j) ==
  /\ fate[j] = "new" /\ \A i \in 1 .. j - 1 : fate[i] # "new"
  /\ Push(j)
  /\ untold' = untold + 1
  /\ UNCHANGED <<permit, loop, inARow>>

\* Mutant: only a task that waits already is told.
NotifyWaiting ==
  /\ untold > 0
  /\ untold' = untold - 1
  /\ permit' = (permit \/ loop.pc = "wait")
  /\ UNCHANGED <<ring, loop, inARow, fate>>

\* ... and notify_one, after it.
Notify ==
  /\ untold > 0
  /\ untold' = untold - 1
  /\ permit' = TRUE
  /\ UNCHANGED <<ring, loop, inARow, fate>>

\* uploader_loop
Pop ==
  /\ loop.pc = "pop" /\ ring # <<>>
  /\ ring' = Tail(ring)
  /\ loop' = [pc |-> IF inARow >= Threshold THEN "cooldown" ELSE "upload",
              job |-> Head(ring), attempt |-> 1]
  /\ fate' = [fate EXCEPT ![Head(ring)] = "taken"]
  /\ UNCHANGED <<untold, permit, inARow>>

PopNothing ==
  /\ loop.pc = "pop" /\ ring = <<>>
  /\ loop' = [loop EXCEPT !.pc = "empty"]
  /\ UNCHANGED <<ring, untold, permit, inARow, fate>>

\* notified().await, which begins after the lock of the ring is released
Wait ==
  /\ loop.pc = "empty" /\ ~permit
  /\ loop' = [loop EXCEPT !.pc = "wait"]
  /\ UNCHANGED <<ring, untold, permit, inARow, fate>>

Notified ==
  /\ loop.pc \in {"empty", "wait"} /\ permit
  /\ permit' = FALSE
  /\ loop' = Popping
  /\ UNCHANGED <<ring, untold, inARow, fate>>

Cooldown ==
  /\ loop.pc = "cooldown"
  /\ loop' = [loop EXCEPT !.pc = "upload"]
  /\ UNCHANGED <<ring, untold, permit, inARow, fate>>

\* upload_with_retry: an attempt succeeds,
Uploaded ==
  /\ loop.pc = "upload"
  /\ fate' = [fate EXCEPT ![loop.job] = "sent"]
  /\ inARow' = 0
  /\ loop' = Popping
  /\ UNCHANGED <<ring, untold, permit>>

\* Mutant: the attempts are not counted.
RetryForEver ==
  /\ loop.pc = "upload"
  /\ loop' = [loop EXCEPT !.attempt = IF @ < MaxAttempts THEN @ + 1 ELSE 1]
  /\ UNCHANGED <<ring, untold, permit, inARow, fate>>

\* fails and is tried again after a while,
Retry ==
  /\ loop.pc = "upload" /\ loop.attempt < MaxAttempts
  /\ loop' = [loop EXCEPT !.attempt = @ + 1]
  /\ UNCHANGED <<ring, untold, permit, inARow, fate>>

\* or fails for good: by an error no retry would help with, or by the last one.
Failed ==
  /\ loop.pc = "upload"
  /\ fate' = [fate EXCEPT ![loop.job] = "failed"]
  /\ inARow' = IF inARow < Threshold THEN inARow + 1 ELSE inARow
  /\ loop' = Popping
  /\ UNCHANGED <<ring, untold, permit>>

Loop == Pop \/ PopNothing \/ Wait \/ Notified \/ Cooldown \/ Uploaded \/ Retry \/ Failed

Next == (\E j \in Jobs : TryEnqueue(j)) \/ Notify \/ Loop

\* A call that pushed tells, timers fire and requests have time limits.
Fairness == WF_vars(Notify) /\ WF_vars(Loop)

Spec == Init /\ [][Next]_vars /\ Fairness
----------------------------------------------------------------------------
\* What the uploader promises

\* A full ring keeps what is new: whatever it gave up is older than all that it
\* holds.
NewestSurvive ==
  \A i, j \in Jobs : fate[i] = "dropped" /\ fate[j] = "queued" => i < j

\* No wake-up is lost between a push and the wait of the task: while there is a
\* job the task is on its way to it, or will be told.
WaiterIsTold == loop.pc = "wait" /\ ring # <<>> => permit \/ untold > 0

\* A job that came in leaves: it is sent, has failed or was given up.
JobsLeave == \A j \in Jobs : []<>(fate[j] \notin {"queued", "taken"})

TracesAreSettled == [](NewestSurvive /\ WaiterIsTold) /\ JobsLeave
=============================================================================
