---------------------------- MODULE PaneProcess ----------------------------
(***************************************************************************)
(* The process of one pane: its row in the registry                        *)
(* (services/process_manager.rs), the session and the wait threads of the  *)
(* PtyManager (pty.rs), and the commands of commands.rs that spawn and     *)
(* cancel it.                                                              *)
(*                                                                         *)
(* Every spawn is a generation: its token is carried by the row, by the    *)
(* session and by its wait thread.  Killing goes by pane, not by token.    *)
(* The process is the child of the pane's PTY: with tmux installed that is *)
(* the client, and the CLI in its session is not modelled here.            *)
(***************************************************************************)
EXTENDS Naturals

CONSTANTS Spawners,    \* threads that run pty_spawn
          Cancellers,  \* threads that run cancel_reap_emit for the user
          NoOne,
          MaxGen,      \* bound on the generations of one run of the application
          Restarts     \* TRUE: the application may die and be started again

Threads == Spawners \cup Cancellers
Gens == 1..MaxGen

ASSUME MaxGenType == MaxGen \in Nat \ {0}
ASSUME NoOneIsNoThread == NoOne \notin Threads
ASSUME RestartsType == Restarts \in BOOLEAN

VARIABLES status, \* process_registry.status, "none" without a row
          token,  \* process_registry.run_token, 0 for NULL
          sess,   \* generation of the pane's PtySession, 0 without one
          alive,  \* generations whose operating-system process lives
          ctx,    \* generation that registered the pane's capture buffer
          wait,   \* the wait thread of each generation
          seq,    \* RUN_SEQ
          lock,   \* holder of the pane's spawn lock
          call    \* what each thread is in the middle of, for which generation

vars == <<status, token, sess, alive, ctx, wait, seq, lock, call>>

Terminal == {"done", "failed", "canceled"}

Idle == [pc |-> "idle", gen |-> 0]

\* What a thread in the middle of a command remembers.
Calls == [pc : {"idle", "reap", "reapKill", "register", "spawn",
                "failed", "check", "context", "kill"},
          gen : Gens \cup {0}]

\* Types; every row carries the token of the spawn that registered it.
TypeOK == /\ status \in {"none", "running"} \cup Terminal
          /\ token \in Gens \cup {0}
          /\ status # "none" => token \in Gens
          /\ sess \in Gens \cup {0}
          /\ alive \subseteq Gens
          /\ ctx \in Gens \cup {0}
          /\ wait \in [Gens -> {"none", "watch", "finish", "capture", "gone"}]
          /\ seq \in 1..(MaxGen + 1)
          /\ lock \in Threads \cup {NoOne}
          /\ call \in [Threads -> Calls]

\* The row is that of generation g, running.
Runs(g) == status = "running" /\ token = g

At(th, pc) == call[th].pc = pc
Goto(th, pc) == call' = [call EXCEPT ![th].pc = pc]
Return(th) == call' = [call EXCEPT ![th] = Idle]
Unlock(th) == lock' = IF lock = th THEN NoOne ELSE lock

----------------------------------------------------------------------------
\* PtyManager

\* kill: whatever session the pane has now, with its process and its buffers.
KillPane == sess' = 0 /\ alive' = alive \ {sess} /\ ctx' = 0

\* kill_if_spawn_id: only the session of this generation.
KillIfSpawnId(g) ==
  IF sess = g THEN sess' = 0 /\ alive' = alive \ {g} ELSE UNCHANGED <<sess, alive>>

\* Mutant: the process of the replaced session is not killed.
InstallKeepsOld(g) == sess' = g /\ alive' = alive \cup {g} /\ ctx' = 0

\* spawn replaces the session the pane still has, and kills its process.
Install(g) == sess' = g /\ alive' = (alive \ {sess}) \cup {g} /\ ctx' = 0

----------------------------------------------------------------------------
\* pty_spawn

\* Mutant: spawns of one pane are not serialised.
PtySpawnUnlocked(th) ==
  /\ At(th, "idle") /\ seq <= MaxGen
  /\ lock' = th
  /\ Goto(th, "reap")
  /\ UNCHANGED <<status, token, sess, alive, ctx, wait, seq>>

\* The pane's spawn lock is taken first.
PtySpawn(th) ==
  /\ At(th, "idle") /\ lock = NoOne /\ seq <= MaxGen
  /\ lock' = th
  /\ Goto(th, "reap")
  /\ UNCHANGED <<status, token, sess, alive, ctx, wait, seq>>

\* cancel of the run before, silent ...
Reap(th) ==
  /\ At(th, "reap")
  /\ IF status = "running"
     THEN status' = "canceled" /\ Goto(th, "reapKill")
     ELSE UNCHANGED status /\ Goto(th, "register")
  /\ UNCHANGED <<token, sess, alive, ctx, wait, seq, lock>>

\* ... which kills only if this call canceled it.
ReapKill(th) ==
  /\ At(th, "reapKill")
  /\ KillPane
  /\ Goto(th, "register")
  /\ UNCHANGED <<status, token, wait, seq, lock>>

\* next_run_token and the UPSERT, which keeps the token of a running row; a
\* caller that does not find its own token in the row gives up.
Register(th) ==
  /\ At(th, "register") /\ seq <= MaxGen
  /\ seq' = seq + 1
  /\ IF status = "running"
     THEN Return(th) /\ Unlock(th) /\ UNCHANGED <<status, token>>
     ELSE /\ status' = "running" /\ token' = seq
          /\ call' = [call EXCEPT ![th] = [pc |-> "spawn", gen |-> seq]]
          /\ UNCHANGED lock
  /\ UNCHANGED <<sess, alive, ctx, wait>>

\* PtyManager::spawn succeeds and starts the wait thread ...
Spawn(th) ==
  /\ At(th, "spawn")
  /\ Install(call[th].gen)
  /\ wait' = [wait EXCEPT ![call[th].gen] = "watch"]
  /\ Goto(th, "check")
  /\ UNCHANGED <<status, token, seq, lock>>

\* ... or fails before it has a process, or fails to start a thread after it
\* has put the session in place.
SpawnFails(th) ==
  /\ At(th, "spawn")
  /\ Install(call[th].gen) \/ UNCHANGED <<sess, alive, ctx>>
  /\ Goto(th, "failed")
  /\ UNCHANGED <<status, token, wait, seq, lock>>

\* The spawn failed: its own session, if any, is killed and its row finished.
FailedSpawn(th) ==
  /\ At(th, "failed")
  /\ KillIfSpawnId(call[th].gen)
  /\ status' = IF Runs(call[th].gen) THEN "failed" ELSE status
  /\ Return(th) /\ Unlock(th)
  /\ UNCHANGED <<token, ctx, wait, seq>>

\* Mutant: nobody looks whether the run was canceled while it was spawned.
PostCheckSkipped(th) ==
  /\ At(th, "check")
  /\ Goto(th, "context")
  /\ UNCHANGED <<status, token, sess, alive, ctx, wait, seq, lock>>

\* A row that is no longer running was canceled during the spawn.
PostCheck(th) ==
  /\ At(th, "check")
  /\ IF status = "running"
     THEN Goto(th, "context") /\ UNCHANGED <<sess, alive, lock>>
     ELSE KillIfSpawnId(call[th].gen) /\ Return(th) /\ Unlock(th)
  /\ UNCHANGED <<status, token, ctx, wait, seq>>

\* register_session_ctx, if the pane runs an agent and capture is switched on.
RegisterSessionCtx(th) ==
  /\ At(th, "context")
  /\ ctx' \in {ctx, call[th].gen}
  /\ Return(th) /\ Unlock(th)
  /\ UNCHANGED <<status, token, sess, alive, wait, seq>>

----------------------------------------------------------------------------
\* cancel_reap_emit for the user: process_cancel, pty_kill, the cancel commands
\* of the orchestration and /cancel of Telegram.  A row that is not running is
\* left alone.

CancelRow(th) ==
  /\ At(th, "idle")
  /\ status = "running"
  /\ status' = "canceled"
  /\ Goto(th, "kill")
  /\ UNCHANGED <<token, sess, alive, ctx, wait, seq, lock>>

\* save_abrupt_close_buffer and the kill of the pane.
CancelKill(th) ==
  /\ At(th, "kill")
  /\ KillPane
  /\ Return(th)
  /\ UNCHANGED <<status, token, wait, seq, lock>>

----------------------------------------------------------------------------
\* The process and its wait thread

\* The process ends by itself.
ChildExits(g) ==
  /\ g \in alive
  /\ alive' = alive \ {g}
  /\ UNCHANGED <<status, token, sess, ctx, wait, seq, lock, call>>

\* The poll under the lock of the sessions: a session that is gone or belongs
\* to another generation ends the thread, an exited process takes its session.
WaitPoll(g) ==
  /\ wait[g] = "watch"
  /\ \/ sess # g /\ wait' = [wait EXCEPT ![g] = "gone"] /\ UNCHANGED sess
     \/ /\ sess = g /\ g \notin alive
        /\ sess' = 0 /\ wait' = [wait EXCEPT ![g] = "finish"]
  /\ UNCHANGED <<status, token, alive, ctx, seq, lock, call>>

\* Mutant: finish goes by pane alone.
WaitFinishUnscoped(g) ==
  /\ wait[g] = "finish"
  /\ status' \in IF status = "running" THEN {"done", "failed"} ELSE {status}
  /\ wait' = [wait EXCEPT ![g] = "capture"]
  /\ UNCHANGED <<token, sess, alive, ctx, seq, lock, call>>

\* Mutant: a process that exits with an error is not put on record.
WaitFinishCleanOnly(g) ==
  /\ wait[g] = "finish"
  /\ status' \in IF Runs(g) THEN {status, "done"} ELSE {status}
  /\ wait' = [wait EXCEPT ![g] = "capture"]
  /\ UNCHANGED <<token, sess, alive, ctx, seq, lock, call>>

\* finish, scoped by the token: done or failed by the exit code.
WaitFinish(g) ==
  /\ wait[g] = "finish"
  /\ status' \in IF Runs(g) THEN {"done", "failed"} ELSE {status}
  /\ wait' = [wait EXCEPT ![g] = "capture"]
  /\ UNCHANGED <<token, sess, alive, ctx, seq, lock, call>>

\* dispatch_session_capture takes the buffer the pane has now.
WaitCapture(g) ==
  /\ wait[g] = "capture"
  /\ ctx' = 0
  /\ wait' = [wait EXCEPT ![g] = "gone"]
  /\ UNCHANGED <<status, token, sess, alive, seq, lock, call>>

\* The application dies and is started again: the row is all that is left, and
\* the tokens start over.
Restart ==
  /\ Restarts
  /\ sess' = 0 /\ alive' = {} /\ ctx' = 0
  /\ wait' = [g \in Gens |-> "none"]
  /\ seq' = 1 /\ lock' = NoOne
  /\ call' = [th \in Threads |-> Idle]
  /\ UNCHANGED <<status, token>>

----------------------------------------------------------------------------
Init == /\ status = "none" /\ token = 0
        /\ sess = 0 /\ alive = {} /\ ctx = 0
        /\ wait = [g \in Gens |-> "none"]
        /\ seq = 1 /\ lock = NoOne
        /\ call = [th \in Threads |-> Idle]

Spawning(th) == \/ Reap(th) \/ ReapKill(th) \/ Register(th) \/ Spawn(th) \/ SpawnFails(th)
                \/ FailedSpawn(th) \/ PostCheck(th) \/ RegisterSessionCtx(th)

Waiting(g) == WaitPoll(g) \/ WaitFinish(g) \/ WaitCapture(g)

Next == \/ \E th \in Spawners : PtySpawn(th) \/ Spawning(th)
        \/ \E th \in Cancellers : CancelRow(th) \/ CancelKill(th)
        \/ \E g \in Gens : ChildExits(g) \/ Waiting(g)
        \/ Restart

Spec == Init /\ [][Next]_vars

\* Commands return and the wait threads poll for ever.
Fairness == /\ \A th \in Spawners : WF_vars(Spawning(th))
            /\ \A th \in Cancellers : WF_vars(CancelKill(th))
            /\ \A g \in Gens : WF_vars(Waiting(g))

FairSpec == Spec /\ Fairness

----------------------------------------------------------------------------
\* Properties

AllIdle == \A th \in Threads : At(th, "idle")

\* No process of a pane outlives its session in the map: whatever raced with a
\* spawn, the replaced process was killed (audit HIGH, "leakear el OS process").
NoLeakedProcess == alive \subseteq {sess}

\* A row that says done or failed tells the truth about its generation: no wait
\* thread of an older run ends the row of a newer one (migration 029).
FinishedMeansDead ==
  status \in {"done", "failed"} => token \notin alive

\* A canceled run is dead once every call has returned, also when the cancel
\* came while the process was being spawned.
CanceledStaysDead == AllIdle /\ status = "canceled" => sess = 0

\* Once every call has returned a running row has its session, or its wait
\* thread is about to finish it: the registry does not diverge from reality,
\* and process_list lists what lives.
RunningRowHasSession ==
  AllIdle /\ status = "running" => sess = token \/ wait[token] = "finish"

\* A running row does not outlive its process for ever.
RunEndsOnRecord ==
  \A g \in Gens :
    Runs(g) /\ wait[g] = "watch" /\ g \notin alive
      ~> ~Runs(g)
=============================================================================
