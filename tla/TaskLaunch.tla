----------------------------- MODULE TaskLaunch -----------------------------
(***************************************************************************)
(* The launch of one orchestration task against everything that may cancel *)
(* it: orchestration_prepare_task (commands.rs) with the pane the front    *)
(* end mounts afterwards (Shell.tsx), launch_best_of_n                     *)
(* (services/best_of_n.rs), which checkpoints before it marks, the cancel  *)
(* commands with their kill switch, and /cancel of Telegram.               *)
(*                                                                         *)
(* Commands run on the main thread, one after the other; Telegram, the     *)
(* poller and the agent run beside it.  PaneProcess models what spawning   *)
(* and killing a pane consist of, AttemptKill what kill_attempt does; here *)
(* each is one step.                                                       *)
(***************************************************************************)
CONSTANTS Reused,   \* TRUE: the worktree of the branch exists already
          Remote,   \* TRUE: Telegram is paired
          Tmux,     \* TRUE: tmux is installed, and a pane is a client of its server
          Crashes   \* TRUE: the application may die once and be started again

LaunchAssumption == {Reused, Remote, Tmux, Crashes} \subseteq BOOLEAN

VARIABLES state, \* orchestration_tasks.state
          pane,  \* pane_id and worktree_path are on record
          tree,  \* the worktree on disk
          ckpt,  \* attempt_checkpoints.status, "none" without a row
          agent, \* an agent works, in the pane or in its tmux session
          bestOfN, \* launched by launch_best_of_n, else orchestration_prepare_task
          made,  \* the launch created the worktree
          main,  \* what the main thread is in the middle of
          front, \* the front end is about to mount the pane
          tg,    \* what Telegram is in the middle of, and the pane it read
          crashed \* the application has died

vars == <<state, pane, tree, ckpt, agent, bestOfN, made, main, front, tg, crashed>>

Final == {"done", "failed", "canceled"}
Live == {"pending", "running", "awaiting_review"}

\* Types; a launch that goes on, or a pane to be mounted, is of a claimed task.
TypeOK ==
  /\ state \in Live \cup Final
  /\ {pane, agent, bestOfN, made, front, crashed} \subseteq BOOLEAN
  /\ tree \in {"none", "clean", "dirty"}
  /\ ckpt \in {"none", "open", "killed"}
  /\ main \in {"idle", "ensure", "checkpoint", "markRead", "markWrite", "spawn",
               "settle", "abort"}
  /\ tg \in [pc : {"idle", "cancel", "kill"}, pane : BOOLEAN]
  /\ main \notin {"idle", "settle", "abort"} \/ front => state # "pending"

Init == /\ state = "pending" /\ pane = FALSE
        /\ tree = IF Reused THEN "clean" ELSE "none"
        /\ ckpt = "none" /\ agent = FALSE /\ bestOfN \in BOOLEAN /\ made = FALSE
        /\ main = "idle" /\ front = FALSE
        /\ tg = [pc |-> "idle", pane |-> FALSE]
        /\ crashed = FALSE

Goto(from, to) == main = from /\ main' = to

\* set_state to a final state, from wherever can_transition lets it; the
\* callers here ignore its error.
Fail == state' = IF state \in {"running", "awaiting_review"} THEN "failed" ELSE state

----------------------------------------------------------------------------
\* The launch

\* claim_for_launch of a task that is not blocked.
Claim ==
  /\ Goto("idle", "ensure")
  /\ state = "pending" /\ state' = "running"
  /\ UNCHANGED <<crashed, bestOfN, pane, tree, ckpt, agent, made, front, tg>>

\* Mutant: the best-of-N launch marks the task before it has a checkpoint.
EnsureMarkFirst ==
  /\ Goto("ensure", "markRead")
  /\ made' = (tree = "none")
  /\ tree' = IF tree = "none" THEN "clean" ELSE tree
  /\ UNCHANGED <<crashed, bestOfN, state, pane, ckpt, agent, front, tg>>

\* worktree::ensure finds the worktree or adds it.
Ensure ==
  /\ Goto("ensure", IF bestOfN THEN "checkpoint" ELSE "markRead")
  /\ made' = (tree = "none")
  /\ tree' = IF tree = "none" THEN "clean" ELSE tree
  /\ UNCHANGED <<crashed, bestOfN, state, pane, ckpt, agent, front, tg>>

EnsureFails ==
  /\ Goto("ensure", "idle")
  /\ Fail
  /\ UNCHANGED <<crashed, bestOfN, pane, tree, ckpt, agent, made, front, tg>>

\* The checkpoint; prepare_task returns after it and the front end goes on.
Checkpoint ==
  /\ Goto("checkpoint", IF bestOfN THEN "markRead" ELSE "idle")
  /\ ckpt' = IF ckpt = "none" THEN "open" ELSE ckpt
  /\ front' = ~bestOfN
  /\ UNCHANGED <<crashed, bestOfN, state, pane, tree, agent, made, tg>>

\* Mutant: the task is launched although it could not be marked.
MarkReadBestEffort ==
  /\ main = "markRead"
  /\ main' = IF state = "running" THEN "markWrite"
             ELSE IF bestOfN THEN "spawn" ELSE "checkpoint"
  /\ UNCHANGED <<crashed, bestOfN, state, pane, tree, ckpt, agent, made, front, tg>>

\* set_state of mark_running only looks: the claim has made the task running.
\* If it is not any more, prepare_task returns an error as it is, and
\* launch_best_of_n removes the worktree it created.
MarkRead ==
  /\ main = "markRead"
  /\ IF state = "running"
     THEN main' = "markWrite" /\ UNCHANGED <<state, tree>>
     ELSE /\ main' = "idle"
          /\ IF bestOfN
             THEN Fail /\ tree' \in IF made THEN {"none", tree} ELSE {tree}
             ELSE UNCHANGED <<state, tree>>
  /\ UNCHANGED <<crashed, bestOfN, pane, ckpt, agent, made, front, tg>>

\* The UPDATE of mark_running, whatever the state is by now.
MarkWrite ==
  /\ Goto("markWrite", IF bestOfN THEN "spawn" ELSE "checkpoint")
  /\ pane' = TRUE
  /\ UNCHANGED <<crashed, bestOfN, state, tree, ckpt, agent, made, front, tg>>

\* launch_best_of_n spawns at once, with the closure it is given.
Spawn ==
  /\ Goto("spawn", "idle")
  /\ \/ agent' = (tree # "none") /\ UNCHANGED state
     \/ Fail /\ UNCHANGED agent
  /\ UNCHANGED <<crashed, bestOfN, pane, tree, ckpt, made, front, tg>>

\* The front end mounts the pane, whose Terminal calls pty_spawn: it fails if
\* its directory is gone, or for reasons of its own.
Mount ==
  /\ front /\ main = "idle"
  /\ front' = FALSE
  /\ agent' \in {agent, agent \/ tree # "none"}
  /\ UNCHANGED <<crashed, bestOfN, state, pane, tree, ckpt, made, main, tg>>

----------------------------------------------------------------------------
\* orchestration_cancel, and pipeline_cancel for a task it finds running

\* A kill, of the pane on record if there was one, ends the process of the
\* pane.  Under tmux that is the client; nothing ends the session it showed.
Killed(onRecord) == agent /\ (Tmux \/ ~onRecord)

\* Mutant: the worktree is aborted first and the process left for later.
CancelReadNoKill ==
  /\ Goto("idle", "settle")
  /\ UNCHANGED <<crashed, bestOfN, state, pane, tree, ckpt, agent, made, front, tg>>

\* The process of the pane on record is killed ...
CancelRead ==
  /\ Goto("idle", "settle")
  /\ agent' = Killed(pane)
  /\ UNCHANGED <<crashed, bestOfN, state, pane, tree, ckpt, made, front, tg>>

\* Mutant: canceling a task that is canceled already is an error.
SettleLiveOnly ==
  /\ main = "settle"
  /\ IF state \in Live
     THEN state' = "canceled" /\ main' = "abort"
     ELSE main' = "idle" /\ UNCHANGED state
  /\ UNCHANGED <<crashed, bestOfN, pane, tree, ckpt, agent, made, front, tg>>

\* ... the task canceled, or an error returned ...
Settle ==
  /\ main = "settle"
  /\ IF state \in Live \cup {"canceled"}
     THEN state' = "canceled" /\ main' = "abort"
     ELSE main' = "idle" /\ UNCHANGED state
  /\ UNCHANGED <<crashed, bestOfN, pane, tree, ckpt, agent, made, front, tg>>

\* ... and kill_attempt discards or restores the worktree; its git may fail.
Abort ==
  /\ Goto("abort", "idle")
  /\ \/ /\ ckpt = "open"
        /\ ckpt' = "killed" /\ tree' = IF made THEN "none" ELSE "clean"
     \/ UNCHANGED <<ckpt, tree>>
  /\ UNCHANGED <<crashed, bestOfN, state, pane, agent, made, front, tg>>

----------------------------------------------------------------------------
\* Beside the main thread

\* /cancel of Telegram: validate reads state and pane ...
RemoteValidate ==
  /\ Remote /\ tg.pc = "idle" /\ state \in Live
  /\ tg' = [pc |-> "cancel", pane |-> pane]
  /\ UNCHANGED <<crashed, bestOfN, state, pane, tree, ckpt, agent, made, main, front>>

\* ... execute cancels the task ...
RemoteCancel ==
  /\ tg.pc = "cancel"
  /\ IF state \in Live \cup {"canceled"}
     THEN state' = "canceled" /\ tg' = [tg EXCEPT !.pc = "kill"]
     ELSE tg' = [tg EXCEPT !.pc = "idle"] /\ UNCHANGED state
  /\ UNCHANGED <<crashed, bestOfN, pane, tree, ckpt, agent, made, main, front>>

\* ... and the effect kills the pane that was read.
RemoteKill ==
  /\ tg.pc = "kill"
  /\ agent' = Killed(tg.pane)
  /\ tg' = [tg EXCEPT !.pc = "idle"]
  /\ UNCHANGED <<crashed, bestOfN, state, pane, tree, ckpt, made, main, front>>

\* The poller sees the agent idle.
AgentIdle ==
  /\ agent /\ state = "running" /\ pane
  /\ state' = "awaiting_review"
  /\ UNCHANGED <<crashed, bestOfN, pane, tree, ckpt, agent, made, main, front, tg>>

AgentWrites ==
  /\ agent /\ tree = "clean"
  /\ tree' = "dirty"
  /\ UNCHANGED <<crashed, bestOfN, state, pane, ckpt, agent, made, main, front, tg>>

AgentExits ==
  /\ agent
  /\ agent' = FALSE
  /\ UNCHANGED <<crashed, bestOfN, state, pane, tree, ckpt, made, main, front, tg>>

\* The application dies with what it was in the middle of, and the agents with
\* it unless they are in tmux.  When it starts again the front end mounts the
\* panes of the saved layout, that of a launched task too if it was saved.
Crash ==
  /\ Crashes /\ ~crashed /\ crashed' = TRUE
  /\ main' = "idle" /\ tg' = [pc |-> "idle", pane |-> FALSE]
  /\ agent' = (agent /\ Tmux)
  /\ front' \in {FALSE, ~bestOfN /\ ckpt # "none"}
  /\ UNCHANGED <<bestOfN, state, pane, tree, ckpt, made>>

----------------------------------------------------------------------------
Launching == Ensure \/ EnsureFails \/ Checkpoint \/ MarkRead \/ MarkWrite \/ Spawn
Canceling == Settle \/ Abort
Remoting == RemoteCancel \/ RemoteKill

Next == \/ Claim \/ Launching \/ Mount
        \/ CancelRead \/ Canceling
        \/ RemoteValidate \/ Remoting
        \/ AgentIdle \/ AgentWrites \/ AgentExits \/ Crash

Spec == Init /\ [][Next]_vars

\* Commands return, git does not fail for ever, and the user asks for the
\* launch and for the cancel again and again.
Fairness == /\ WF_vars(Launching) /\ WF_vars(Canceling) /\ WF_vars(Remoting) /\ WF_vars(Mount)
            /\ SF_vars(Claim) /\ SF_vars(CancelRead) /\ SF_vars(Abort /\ ckpt' # ckpt)

FairSpec == Spec /\ Fairness

----------------------------------------------------------------------------
\* Properties

Quiet == main = "idle" /\ tg.pc = "idle" /\ ~front

\* Whoever wants to kill a running agent finds its pane in the task's row.
AgentIsOnRecord == agent => pane

\* Nothing removes the worktree under a running agent.
AgentHasWorktree == agent => tree # "none"

\* A worktree that launch_best_of_n created can always be found through a
\* checkpoint, however the launch ended ("no queda huérfano"): it registers the
\* checkpoint before it marks the task.  A crash between the two ends nothing.
NoOrphanWorktree ==
  bestOfN /\ main = "idle" /\ made /\ tree # "none" => ckpt # "none" \/ crashed

\* Agent, row, checkpoint and worktree agree at every step of a launch that
\* cancels, Telegram, failures and a crash interrupt: what the launch made can
\* be found, and a pane that a restart mounts again is no exception.
NothingIsLost == AgentIsOnRecord /\ AgentHasWorktree /\ NoOrphanWorktree

\* Once everything has come to rest no agent works for a canceled task: either
\* the launch came first and the cancel killed it, or the launch was refused.
NoAgentOfCanceledTask == Quiet /\ state = "canceled" => ~agent

\* A canceled launch is cleaned up by the kill switch when the user keeps
\* asking, wherever the cancel came in between and whatever a crash cut short.
CanceledLaunchIsCleaned == state = "canceled" /\ ckpt = "open" ~> ckpt = "killed"
=============================================================================
