# A TLA+ verification of furx

furx is a desktop application (Tauri: a Rust back end under `src/src-tauri`, a
React front end under `src/web`) that runs coding agents in terminal panes,
arranges their tasks in pipelines, gives each task a git worktree, and lets the
user steer them from the desktop, from a phone and from Telegram. This
directory models the parts of its back end whose correctness depends on the
order in which things happen, checks them with TLC and proves the most
important results with TLAPS.

All source paths below are relative to `src/src-tauri/src/` unless they start
with `web/`.

## How the program runs

* **One database mutex.** `state.db` is a `parking_lot::Mutex<rusqlite::Connection>`.
  A statement or a transaction is atomic; two statements under two `lock()` calls
  are not. Every action of the models is one critical section of the code, and an
  operation that takes the lock twice is two actions.
* **The main thread.** A synchronous `#[tauri::command] pub fn` runs on the main
  thread of the application, so these commands never interleave with each other.
  They interleave with the threads below, and the front end may send other
  commands between two of its own.
* **Threads beside it.** The done-detection poller, the inbound handler of
  Telegram, `reconcile_on_boot`, the wait and reader threads of each pane, the
  tasks of the background queue, the signals router, and `async` commands.
* **What survives.** The tables, the worktrees and the lock files. Processes of
  panes, sessions, tokens and everything in memory are gone after a restart.

## Inventory

| Component | State | Operations | Hard behaviour | What makes it correct | Module |
|---|---|---|---|---|---|
| Pipeline DAG (`services/pipeline_scheduler.rs`, `services/orchestration.rs`) | state and `dag_blocked` of each task, status of the run | `set_state`, `claim_for_launch`, `on_task_settled`, `mark_run_canceled`, `reconcile_run` | `set_state` reads and writes under two locks; the hook runs after the transition; crashes between them; the reconciliation runs beside commands | no task runs before its dependencies, the cascade skips only pending tasks, every run ends with a true verdict | `PipelineDag` |
| Attempt kill switch (`services/attempt_checkpoint.rs`) | checkpoint row with fencing token, file lock, worktree | `register`, `claim_killing`, `still_owner`, git, `release_killing`, `mark_killed` | killers that stall past `STALE_KILLING_SECS`, die, or whose git fails | one destructive git at a time; killed means clean; a started kill completes | `AttemptKill`, `AtomicKill` |
| Panes and processes (`services/process_manager.rs`, `pty.rs`) | registry row with run token, map of sessions, processes, wait threads, spawn locks | `pty_spawn`, `cancel_reap_emit`, the wait thread, kill | respawn of a pane beside its cancel and beside the wait thread of the run before | no leaked process, no row ended over a living process, rows agree with sessions | `PaneProcess` |
| Task launch (`commands.rs`, `services/best_of_n.rs`, `services/worktree.rs`) | task row, worktree, checkpoint, agent | `orchestration_prepare_task`, `launch_best_of_n`, `orchestration_cancel`, `/cancel` | a launch of many steps against cancels from two sides | every worktree and agent can be found and cleaned; no agent for a canceled task | `TaskLaunch` |
| Background queue (`services/bg_queue.rs`) | table of jobs, batch, semaphore, tasks | `enqueue`, `cancel`, poll, `run_job` | a job polled twice or cancelled in between; the lock across the audit event | permits are kept, no job hangs in running, no pending job starves | `BgQueue` |
| Signals router (`services/signals.rs`) | events, deliveries, retries | `emit_signal`, `materialize_deliveries`, `process_pending` | interrupts between statements, retries from a snapshot | every event is delivered or given up in every channel, bounded retries | `Signals` |
| PTY leases (`services/pty_lease.rs`) | binding and version of each panel, per-panel mutexes | attach, detach, mark_detaching, prune | pruning of a mutex somebody has cloned | one call at a time per panel; a lease changes hands by a newer attach only | `PtyLease` |
| Layout and windows (`services/layout_config.rs`, `services/window_reattach.rs`, `services/window_registry.rs`) | layout with a revision, live windows, settling marks, webviews | open detached, re-attach, the X and its settle task | the X beside the button and a second X; a save that fails; a restart | each pane in one window; a dead window closes | `Windows` |
| Done detection (`services/done_detection.rs`) and attention (`services/attention.rs`) | streaks per pane, `needs_input`, queue, dismissals | poll, classify, auto-confirm, dismiss | what was read is old when the row is written or the Enter is typed | one Enter per prompt; a new prompt reaches the human | `Attention` |
| Audio (`services/audio_attention.rs`, `services/tts.rs`) | queue, reservations, generation, the speaking process | consider, pump, silence, watcher | "callar" between the steps of a pump | nothing silenced is played, one voice that can be told to stop | `Audio` |
| Inbox cards (`commands.rs`, `services/mobile_bridge.rs`, `services/telegram_inbound.rs`) | cards, audit events, nonces seen (in memory) | decide from the desktop, the phone, Telegram; snooze | frames that are late, repeated or reordered; a restart forgets the nonces | between two starts a frame decides once; every decision is on record or a frame's; a snooze ends | `Cards` |
| Approval gate (`services/capability.rs`, `services/policy.rs`, `web/src/lib/invoke.ts`) | rules, pending and resolved approvals | invoke, resolve, consume, rules and their switch | equal requests of two windows; rules that change meanwhile | an approval is used once and in time; rules only harden | `ApprovalGate` |
| QR pairing (`services/mobile_qr_pairing.rs`) | sessions in three maps, the secret | start, redeem, grant, resend, rotate, clean up | a token redeemed twice, a lost grant, expiry | one device per token; the three maps agree | `MobilePairing` |
| Event bus (`services/event_bus.rs`, `web/src/lib/eventBus.ts`) | sequence numbers, cursors of the viewers | send, receive, load | the number is taken outside the lock of the send; one cursor for events of all tags, handlers by tag | a window at rest shows each item as it is, unless its event was overtaken by one about another item | `EventBus` |
| Resource locks (`services/orchestration.rs`) | locks with TTL | acquire, renew, release, collect | a holder that outlives its TTL | one holder at a time | `ResourceLocks` |
| Sync (`services/multi_sync.rs`, `services/cloud_commands.rs`) | rows with clocks, the relay | `sync_now` | cycles of several machines at once | who applied all has what the relay has; last write wins | `MultiSync` |
| Audit retention (`services/audit_retention.rs`, `services/review_audit.rs`) | links, files, manifests | export, rotate | each step has its own lock; crashes | a manifest is evidence of its file | `Retention` |
| Review (`services/review.rs`, `web/src/components/DiffReview.tsx`) | hunks, revision, what windows show | open, decide, conflicts, apply | several windows on one group; HEAD and the working copy move while the command calls git | what is applied is what was confirmed | `Review` |
| Skills (`services/skill_import.rs`, `services/skill_registry.rs`, `services/skill_update.rs`) | registry rows, trees, link | import, update, roll back, collect | crashes between rename and row | an installed skill is on disk | `Skills` |
| Memory (`services/memory_daemon.rs`, `services/memory_autocapture.rs`, `services/procedural_gotchas.rs`, `services/multi_sync.rs`) | entries, text index, proposals, saved sessions, capture tasks | store, forget, sync of lessons; claim, store and end of a decision; save, drain and distil a session | a decision of three steps beside failures and crashes; several captures of one saved session; two tables that share row numbers | one entry per accepted proposal, none of a rejected one; a memory is proposed once an hour; entries and index agree | `MemoryHub` |
| Circuit breaker (`services/cost_router_v2.rs`) | four atomics: state, end of the cooldown, start of the probe, failures | `is_open`, `record_success`, `record_failure` | no lock; late reports, hung probes, threads with clocks read at different moments | what stops the traffic ends, and only by a probe | `Breaker` |
| Council and provider health (`services/council_multi.rs`, `services/resilience.rs`, `services/providers.rs`) | blocks and failure counts per voice, status per credential, runs | plan, check, call, collect, deadline, result | the deadline falls in the middle of the collecting; runs share the tables; voices share a credential | the result names what was put down; a circuit trips after failures in a row | `Council` |
| Uploader (`services/cloud_uploader.rs`) | ring of jobs, one wake-up, failures in a row | enqueue, take, try again, rest | a job between the empty ring and the wait; a full ring | no job is lost but the oldest, none stays | `Uploader` |
| Telegram's pairing, best-of-N scores, license | rows, codes | - | described below | - | - |
| Agents, accounts, git helpers, settings, desktop utilities, companion | rows written once, text, tables | single calls | none worth a model so far | - | - |

How they interact: the commands of the front end and of Telegram call into the
orchestration store, which the scheduler follows with its hook; a launch goes
from the claim in the store over `worktree::ensure` and the checkpoint to a
pane; a cancel goes from the registry (row, then the kill of the pane) over the
store to the kill switch, which works on the worktree the launch made; the
poller reads panes, moves tasks to review and fills the attention queue, which
the audio sink reads out; signals and the background queue take their work from
tables and write the audit log; a change of any of these tells the event bus,
from from which windows load anew what the event is about; a pane that ends, or is canceled,
hands its session to the capture, whose proposals wait in the inbox of the memory;
every command of a webview, and
each of the phone, passes the approval gate. A run of the council reads and writes
the health of the providers and hands its traces to the uploader.

## Modules

| Module | Models | Checked by | Proved in |
|---|---|---|---|
| `PipelineDag` | the DAG of one run, `MCPipelineDag` gives it graphs | `PipelineDag_serial`, `MCGuards_parts` (a racing thread), `_continue`, `_cancel_hook` | `PipelineDagProofs` |
| `AttemptKill` | `kill_attempt`, implementing `AtomicKill` | `AttemptKill_kill` | `AttemptKillProofs` |
| `PaneProcess` | one pane | `MCAccess_parts`, `MCProgress_parts` (spawners), `PaneProcess_wrong_kill` | `PaneProcessProofs` |
| `Work` | holds the instances of the next seven | | |
| `TaskLaunch` | one task from claim to cancel | `MCProgress_parts`, `TaskLaunch_claim` | `WorkProofs` |
| `BgQueue` | the background queue | `MCProgress_parts`, `BgQueue_double_lock` | `WorkProofs` |
| `Signals` | the signals router | `MCProgress_parts` | `WorkProofs` |
| `Windows` | two panes, Main and the detached windows | `MCProgress_parts` | `WorkProofs` |
| `Attention` | poller, screens, dismissals | `MCProgress_parts` | `WorkProofs` |
| `Breaker` | the circuit breaker of the free tier | `MCProgress_parts` | `WorkProofs` |
| `Uploader` | the upload of traces | `MCProgress_parts` | `WorkProofs` |
| `Guards` | holds the instances of the next five | | |
| `PtyLease` | the registry of one panel | `MCGuards_parts` | `GuardProofs` |
| `MobilePairing` | QR pairing | `MCGuards_parts` | `GuardProofs` |
| `ResourceLocks` | the advisory locks | `MCGuards_parts` | `GuardProofs` |
| `Review` | the review of a group | `MCGuards_parts` | `GuardProofs` |
| `MemoryHub` | entries and index, inbox, captures | `MCGuards_parts`, `MemoryHub_lock_step` | `MemoryHubProofs` |
| `Reports` | holds the instances of the next four | | |
| `Audio` | attention sounds and the speaker | `MCGuards_parts` | `ReportProofs` |
| `EventBus` | bus, windows, phone | `MCGuards_parts` | `ReportProofs` |
| `Retention` | exports and rotations | `MCGuards_parts` | `ReportProofs` |
| `MultiSync` | machines and their relay, `MCMultiSync` gives it calls | `MCGuards_parts`, `MultiSync_last_write` | `ReportProofs` |
| `Access` | holds the instances of the next four | | |
| `ApprovalGate` | gate, policy, the front end's retry | `MCAccess_parts` | `AccessProofs` |
| `Cards` | the inbox | `MCAccess_parts` (frames), `MCProgress_parts` (snooze) | `AccessProofs` |
| `Skills` | one skill on disk and in the tables | `MCAccess_parts` | `AccessProofs` |
| `Council` | runs of the council over the providers' health | `MCAccess_parts` | `AccessProofs` |

Definitions whose comment begins with "Mutant" or "Mutated" are broken variants
of the definition that follows. No specification uses them; each shows that a
property notices a plausible bug when it takes the place of the real one.

### PipelineDag

`state`, `blocked` and `run` are the columns `orchestration_tasks.state`,
`dag_blocked` and `pipeline_runs.status`. `call` says what each thread is in the
middle of: between `SetStateRead` and `SetStateWrite` it holds the target it
validated against a row that may have changed; at `hook` it has left `set_state`
and not yet reached `on_task_settled`. The breadth-first search of
`cascade_cancel_in_tx` is the least set of pending tasks closed under blocking
edges (`Skipped`), so that its result and not its queue is modelled; the proofs
show that each skipped task has a blocking dependency that is a root or skipped
itself, as the search has it. `pipeline_cancel` is `MarkRunCanceled`,
`ListRunTasks` and a sweep in topological order. `Crash` loses every call and
starts the boot task anew. `UnhookedEnd` are the commands that end a task without
the hook (`orchestration_cancel`, a failed worktree, `/cancel`), `HookedNext` are all
others: `Spec` has both, `HookedSpec` and `FairSpec` the latter.

The three properties of the hook (`NoDoomedTaskLeftPending`,
`NoReadyTaskLeftBlocked`, `NoFinishedRunLeftOpen`) together say that once nobody
is in the middle of anything a run has nothing left that a reconciliation would
do: the event-driven scheduler and the one that looks at everything agree. They do
so under three conditions, each of which the code can break: every command calls
the hook, commands do not race, and no task continues on the error of one that the
cascade may skip (`NoContinueOnSkipped`; see `PipelineDag_continue`).

### AttemptKill and AtomicKill

`AtomicKill` is the promise: one destructive git at a time, the kill on record
only over a clean worktree, nothing after that. `AttemptKill` is the code: the
row with its token, `stale` for a claim older than 300 s, the file lock, and one
program counter per killer. The mapping takes the killer whose git runs for the
cutter and `status = "killed"` for the record. A token is fresh for each claim
and only compared with the caller's own, so that the killer's name stands for it.
`Die` is the death of a process or an error return; both drop the file lock.

### PaneProcess

Each spawn is a generation, which is the run token in the registry and the
spawn id of the session. `call` follows `pty_spawn` through reap, register, spawn
and the check after it, and `cancel_reap_emit` through its two steps; `wait` is
the wait thread of each generation; `alive` holds the operating system processes,
which only a kill or their own exit ends. `ctx` is the capture context that
`dispatch_session_capture` takes by pane. After `Restart` only the row is left
and tokens start at 1 again, as `RUN_SEQ` does.

### TaskLaunch

Composes, one step each, what `PaneProcess` (spawn, kill) and `AttemptKill` (the
whole `kill_attempt`) model in detail, for a single task. `bestOfN` chooses the
command that launches: `orchestration_prepare_task` claims, ensures the
worktree, marks, checkpoints and returns to the front end, which mounts the pane;
`launch_best_of_n` checkpoints before it marks and spawns at once. `main` is the
main thread, so that launch and cancel commands exclude each other, and `tg`
is Telegram, which reads the pane before it cancels and kills it afterwards.

`Crash` ends the application once, with whatever launch or cancel is under way,
and starts it again: the row, the checkpoint and the worktree are what the disk
has, and the front end mounts the panes of the saved layout (`Shell.tsx:782`),
so that the pane of a launched task starts a process in its worktree again,
whatever became of the task. `NothingIsLost` and `CanceledLaunchIsCleaned` hold
through the crash: a cancel cut short between its row and its kill switch is
finished by the next one. A crash of `launch_best_of_n` between the worktree and
its checkpoint does leave an orphan, which `NoOrphanWorktree` excepts.

`Tmux` says whether tmux is installed. `wrap_with_tmux_if_available`
(`commands.rs:3726`) then starts each CLI in a session of a tmux server, so that it
outlives the application, and the process of the pane is a client of that server.
`PtyManager::kill` ends the client; no code ends the session (only
`boot_restore_full` ends the whole server). `Killed` is the difference. The runs
have `Tmux = FALSE`; what holds under tmux is among the differences listed below.

### BgQueue

`row` is the table; `batch` what a poll found and the semaphore has not yet let
through; `task` the spawned tasks. A job stays pending until its task has the
connection, so that a second poll may find it again: the tasks of one job may
overlap, which is why the UPDATE to running has its condition on the status. The
task keeps the mutex (`lock`) from its last UPDATE to the end of the audit event.

### Signals

`tables` is what survives, `tick` is the one tick that may be under way, and
`calls` counts the calls of sinks, which the tables may miss. Each
statement of `materialize_deliveries` commits on its own, so an `Interrupt` (the
death of the application, or a database error, whose `?` leaves the tick) may
come between any two. User filters are a free choice between pending and skipped.

### PtyLease

`lease` is the entry of one panel, `entry` the mutex in `locks`, and a caller's
`arc` the clone it holds: between the look-up and the lock it holds the Arc and
nothing else. A detach drops its Arc before it looks whether to prune, and looks
at the lease and at the count of owners under different mutexes.

### Windows

`layout` is what is on record, `reg` and `settling` the two sets of
`WindowRegistry`, `open` the webviews, `task` the async settles of the X. An X
only posts a task, so that the button or another X may come before it. `DbFails`
lets every save fail, `Restarts` ends the application between any two steps.

### Attention and Audio

`seen` is what a tick knows of a task from its list query to the row it writes;
the screen may change at any point in between. Stamps are compared only, so a
dismissal is "younger than the row" or not. `Audio` holds the reservation of an
event, the bounded queue, the pump with the generation it took, the task that is
about to speak and the watchers of the speaking processes.

### Cards and MobilePairing

A frame of the phone or of Telegram is delivered any number of times while it is
young enough for the network to hold it (`3 * Skew`), in any order; time is an
age. The nonce is remembered first and the card written afterwards, and the
database may refuse that. `Restart` ends the application at any point: the caches of
nonces are in memory (`services/mobile_bridge.rs:1075`,
`services/telegram_inbound.rs:56`), so that a frame whose time is still good is taken
again after it. `acted` therefore says whether a frame acted before the last start,
once since, or again, and `FrameActsOnce` excludes the last. `MobilePairing` has one connection per device and
the steps of its handler between mark, secret, grant and the note that it was
sent; a code of the QR is its token, and two tokens may have the same short code.

### ApprovalGate

A decision is its `restriction_level`. `window` follows one `invoke` of the front
end through gate, question, resolution and the retry, and the phone creates rows
the same way. A row is consumed by command and arguments, not by who asked.

### EventBus

A sender changes an item, takes a number, and sends to the windows and to the phone
in two steps, the bridge in the other order. Windows have channels that keep their
order, the phone a ring that drops the oldest. A viewer compares with its cursor,
which all tags share (`web/src/lib/eventBus.ts:67`), but what an event starts is the
load of its own item only, since handlers go by tag (`:128`): `due` has the loads
under way. A page that starts again sends its first loads without waiting until it
listens. `heard`, `unheard` and `overtaken` are for the properties: the last event of
each item that a page applied, and the items whose event went out while the page did
not listen, or was dropped for a newer one about another item.

### ResourceLocks, MultiSync, Retention, Review, Skills

`ResourceLocks` has what each task was told (`grant`) beside what the table says.
`MultiSync` knows a value by the edit that made it, so that the stamp it is sent
with and the moment it was written can differ. `Retention` follows an export or a
rotation through its five locks, and `Skills` the file operations and rows of one import, update, roll-back or
collection, which may end between any two.

`Review` has what every window last saw of a review, and `apply` follows
`review_apply` from the guards and `git status` (`Confirm`) over `rev-parse HEAD`
(`ReadHead`) and its comparison with the base to `git apply` (`Write`). The
commands of the main thread wait for it; the user's editor and git do not, so that
HEAD and the working copy may move between any two of these steps. `derived` is the
commit a hunk was computed against: the base, or `OwnHead` where
`collect_unified_diff` fell back to the worktree's own HEAD
(`services/orchestration.rs:905`), which the variants in `MayFall` may do. The
git processes of one `review_open` are one step.

### MemoryHub

`entry` and `fts` are `memory_entries` and `memory_fts`, each a function of its row
numbers; SQLite numbers a new row after the largest of its own table, and a recall
joins the two by number. `prop` is `memory_proposals` in the order of creation,
`decide` the decision under way on the main thread (claimed, to be stored, to be
given back, to be finalized), and `stored` counts, for the properties only, the
entries a proposal has led to. `open`, `saved` and `capture` follow a session from
its buffer over `incomplete_sessions` to the task that distils it; which candidates
an answer has, and in which order the saved sessions come, is a free choice.
`CloseAbruptly` is the cancel that takes the buffer before the kill, `SessionEnds`
the wait thread that takes it at the end of the process. `Fails` lets every write
fail whose error the code ignores or handles, and `Restart` ends the application
between any two holds of the mutex.

### Breaker

Each load, store and `compare_exchange` of `state`, `cooldown_until_ms`,
`probe_start_ms` and `failure_count` is a step of the thread that makes it. Time is
relative: `until` is what is left of the cooldown and may be over, `probe` the age
of the stamp, and a call carries the age of the `now_ms` it was given, which may be
`MaxDelay` by the time it is compared or stored. `winner` is for the properties
only: the thread that won the probe and has not reported on it. The caller is
modelled from what the functions are for, since nothing but tests calls `decide`
yet: a thread that was let through makes its request, and reports a success, a
failure or, when its task is dropped, nothing. Jitter and the cap of the cooldown
are inside the constant.

### Uploader

`ring` is the queue under its lock; `untold` counts the pushes whose `notify_one` is
still to come, and `permit` is the one wake-up a `Notify` keeps. `fate` is for the
properties and says what became of each job. `upload_with_retry` may succeed, be
tried again or fail at each attempt, and delays are steps that end when they please.

### Council

`used` and the `"circuit"` blocks are the circuit rows of `resilience_state`, the
`"api_429"` blocks their neighbours; a block ends when it pleases, so that no
duration is modelled. `PlanOf` is what presets, overrides, templates and discovery
leave of the credentials, of which a run plans any part; the plan drops the red ones
unless a voice is pinned. An answer is good, a rate limit, another failure or a
panic. `JoinRecord` and `JoinStatus` are the two holds of the mutex in
`update_status_after_voice`, between which other runs write but the deadline cannot
fall, since nothing there awaits. `listed` is the shared buffer and the result made
from it; `traced` what the run has handed to the uploader; `streak` is for the
properties. An empty plan asks the internal voices only and leaves nothing behind;
it is left out, and so is the error of a read in `check_allowed`, which lets the
voice through. A council of the command line is another process, whose statements
under one hold may fall between those of another.

### Work, Guards, Reports, Access and their runs

Components that share nothing are put together in four modules that declare the
constants and variables of each and make its INSTANCE, so that proofs and runs
speak of the same definitions: the `.cfg` gives the constants values, the proofs
leave them open. `MCProgress`, `MCGuards` and `MCAccess` explore these instances in
one run each. `part` says which one a behaviour is about, and all others stay as
they began: the state space is the sum of the parts and not their product, and each
part is explored in full.

* `MCProgress` has the components with liveness properties: `Work`, and beside it
  `Cards` and the spawners of one pane (`PaneProcess` without cancels). Its fairness is that of each component,
  restricted to the behaviours of that part.
* `MCGuards` has `Guards`, `Reports` and the scheduler of a pipeline with a thread
  that races with the commands, for safety.
* `MCAccess` has `Access` and one pane with every thread, for safety.

## Runs

| Run | Question | Bounds | States |
|---|---|---|---|
| `PipelineDag_serial` | Do order, life cycle and verdict hold, and does every hook and every boot leave nothing to do? | a diamond with one continuing edge, commands of the main thread that call the hook, crashes | 8 245 |
| `PipelineDag_continue` | Do hook and reconciliation agree where a task continues on the error of one that is skipped? (no) | A <- B blocking, B <- C continuing | - |
| `PipelineDag_cancel_hook` | Does a cancel reach the dependents? (no) | A <- B <- C, blocking | - |
| `AttemptKill_kill` | Is the kill transactional, and does it complete? | three killers, all possibly slow | 2 914 |
| `PaneProcess_wrong_kill` | Does it when Telegram cancels? (no) | two generations | - |
| `TaskLaunch_claim` | Is a canceled task without an agent? (no) | one task in a worktree that existed before | - |
| `BgQueue_double_lock` | Does a task lock the connection twice? (yes) | two jobs, without restarts | - |
| `MCProgress_parts` | Do nine components keep their books and reach what they promise? | see below | 103 190 |
| `MCGuards_parts` | Do ten registries, stores and reports keep what they promise, and the gate of the DAG under a race? | see below | 1 457 310 |
| `MCAccess_parts` | Do a pane under every thread, the approval gate, the inbox, the skills and the council keep what they promise? | see below | 1 495 868 |
| `MultiSync_last_write` | Does the last write win? (no) | two machines, one item | - |
| `MemoryHub_lock_step` | Do entries and index stay in lock-step? (no) | a lesson from another machine and a memory | - |

The parts of `MCProgress_parts`:

| Part | Properties | Bounds |
|---|---|---|
| Signals | `DispatchedIsComplete`, `CallsAreCounted`, `EventIsSettled` | two events, two channels, two attempts, one interrupt |
| TaskLaunch | `NothingIsLost` (agents and worktrees can be found), `CanceledLaunchIsCleaned` | one task, both commands, Telegram, one crash |
| BgQueue | `QueueIsAccounted`, `PendingIsTaken` | two jobs, two tasks, two permits, one restart |
| Windows | `WindowsAreKept` (`WindowsAgree`, `DeadWindowCloses`) | two panes, two detached windows, two settles, failing saves, restarts |
| Attention | `PromptsAreHandled` (`OneEnterPerPrompt`, `PromptClaimsAttention`) | one pane, three ticks of debounce |
| Cards | `SnoozeEnds` | one card, one frame |
| PaneProcess | `RunningRowHasSession`, `RunEndsOnRecord` | three generations, two threads that spawn, no cancel, no restart |
| Breaker | `BreakerIsKept` (`OpensWithCooldown`, `ClosesByProbe`, `HalfOpenIsProbed`, `TriesAgain`) | two threads, two failures to open, a cooldown of three ticks, calls that take up to one |
| Uploader | `TracesAreSettled` (`NewestSurvive`, `WaiterIsTold`, `JobsLeave`) | four jobs, a ring of two, two attempts, a rest after two failures |

The parts of `MCGuards_parts`:

| Part | Properties | Bounds |
|---|---|---|
| PtyLease | `OneInside`, `LeaseIsItsMounts` | three threads, two mounts, two leases |
| Audio | `SoundIsAccounted` | a prompt and a result, a queue of one, two voices |
| EventBus | `QuietViewersAreCurrent` | two threads that change two items, one of them the bridge's, one window and the phone, a ring of two, three events, one page or phone that begins again |
| ResourceLocks | `GrantIsExclusive` | two tasks, two keys, two TTLs, three seconds |
| Retention | `ManifestIsEvidence` | two commands, three rows, two files, three days |
| MultiSync | `FreshMatchesRelay` | two machines, three calls, two seconds |
| MobilePairing | `PairingIsKept` | three tokens, two of them with one short code, two devices, one rotation, a clock in which the three graces end with the tick they began in |
| Review | `AppliedIsReviewed` | two windows, two variants, one whose diff may fall back, overlapping hunks, three decisions, one commit |
| MemoryHub | `ProposalsAreKept` | two sessions, one text, two proposals, an hour and one tick past it, failing writes, crashes |
| PipelineDag | `LaunchGate`, `LiveWorkUntouched` | A <- B blocking, B <- C continuing, the main thread and one that races with it, every command, crashes |

The parts of `MCAccess_parts`:

| Part | Properties | Bounds |
|---|---|---|
| PaneProcess | `NoLeakedProcess`, `FinishedMeansDead`, `CanceledStaysDead` | four generations, two spawning and two canceling threads, restarts |
| ApprovalGate | `GateIsKept` | two windows and the phone, two commands, two rules, two approvals |
| Cards | `DecisionsAreKept` | three frames, a cache of two nonces, restarts |
| Skills | `InstalledIsWhole` | three sources, two with the same scripts, one signed |
| Council | `CouncilIsKept` (`ResultIsTheRecord`, `ParentFollows`, `CountIsStreak`, `TripsAfterStreak`, `QuickSparesStatus`) | two runs, one of preset quick, two voices of one credential, one of them pinned, two failures to trip |

Why the bounds are enough. Three or four tasks give a dependency of a dependency,
two dependencies of one task, and both kinds of edge. Three killers give one that
stalls, one that takes over and one that comes when the second has finished. Four
generations let a wait thread of the first look at its pane after it has been
taken twice and once more after a restart began to number anew. Two jobs with two
tasks let two tasks run the same job while the other waits for a permit. Two
attempts tell the last failure from the one before, and two events let one
interrupt fall between them. Three threads on a panel are one inside, one with a
clone and one that prunes. Two events with two senders are an order and its
reverse, of one item or of two; a third meets the loads they started. Three frames fill a cache of two nonces. A queue of one is full with one
alert; two voices let a watcher of the first come late. Two rules can contradict
each other, two windows can make the same request. Two sessions let the capture of
one take up what the other left, two proposals repeat each other inside or outside
the hour; captures never look at the text itself, so that one text is enough. Two threads at a
breaker are one with the probe and one that is late; a cooldown longer than two
calls take is one that no slow call outlives, as milliseconds and seconds are. Two
runs with a voice in common are one that plans while the other puts down. Each of these bounds is the
smallest at which the mutants of the component are found, and one step more where
that was affordable. What is proved does not depend on bounds.

Choices that a reader should know of:

* The queue of `MCProgress_parts` gives the audit writer a connection of its own
  (`OneConnection = FALSE`). As `lib.rs` builds it the queue stops with its first
  job, which `BgQueue_double_lock` shows, and there would be nothing left to check.
* The launch of `MCProgress_parts` has `Reused = FALSE`; with a worktree that
  existed before, the race of `TaskLaunch_claim` also dirties a worktree whose kill
  is on record.
* `PipelineDag_serial` runs `FairSpec` without `UnhookedEnd`, since the commands without a
  hook break what it checks; the part of `MCGuards_parts` runs them all, and the
  theorems about the gate, the life cycle, the order and the verdict hold of `Spec`.
* `Review` is checked for groups whose base is a commit (`Bases = {"commit"}`);
  with a branch `AppliedOnItsBase` is false, see below. `AppliedAsReviewed` says the
  same in its hypothesis; what does not depend on the base is proved for both.
* `EventBus.QuietViewersAreCurrent` excepts the items of `unheard` and `overtaken`;
  without the second exception it is `NoChangeIsMissed`, which the code does not
  keep (see below). Both exceptions end with the next load of the item.
* `Review.AppliedOnItsBase` speaks of the HEAD that was compared: if the user moves
  HEAD between the comparison and `git apply`, or the diff of a variant fell back,
  it promises nothing, and the code promises nothing either.
* The decisions on `Cards` that come by frame are made once between two starts;
  there is no bound on the starts.
* `Cards` assumes that fewer frames than `NONCE_CACHE_SIZE` arrive within the time
  a signature is good for, as a phone that a human holds.
* Runs with `CHECK_DEADLOCK FALSE` are of systems that come to an end: a kill is
  on record, a task has ended, the bound on the generations, the clock or the
  files is used up.

## Fairness

* `PipelineDag`: a command that has begun goes on, and the boot task runs. Nobody
  has to issue a command, and crashes may come for ever; `BootRepairs`
  assumes that some boots complete.
* `AttemptKill`: a call goes on, the claim of a dead killer ages, the user tries
  again (`SF` of the claim), and git does not fail for ever. `KillCompletes`
  assumes that from some time on nobody dies or stalls past the timeout.
* `PaneProcess`: commands return, and wait threads poll every 150 ms in a loop.
* `TaskLaunch`: commands return, git does not fail for ever, and the user asks
  again; that is what "when the user keeps asking" in its liveness property means.
* `BgQueue`: the timer of the worker fires, ready tasks are polled and the handlers
  of the jobs have timeouts. Nobody has to enqueue or cancel.
* `Windows`: async tasks run and the event loop takes what is posted to it. Nobody
  has to close a window, and saves may fail for ever.
* `Attention`: the poller ticks, and within a tick it goes on from task to task.
  Neither human nor agent has to do anything.
* `Breaker`: requests for the free tier keep coming and have time limits, calls
  return and time goes on. Without requests nothing would ask for a probe.
* `Uploader`: who has pushed tells the task, timers fire, requests have time limits.
  Nobody has to send a trace.
* `Cards`: the dashboard lists its cards from time to time, and time passes.
* `Signals`: the worker ticks every five seconds, sinks have timeouts and time
  passes. Interrupts are bounded.

## What is proved

The theorems hold for every value of the constants that satisfies the named
`ASSUME`s. These say what kind of values the constants are: edges follow the
topological order, "no one" is nobody, bounds are natural numbers, rules are
numbered from 1. Two say more: the ring of the event bus holds one event of each
thread that sends (`RingCap >= Cardinality(Threads)`), which its 512 do; and a call of
the breaker, from its reading of the clock to its last store, takes less than half a
cooldown (`2 * MaxDelay < Cooldown`), since nothing waits inside it. What a
theorem assumes beyond that is in its statement: `Remote = {}`, `~Tmux`,
`~Restarts`, `Bases = {"commit"}`. Each of these is a condition under which the code
keeps its word, and without which the runs or the remarks below show that it does not.

* **PipelineDagProofs**, for every DAG and every set of threads. `StepEffect`
  says what a step, whichever it is, can do to flags, tasks and calls; the other
  results follow from that. `LaunchGate` is not inductive: a thread between the
  halves of `set_state` might write any target. `GateInv` adds that such a thread
  has read its task past pending, or repeats the gate in its UPDATE. `SerialLifecycle`
  and `SerialOrder` assume `Remote = {}`, the commands of one thread beside the
  reconciliation and across crashes; they need `WriteStillLegal` (what was
  validated is still legal, unless the reconciliation has canceled the pending
  task) and `UnblockedReady`. Without the assumption they are false: `set_state`
  of another thread writes over a final state. `LiveWorkSafe` needs no such assumption:
  live work ends only by a command that was aimed at the task. `SerialRecord` adds where the sweep of a cancel
  stands (`SweepInv`). `SerialSettles` says that hook and reconciliation agree, from
  `DebtIsOwed`: a pending task with a failed dependency, a blocked one that is ready, or a
  finished run that is open is what the hook about to run, or the boot, will find. The
  step of the hook is a fact about the search: what it skips is closed, and what it
  leaves has nothing dropped before it. Its proof did not go through at first,
  for a task that continues on the error of one that is skipped; that is a flaw of
  the code (`PipelineDag_continue`), and the theorem excludes it by `NoContinueOnSkipped`.
* **AttemptKillProofs**, for any number of killers. `IInv` adds to the checked
  invariants that whoever is past the file lock holds it and that a cleaned
  worktree stays clean until its killer has said so. The revalidation after the
  lock is what makes it inductive: a stalled killer that gets the lock late finds
  the row in other hands. `Implements` is the refinement of `AtomicKill`.
* **PaneProcessProofs**, for any number of threads and generations. `IInv` says
  that whoever is inside `pty_spawn` holds the lock of the pane, so that the row it
  registered carries its token until it has spawned; that a wait thread about to
  finish a row has seen the process exit; and that the session under a canceled
  row is always somebody's to kill. `RunningRow` is about threads that spawn and
  cancel one after the other and no restart; it adds that nothing runs in the gap
  between two rows and who is about to finish a running one.
* **WorkProofs.** Router: `RouterInv` adds that what the tick has read as due stays
  due until it is taken, and that the cursor over the channels runs ahead of the
  mark `dispatched_at`. Launch: `LaunchInv` adds that nothing belongs to a task
  before its claim, that a pane is on record before a process can start in it, that a
  best-of-N launch past its checkpoint has one, and, without tmux, that no agent
  works while the main thread is inside a launch or a cancel. `LaunchIsOnRecord`
  is what remains under tmux. Queue: `QueueInv` counts free permits and
  live tasks, and knows of each running row the task that will settle it. Windows:
  that a mark has one owner needs the converse, that a settle past its first step has
  marked its window and that an idle task has no label (`SettleIsMarked`). Poller: whoever has had
  an Enter still shows what it was sent to, so that its row, and any tick that has listed
  it, knows of the prompt (`EnteredIsKnown`). Breaker: a thread that is about to open
  finds at least `Cooldown - MaxDelay` less the age of its call (`CooldownLasts`), however old the
  stamp another thread has stored over its own; the winner of a probe does not count its
  failure like any other. Uploader: the ring is the queued jobs in the order they
  came, the oldest given up first (`RingHolds`), and the task that is about to rest
  is told of what came since it looked (`LoopIsTold`).

* **GuardProofs.** Locks: a grant that still holds is the row of the table, to the
  second. Pairing: every device that was told, or is about to be, is the one its token
  is claimed by; the maps lose a token together. Review: a window that is up to date shows
  what is approved, and none is ahead; an apply that is under way still is what is
  approved, since no command of the review runs beside it. `AppliedIsWhatWasConfirmed`
  follows for any base; `AppliedAsReviewed` is for a commit, and says of the place
  only what the comparison with HEAD can know. Leases: the mutex of a panel is made and
  thrown away, so that exclusion is not that of one mutex: `LeaseInv` adds that
  every clone a thread has is of the mutex in the map, because the prune takes only what
  nobody owns, and that a call keeps its clone from the look-up to the unlock.

* **AccessProofs.** Gate: each run is a row that was used for it, and what was used
  was approved in time. The loop of the policy is a recursive function over the
  rules; `EvaluateIsStrictest` says that it ends with the strictest of the default and
  what is stated, by the least rule at which that would first be wrong (`LeastNatural`:
  a least counterexample needs no induction over an operator). Inbox: the cache of
  nonces is in the order of arrival, a nonce behind another is older by no more than
  twice the skew, and so the frames in front of one that is still good are recent,
  for which there is room; a restart empties it and begins the account of each frame
  anew. Skills: what each job is about to
  do, it may do: the directory it leads to is there, what it publishes has the
  hash it was gated with. Council: `Agree` counts the voices of one run at every step
  (who is asked is in `attempted`, who is in is listed once, none is out when the run
  decides), for any voices and plans; runs meet only in the tables of health, where the
  count of a model is its streak (`CountIsStreak`), so that the failure that makes the
  streak opens the circuit; and no step of a quick run writes a status that is not
  healthy.

* **ReportProofs.** Sounds: what is reserved is queued, held by a pump, handed
  to the speaker or was silenced. Bus: for each item a window that does not show it as it is loads it, has
  missed its event while it did not listen, has dropped it for a newer one about
  another item, or is still to be told by a thread or by an event on its way that is
  newer than all it has heard of the item; the newest event is in the ring, and what can come behind it are numbers of other threads, one of
  each, which is why the ring needs their number. Retention: a
  rotation counted no more rows than are out of the window, the oldest of them are
  all out (by the age or by the count), and the window only moves on. Sync: stamps are totally
  ordered by second and machine, an edit that is sent with an old stamp cannot win, and who
  applied all has the stamps of the relay.

* **MemoryHubProofs**, for any sessions, texts, windows and bounds.
  `ProposalsAreKept` is not inductive: the entry is made before the proposal says
  so. The invariant adds that the proposal a decision is about is claimed and has
  its entry exactly when the decision is about to finalize (`ClaimIsHeld`), that no
  entry has been made of a proposal that does not exist yet (`NoneForeseen`), and
  that no proposal is younger than the clock (`NotLaterThanNow`), from which the
  hour of a repeated proposal follows.

Not every theorem has a run of its own: the theorems of types, `UnblockReady`,
`SerialLifecycle`, `OneGit`, `Fenced`, `NoRedelivery`, `LaunchIsOnRecord` and
`AppliedIsWhatWasConfirmed` were checked while the invariants were found and are left to
the proofs, which say more.

Only model-checked:

* every liveness property, since the prover treats neither fairness nor ENABLED:
  `BootRepairs`, `KillCompletes`, `RunEndsOnRecord`, `CanceledLaunchIsCleaned`,
  `PendingIsTaken`, `EventIsSettled`, `SnoozeEnds`, and the liveness in
  `WindowsAreKept`, `PromptsAreHandled`, `BreakerIsKept` and `TracesAreSettled`. The
  safety in these four is `WindowsStayInStep`, `OneEnterIsSent`, `BreakerIsSafe` and
  `NewestAreKept`. Every invariant of a run is the statement of a theorem.

Inductions over data and RECURSIVE operators are out of the prover's reach. The models
have neither where they are proved about: the search of the cascade is a least set,
and a loop is a recursive function.

## Where the code and its words differ

Shown by a run:

1. `PipelineDag_cancel_hook`: `orchestration_cancel` sets a task to canceled
   without the hook. Its dependents stay pending until the next boot.
2. `PaneProcess_wrong_kill`: the cancel of Telegram marks the row, the pane is
   spawned again, and the kill by pane hits the new run. Its row stays running.
3. `TaskLaunch_claim`: a cancel between the return of `orchestration_prepare_task`
   and the mount of the pane leaves an agent that works for a canceled task.
4. `BgQueue_double_lock`: the task that ends holds the database mutex while
   `AuditWriter::write` locks the same one.
5. `MultiSync_last_write`: an item that is edited after its first completed cycle
   is sent with the stamp of that cycle (`services/multi_sync.rs:125`) and loses
   to an older write.
6. `PipelineDag_continue`: a task canceled by the cascade satisfies an edge that
   continues on error, but the hook only unblocks the dependents of the task that
   failed (`services/pipeline_scheduler.rs:105`): with A <- B blocking and B <- C
   continuing, C waits for the next boot.
7. `MemoryHub_lock_step`: a lesson that comes by the sync is written without a row
   in the text index (`services/multi_sync.rs:412`), although the two tables are to
   be "strictly in lock-step" (`services/memory_daemon.rs:584`). From then on the
   rows of the index name other entries, and a search answers with the wrong memory.
   An ignored error of the index in `store_memory` (`services/memory_daemon.rs:1491`)
   has the same effect, and so has a crash inside `memory_forget` if the entry it
   deleted had the largest row number.

Seen while modelling, and reproduced by hand on the models, without a run of
their own:

* `set_state` of a second thread overwrites a final state
  (`services/orchestration.rs:426`): `LifecycleRespected` fails with a racing thread
  (`Remote` not empty).
* A crash leaves the row of a dead process running; nothing reconciles the
  registry at start-up (`commands.rs:5243`).
* The wait thread of a finished run captures and purges by pane
  (`pty.rs:381`); after a respawn it takes the buffer of the new run.
* `orchestration_prepare_task` marks before it checkpoints (`commands.rs:5094`):
  a cancel of Telegram during `git worktree add` leaves a worktree no kill finds.
  `launch_best_of_n` has the other order, and `NoOrphanWorktree` holds for it.
* A launch of best-of-N whose spawn fails leaves its worktree: the cancel command
  refuses a failed task before it reaches the kill switch (`commands.rs:5424`).
* Where tmux is installed the kill of a pane does not end its agent (`pty.rs:441`
  kills the tmux client, `commands.rs:3726` put the agent in a session).
  `orchestration_cancel` then discards or restores the worktree of an agent that
  goes on working, although its comment (`commands.rs:5425`) puts the worktree's
  abort "tras matar el PTY" and `remote_control.rs:5` says of /cancel "mata su
  proceso": with `Tmux = TRUE` both `NoAgentOfCanceledTask` and
  `AgentHasWorktree` of `TaskLaunch` fail without any race. `AgentIsOnRecord` and
  `NoOrphanWorktree` hold there too.
* A restart mounts the pane of a canceled task like any other, and `pty_spawn`
  does not look at the task: where the worktree was there before the launch, its
  agent is at work again (`TaskLaunch` with `Crashes = TRUE`). The saved layout has
  no profile (`LayoutPane`, `commands.rs:1784`), so that a task launched with one
  comes back as a shell; nor has it the contents that `web/src/types.ts:108` calls
  "persisted in layout".
* The retry of a failed task is always refused, because the claim takes pending
  tasks only (`services/orchestration.rs:449`, `web/src/components/QueuePanel.tsx:137`).
* `bg_cancel` answers ok for a job that is run all the same
  (`services/bg_queue.rs:79`), and a restart leaves jobs running in the table.
* With the default of `mobile.notify.signal` the bridge drops every signal that
  the table calls sent (`services/signals.rs:321`); and sinks are called one after
  the other although the header says in parallel (`services/signals.rs:11`).

Properties that the modules state and the code does not keep. They have no run,
and each can be checked by naming it in a `.cfg` of its module:

* `Attention.DismissalLasts`: a dismissal lasts "until there is new activity", but
  the poller stamps the row at each tick that sees the prompt, and takes its own
  stamp for activity (`services/attention.rs:538`, `services/done_detection.rs:700`).
* `Attention.DestructiveNeverConfirmed`: the Enter goes to what the pane shows when
  it is written, not to what was classified (`services/done_detection.rs:571`).
* `Audio.SilencedStaysSilent`: "callar" does not reach the task that has taken an
  alert and has not started to speak (`services/audio_attention.rs:180`).
* `Windows.PaneCanBeReached`: while a window is settling its next X is let through
  (`lib.rs:610`, `:642`), and if the save of the settle then fails the panes stay
  on record in a window that is gone, which the comment at `lib.rs:630` excludes.
  A restart has the same effect, since detached windows are not opened again.
* `Skills.CrashIsTakenOver`: a crash between the rename and `finalize_install`
  leaves a directory that refuses every later import
  (`services/skill_registry.rs:216`), although the pending row says take over.
* `EventBus.NoChangeIsMissed`: `web/src/lib/eventBus.ts:61` says of the events it drops
  "esto NO pierde eventos semánticos" and `:64` "nunca un evento distinto". The number
  is taken before the event is sent (`services/event_bus.rs:168`), and the cursor is
  shared by all tags: a LayoutChanged of the thread that settles a window, overtaken
  by a TaskChanged of the main thread (`commands.rs:829`, `:5211`), is dropped, and since
  `web/src/components/WorkspaceView.tsx:80` loads the layout on LayoutChanged only, the
  window keeps the old one until the next. The instance: two threads with an item
  each, two events.
* `Breaker.ProbeHasItsTime`: between the exchange that wins the probe and the store
  of its stamp another thread sees the stamp of the last probe, takes the new one for
  hung and opens the breaker again (`services/cost_router_v2.rs:516`, `:521`), although
  `:507` excludes a race with an old value. Opened like that the breaker has its
  cooldown, so that nothing but the probe is lost.
* `Council.TripsAfterAnyStreak` with a `ServedAs` that differs from the model asked
  for: the success is put down under the name the server gives
  (`services/council_multi.rs:670`, `:781`), the failures under the one of the plan;
  they add up however many successes lie between them, although the circuit is to
  trip after consecutive ones (`services/resilience.rs:113`).
* `Review.AppliedOnItsBase` with `Bases = {"branch"}`: the branch moves after the
  diff was computed, and HEAD with it (`commands.rs:6097` wants "HEAD == base").

And remarks:

* A signed frame that acted acts again if the application was started anew within
  its skew (60 s for the phone, 300 s for Telegram): the nonces are in memory
  (`services/mobile_bridge.rs:1075`, `services/telegram_inbound.rs:56`), although the
  capacity is called "replay protection within the freshness window" (`:45`). An old
  approval can then come back over a later decision.
* `review_apply` looks at the working copy, at HEAD and at the base with three calls of
  git and writes with a fourth (`commands.rs:6157`, `:6165`, `:6166`, `:6187`): the user may
  change the files, commit or check out in between, and the precondition of
  `commands.rs:6097`, a clean working copy at the base, is one of the moments it was
  looked at. `git apply` still writes all of the patch or nothing.
* `review_open` says that there is no fallback to HEAD (`commands.rs:5930`, `:5947`); it
  checks that the base resolves, but `collect_unified_diff` falls back to `git diff
  HEAD` and to `git diff` whenever the diff against the base is empty or fails
  (`services/orchestration.rs:898`), as for a variant that was reset to the base while it
  was looked at, or a git that failed once. The hunks of such a variant are computed
  against another commit than the one the apply compares with HEAD.
* Two writes of one item within a second have the same stamp
  (`services/mcp_overrides.rs:80`); with a cycle between them the machines can keep
  different values for ever, since neither wins over the other.
* A spawn that fails after the child was started, when the handles of the PTY cannot
  be had (`pty.rs:280`), leaves the child running without a session; and an error of
  `try_wait` (`pty.rs:391`) ends the session and the row without looking whether the
  process lives.
* `kill_lock_path` (`services/attempt_checkpoint.rs:318`) names the lock by the canonical
  path of the worktree, or by the path as it was given once the worktree is gone:
  where a symlink is in the path, two killers may lock different files.
* The UPDATE that ends a background job ignores its error (`services/bg_queue.rs:127`,
  `:143`), which leaves the row running, and so does `set_needs_input`
  (`services/done_detection.rs:569`).
* A snooze from the phone or from Telegram sets the decision without
  `snooze_until` (`services/mobile_bridge.rs:1942`,
  `services/telegram_inbound.rs:193`), so that nothing ends it.
* `RequireNApprovals(n)` is satisfied by one approval (`services/capability.rs:599`);
  an approval is found by command and arguments, so that another window may use it,
  and the row the phone asked for never lets the phone run the command itself.
* A rotation of the secret between `load_secret` and the send grants the old one.
* `mark_detaching` has no caller; an attach that still has its clone keeps the
  mutex of a panel in the map for ever, since only a detach prunes.
* A result is suppressed if its pane was dismissed before it finished, and
  `safe_to_auto_confirm` accepts a phrase anywhere in the tail.
* A task that ends on its own keeps its resource locks until they expire
  (the comment at `services/orchestration.rs:1306` says they are released), and a lock without TTL for ever.
* A crash between claim and end of a decision, or a failure of `revert_claim` or
  `finalize_claim`, leaves a proposal in accepting for ever: nothing takes it back at
  start-up and the inbox lists proposed ones only, although the comment at
  `services/memory_autocapture.rs:420` says it does not get stuck there.
* A saved session is deleted even if the AIE did not answer
  (`services/memory_autocapture.rs:711`), and several captures distil the same saved
  session, since none claims it; with automatic acceptance that makes entries twice.
* A prompt-only update of a skill keeps the old `SKILL.md`
  (`services/skill_update.rs:486`); a version directory that was changed is
  deleted even if it is the current one (`services/skill_update.rs:515`);
  `recover_pending`, update, roll-back and fast path have no caller yet.
* In `sync_now` an edit made during a machine's first exchange is overwritten by
  the answer; nothing writes tombstones; stamps have a resolution of one second.
* A rotation counts before the transaction of its export, whose rows may be others
  than those counted, although the comment says exactly
  (`services/audit_retention.rs:596`); the manifest counts what its file has.
* `git diff base` of a review omits untracked files; `init_group` takes a snapshot of
  variants that still work; `choose_variant` accepts a discarded one.
* In `services/resilience.rs` a late success clears the circuit and the block of a
  429 that came meanwhile, and a 429 shortens a quota block of 24 hours.
* The uploader drops its oldest item, its header says the newest
  (`services/cloud_uploader.rs:7`); the branch for 202 in
  `services/cloud_client.rs:315` cannot be reached, since 202 is a success; a voice's
  trace has no id, so that one whose answer is lost is stored a second time by the retry.
* The breaker is closed, or opened, in half-open by the report of any request, not
  only of "the authorized probe" (`services/cost_router_v2.rs:547`).

## What is not modelled

In the modelled components: texts of logs and events, the argv of git and the
capture of the base commit, progress and scrollback of panes, resize, pause and
Windows paths, the handlers of the kinds of jobs, subscriptions and payloads of
signals, the patterns that classify a screen, ciphers and signatures, geometry of
windows, the table of commands behind the gate (`services/command_registry.rs`,
which is data), revocation lists, the ranking, embeddings and distillation of the
memory, its failure signals and the index of the code base. A git that outlives its killer is taken to end
with it. `PaneProcess` stops at the child of the PTY, which under tmux is a client:
the sessions of the tmux server, their restoring at boot and the watchdog that
keeps the server are not modelled. The approval gate in front of a launch is not composed with `TaskLaunch`.

In the router and the council: scores, thresholds and exploration, latencies, savings
and reliability boards (numbers that nothing decides on concurrently), presets,
templates and discovery of models, synthesis, disagreement and meta decisions.

Single steps of the modelled components that may fail, or take a way, that the
models leave out:

* `AttemptKill` has one file lock for a worktree, whatever the path it is called by
  (`services/attempt_checkpoint.rs:318`).
* `PaneProcess`: a spawn whose child runs and whose PTY handles cannot be had
  (`pty.rs:280`), and an error of `try_wait` (`pty.rs:391`). With either
  `NoLeakedProcess` would not hold.
* `TaskLaunch`: registering the checkpoint is best-effort (`services/best_of_n.rs:240`,
  `commands.rs:5103`). In the model it succeeds; a launch whose checkpoint could not be
  written has a worktree that no kill finds. The model's other writes and calls of
  git may fail.
* `BgQueue`, `Attention`: the ignored errors of the UPDATE that ends a job and of
  `set_needs_input`; in the models these writes succeed.
* `Windows`: `layout_config_save` writes without `window_tx_lock`
  (`services/layout_config.rs:515`, `lib.rs:722`); nothing in the front end calls it.
* `MultiSync`: an item is written at most once in a second, see the remark above.
* `Retention`: `audit_export` has a scope for what is out of the window
  (`commands.rs:6592`, `services/audit_retention.rs:190`); exports of the model are of
  everything, and rotations of what is out of it.
* `ApprovalGate`: unknown commands, guardrails and bad JSON in `create_pending`
  (`services/capability.rs:261`), rules that cannot be loaded (`:555`) and rules without a
  matcher (`services/policy.rs:270`), each of which is refused or falls back to the
  default. The switch and the rules are read under two locks (`:544`, `:555`) and in one
  step here.
* `Skills`: an update that the gate rejects leaves an empty `plugins/<name>/versions`
  (`services/skill_update.rs:352`).
* `Cards`: the desktop's decisions all have an idempotency key, and the caches of the
  bridge and of Telegram are one. A snooze that is asked for has the default length.
* `EventBus`: one tag stands for one item, and a view for one query.

Components without a module:
agents, accounts and the injection of MCP servers (tables to command lines),
key-value settings and migrations, the desktop utilities, and the rendering of the
front end and of the companion. Most of the lines of the repository are of these
kinds: parsing, formatting, tables, HTTP and tests inside the source files.

Hazards of the modelled code that no property covers are in `PROJECT.json`, each
with the reason.

## Plan

1. A git that outlives its killer, beside the next one (`AttemptKill`).
2. The purge by pane of the wait thread and the sessions of the tmux server
   (`PaneProcess`).
3. The failure signals of the procedural capture (`MemoryHub`).
4. Telegram's pairing codes and allow-list; groups of best-of-N.
