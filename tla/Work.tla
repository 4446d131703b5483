-------------------------------- MODULE Work --------------------------------
(***************************************************************************)
(* The components that promise progress, side by side: the launch of a     *)
(* task, the background queue, the router of notifications, the detached   *)
(* windows, the poller of the screens, the circuit breaker and the         *)
(* uploader.  They share nothing; a name that two of them use is renamed   *)
(* in the INSTANCE of the later.                                           *)
(*                                                                         *)
(* MCProgress checks them on small instances, and WorkProofs proves their  *)
(* safety for all: both speak of the definitions at the end of this        *)
(* module.                                                                 *)
(***************************************************************************)

CONSTANTS Reused, Telegram, Tmux, Crashes
VARIABLES state, pane, tree, ckpt, agent, bestOfN, made, main, front, tg, crashed
Launch == INSTANCE TaskLaunch WITH Remote <- Telegram
ASSUME LaunchAssumption == Launch!LaunchAssumption

CONSTANTS Polled, Tasks, Permits, Limit, OneConnection, MaxRestarts, None
VARIABLES row, order, batch, permits, task, mutex, restarts
Queue == INSTANCE BgQueue WITH Jobs <- Polled, lock <- mutex
ASSUME QueueAssumption == Queue!QueueAssumption

CONSTANTS Events, Channels, MaxAttempts, MaxInterrupts
VARIABLES event, delivery, attempts, waiting, pc, todo, current, missing, due, usable, flight,
          calls, interrupts
Router == INSTANCE Signals WITH status <- delivery
ASSUME RouterAssumption == Router!SignalsAssumption

CONSTANTS Panes, MaxDetached, Settles, DbFails, Relaunches
VARIABLES layout, reg, settling, open, closeReq, settle
Window == INSTANCE Windows WITH Tasks <- Settles, Restarts <- Relaunches, task <- settle
ASSUME WindowAssumption == Window!WindowsAssumption

CONSTANTS Watched, Debounce
VARIABLES screen, moved, taskRow, streak, seen, on, late, claim, hushed, entered
Screen == INSTANCE Attention WITH Panes <- Watched, row <- taskRow
ASSUME ScreenAssumption == Screen!AttentionAssumption

CONSTANTS Routing, FailLimit, CooldownTicks, ProbeTimeout, MaxDelay, NoThread
VARIABLES circuit, until, probe, fails, routing, winner
Free == INSTANCE Breaker WITH Threads <- Routing, Threshold <- FailLimit, Cooldown <- CooldownTicks,
          state <- circuit, call <- routing
ASSUME FreeAssumption == Free!BreakerAssumption

CONSTANTS MaxJobs, Cap, MaxUploads, RestAfter
VARIABLES ring, untold, permit, loop, inARow, fate
Upload == INSTANCE Uploader WITH MaxAttempts <- MaxUploads, Threshold <- RestAfter
ASSUME UploadAssumption == Upload!UploaderAssumption

launchVars == <<state, pane, tree, ckpt, agent, bestOfN, made, main, front, tg, crashed>>
queueVars  == <<row, order, batch, permits, task, mutex, restarts>>
routerVars == <<event, delivery, attempts, waiting, pc, todo, current, missing, due, usable,
                flight, calls, interrupts>>
windowVars == <<layout, reg, settling, open, closeReq, settle>>
screenVars == <<screen, moved, taskRow, streak, seen, on, late, claim, hushed, entered>>
routeVars  == <<circuit, until, probe, fails, routing, winner>>
traceVars  == <<ring, untold, permit, loop, inARow, fate>>

----------------------------------------------------------------------------
\* What each of them promises, under its own name.
NothingIsLost           == Launch!NothingIsLost
CanceledLaunchIsCleaned == Launch!CanceledLaunchIsCleaned
QueueIsAccounted        == Queue!QueueIsAccounted
PendingIsTaken          == Queue!PendingIsTaken
DispatchedIsComplete    == Router!DispatchedIsComplete
CallsAreCounted         == Router!CallsAreCounted
EventIsSettled          == Router!EventIsSettled
WindowsAreKept          == Window!WindowsAreKept
PromptsAreHandled       == Screen!PromptsAreHandled
BreakerIsKept           == Free!BreakerIsKept
TracesAreSettled        == Upload!TracesAreSettled
=============================================================================
