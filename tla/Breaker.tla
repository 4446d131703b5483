------------------------------- MODULE Breaker -------------------------------
(***************************************************************************)
(* The circuit breaker of the free tier (CircuitBreaker,                   *)
(* cost_router_v2.rs): four atomics and no lock.  A thread that wants the  *)
(* free tier asks is_open; if it may go on it makes its request, and       *)
(* reports success or failure, or is dropped and reports nothing.  Every   *)
(* load, store and compare_exchange is a step.                             *)
(*                                                                         *)
(* Time is relative: until is what is left of the cooldown, an age is what *)
(* has passed.  A call of the breaker works with the now_ms its caller     *)
(* read, which is age ticks old by now, and takes MaxDelay ticks at most.  *)
(* What is further in the past than any comparison can tell apart stays    *)
(* where it is.                                                            *)
(***************************************************************************)
EXTENDS Integers, FiniteSets

CONSTANTS Threads,      \* threads that route requests
          Threshold,    \* fail_threshold
          Cooldown,     \* cooldown_ms, in ticks
          ProbeTimeout, \* CB_PROBE_TIMEOUT_MS, in ticks
          MaxDelay,     \* bound on the ticks a call of the breaker takes
          NoThread      \* not a thread

BreakerAssumption ==
  /\ IsFiniteSet(Threads) /\ NoThread \notin Threads
  /\ {Threshold, Cooldown} \subseteq Nat \ {0}
  /\ {ProbeTimeout, MaxDelay} \subseteq Nat
  /\ 2 * MaxDelay < Cooldown  \* a call takes microseconds, the cooldown is seconds

VARIABLES state,  \* closed, half, open
          until,  \* cooldown_until_ms: ticks left, negative once over
          probe,  \* probe_start_ms: its age, NoProbe before the first
          fails,  \* failure_count, which counts no further than what it is compared with
          call,   \* what each thread is about to do, and the age of its now_ms
          winner  \* who won the last probe and has not reported on it

vars == <<state, until, probe, fails, call, winner>>

NoProbe == -1
Oldest == ProbeTimeout + MaxDelay + 1

\* In the middle of a call of the breaker; not idle, not waiting for an answer.
Steps == {"ask", "cooldown", "take", "stamp", "hung", "rearm", "reopen",
          "succeed", "close", "fail", "probeFailed", "halfOpen", "count", "trip", "openClosed"}

TypeOK ==
  /\ state \in {"closed", "half", "open"}
  /\ until \in -MaxDelay .. Cooldown
  /\ probe \in NoProbe .. Oldest
  /\ fails \in 0 .. Threshold
  /\ call \in [Threads -> [pc : {"idle", "request"} \cup Steps, age : 0 .. MaxDelay]]
  /\ winner \in Threads \cup {NoThread}

Init == /\ state = "closed" /\ until = -MaxDelay /\ probe = NoProbe /\ fails = 0
        /\ call = [t \in Threads |-> [pc |-> "idle", age |-> 0]]
        /\ winner = NoThread

At(t, pc) == call[t].pc = pc
Go(t, pc) == call' = [call EXCEPT ![t].pc = pc]
Leave(t, pc) == call' = [call EXCEPT ![t] = [pc |-> pc, age |-> 0]]

\* compare_exchange
Swap(from, to) == state' = IF state = from THEN to ELSE state

----------------------------------------------------------------------------
\* is_open, asked by decide when nothing but the breaker is left to ask

\* decide is given now_ms ...
Decide(t) ==
  /\ At(t, "idle")
  /\ Go(t, "ask")
  /\ UNCHANGED <<state, until, probe, fails, winner>>

\* ... and is_open looks at the state.
IsOpen(t) ==
  /\ At(t, "ask")
  /\ \/ state = "closed" /\ Leave(t, "request")
     \/ state = "open" /\ Go(t, "cooldown")
     \/ state = "half" /\ Go(t, "hung")
  /\ UNCHANGED <<state, until, probe, fails, winner>>

ReadCooldown(t) ==
  /\ At(t, "cooldown")
  /\ IF until > -call[t].age THEN Leave(t, "idle") ELSE Go(t, "take")
  /\ UNCHANGED <<state, until, probe, fails, winner>>

\* One thread wins the probe; the others go without.
TakeProbe(t) ==
  /\ At(t, "take")
  /\ Swap("open", "half")
  /\ IF state = "open" THEN Go(t, "stamp") /\ winner' = t
     ELSE Leave(t, "idle") /\ UNCHANGED winner
  /\ UNCHANGED <<until, probe, fails>>

StampProbe(t) ==
  /\ At(t, "stamp")
  /\ probe' = call[t].age
  /\ Leave(t, "request")
  /\ UNCHANGED <<state, until, fails, winner>>

\* Mutant: a probe that hangs is waited for.
ReadProbeWaits(t) ==
  /\ At(t, "hung")
  /\ Leave(t, "idle")
  /\ UNCHANGED <<state, until, probe, fails, winner>>

\* A probe that nobody reported on in time ends the half-open state.
ReadProbe(t) ==
  /\ At(t, "hung")
  /\ IF probe # NoProbe /\ probe - call[t].age > ProbeTimeout THEN Go(t, "rearm")
     ELSE Leave(t, "idle")
  /\ UNCHANGED <<state, until, probe, fails, winner>>

\* The cooldown is set before the state says open ...
Rearm(t) ==
  /\ At(t, "rearm")
  /\ until' = Cooldown - call[t].age
  /\ Go(t, "reopen")
  /\ UNCHANGED <<state, probe, fails, winner>>

Reopen(t) ==
  /\ At(t, "reopen")
  /\ Swap("half", "open")
  /\ Leave(t, "idle")
  /\ UNCHANGED <<until, probe, fails, winner>>

----------------------------------------------------------------------------
\* The request, and record_success and record_failure

\* The free tier answers, fails, or the task is dropped.
Answer(t) ==
  /\ At(t, "request")
  /\ \E pc \in {"succeed", "fail", "idle"} : Leave(t, pc)
  /\ UNCHANGED <<state, until, probe, fails, winner>>

Reported(t) == winner' = IF winner = t THEN NoThread ELSE winner

ResetFails(t) ==
  /\ At(t, "succeed")
  /\ fails' = 0
  /\ Go(t, "close")
  /\ UNCHANGED <<state, until, probe, winner>>

\* Mutant: any success closes the breaker.
CloseAny(t) ==
  /\ At(t, "close")
  /\ state' = "closed"
  /\ Leave(t, "idle") /\ Reported(t)
  /\ UNCHANGED <<until, probe, fails>>

Close(t) ==
  /\ At(t, "close")
  /\ Swap("half", "closed")
  /\ Leave(t, "idle") /\ Reported(t)
  /\ UNCHANGED <<until, probe, fails>>

\* Mutant: the failure of a probe is counted like any other.
ReadStateCounts(t) ==
  /\ At(t, "fail")
  /\ Go(t, "count")
  /\ UNCHANGED <<state, until, probe, fails, winner>>

ReadState(t) ==
  /\ At(t, "fail")
  /\ Go(t, IF state = "half" THEN "probeFailed" ELSE "count")
  /\ UNCHANGED <<state, until, probe, fails, winner>>

SetCooldown(t) ==
  /\ call[t].pc \in {"probeFailed", "trip"}
  /\ until' = Cooldown - call[t].age
  /\ Go(t, IF At(t, "probeFailed") THEN "halfOpen" ELSE "openClosed")
  /\ UNCHANGED <<state, probe, fails, winner>>

\* The probe failed; who comes too late counts instead.
OpenHalf(t) ==
  /\ At(t, "halfOpen")
  /\ Swap("half", "open")
  /\ IF state = "half" THEN Leave(t, "idle") /\ Reported(t)
     ELSE Go(t, "count") /\ UNCHANGED winner
  /\ UNCHANGED <<until, probe, fails>>

\* Mutant: open first, the cooldown after.
CountOpens(t) ==
  /\ At(t, "count")
  /\ fails' = IF fails < Threshold THEN fails + 1 ELSE fails
  /\ IF fails + 1 >= Threshold THEN Swap("closed", "open") /\ Go(t, "trip") /\ UNCHANGED winner
     ELSE UNCHANGED state /\ Leave(t, "idle") /\ Reported(t)
  /\ UNCHANGED <<until, probe>>

Count(t) ==
  /\ At(t, "count")
  /\ fails' = IF fails < Threshold THEN fails + 1 ELSE fails
  /\ IF fails + 1 >= Threshold THEN Go(t, "trip") /\ UNCHANGED winner
     ELSE Leave(t, "idle") /\ Reported(t)
  /\ UNCHANGED <<state, until, probe>>

OpenClosed(t) ==
  /\ At(t, "openClosed")
  /\ Swap("closed", "open")
  /\ Leave(t, "idle") /\ Reported(t)
  /\ UNCHANGED <<until, probe, fails>>

----------------------------------------------------------------------------
Tick ==
  /\ \A t \in Threads : call[t].pc \in Steps => call[t].age < MaxDelay
  /\ until' = IF until > -MaxDelay THEN until - 1 ELSE until
  /\ probe' = IF probe \in 0 .. Oldest - 1 THEN probe + 1 ELSE probe
  /\ call' = [t \in Threads |-> IF call[t].pc \in Steps THEN [call[t] EXCEPT !.age = @ + 1]
                                ELSE call[t]]
  /\ UNCHANGED <<state, fails, winner>>

Inside(t) ==
  \/ IsOpen(t) \/ ReadCooldown(t) \/ TakeProbe(t) \/ StampProbe(t) \/ ReadProbe(t) \/ Rearm(t) \/ Reopen(t)
  \/ ResetFails(t) \/ Close(t) \/ ReadState(t) \/ SetCooldown(t) \/ OpenHalf(t)
  \/ Count(t) \/ OpenClosed(t)

Next == Tick \/ \E t \in Threads : Decide(t) \/ Answer(t) \/ Inside(t)

\* Requests keep coming and have time limits, calls return, and time goes on.
Fairness == WF_vars(Tick) /\ \A t \in Threads : WF_vars(Decide(t) \/ Answer(t) \/ Inside(t))

Spec == Init /\ [][Next]_vars /\ Fairness
----------------------------------------------------------------------------
\* What the breaker promises

\* "nobody may see Open with an old cooldown": when it opens the cooldown is
\* running, whichever thread set it last and however they overlap.
OpensWithCooldown == [][state # "open" /\ state' = "open" => until > 0]_vars

\* A late success of an old request does not let the traffic through that the
\* failures of others have just stopped: an open breaker closes by a probe.
ClosesByProbe == [][state = "open" => state' # "closed"]_vars

\* Half-open stands for a probe that somebody still has to report on, or never
\* will: a report never leaves the breaker waiting for itself.
HalfOpenIsProbed == state = "half" => winner # NoThread

\* The breaker lets a request through again and again: it does not stay open
\* when its cooldown is over, nor half-open when its probe hangs.
TriesAgain ==
  /\ []<>(state # "open")
  /\ []<>(state # "half")

\* What stops the traffic ends, and nothing else ends it.
BreakerIsKept == OpensWithCooldown /\ ClosesByProbe /\ []HalfOpenIsProbed /\ TriesAgain

\* cost_router_v2.rs: there is "no race with an old value" of probe_start_ms.
\* But between the exchange that wins the probe and the store that stamps it the
\* value is that of the last probe, and another thread takes the new one for hung.
ProbeHasItsTime ==
  [][\A t \in Threads : At(t, "hung") /\ call'[t].pc = "rearm" =>
       ~\E u \in Threads : At(u, "stamp")]_vars
=============================================================================
