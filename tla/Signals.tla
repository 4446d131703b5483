------------------------------ MODULE Signals ------------------------------
(***************************************************************************)
(* The notification router (services/signals.rs).  Producers insert events *)
(* in a table; a worker turns each new event into one delivery per channel,*)
(* and calls the sink of every delivery that is due, with retries and      *)
(* backoff.  Only the tables survive an interrupt: the death of the app,   *)
(* or a database error, whose `?` gives up the tick.                       *)
(***************************************************************************)
EXTENDS Naturals, FiniteSets

CONSTANTS
    Events,         \* the events that producers may emit
    Channels,       \* channels with a sink
    MaxAttempts,    \* MAX_ATTEMPTS (5 in the code)
    MaxInterrupts,  \* bound on the interrupts
    None            \* no event, no delivery

Deliveries == Events \X Channels

SignalsAssumption ==
    /\ Channels \subseteq {"desktop", "mobile", "telegram", "webhook"}
    /\ MaxAttempts \in Nat \ {0} /\ MaxInterrupts \in Nat
    /\ None \notin Events \cup Deliveries

VARIABLES
    event,      \* each row of signal_events: absent, new, or dispatched
    status,     \* status of each row of signal_deliveries, or "none"
    attempts,   \* its column attempts
    waiting,    \* next_retry_at is in the future
    pc,         \* where the tick is
    todo,       \* snapshot of the events to dispatch
    current,    \* the event whose deliveries are being inserted
    missing,    \* the channels of current not inserted yet
    due,        \* snapshot of the deliveries to attempt
    usable,     \* the channels whose sink of this tick is configured
    flight,     \* the delivery whose sink is being called
    calls,      \* outside: calls of the sink of each delivery
    interrupts

tables  == <<event, status, attempts, waiting>>
tick    == <<pc, todo, current, missing, due, usable, flight>>
vars    == <<tables, tick, calls, interrupts>>

\* Sinks with a remote end: they may lack their configuration, and may fail.
Remote == Channels \cap {"telegram", "webhook"}

Exhausted(d) == status[d] = "failed" /\ attempts[d] >= MaxAttempts
Settled(d)   == status[d] \in {"sent", "skipped"} \/ Exhausted(d)

Init ==
    /\ event    = [e \in Events |-> "absent"]
    /\ status   = [d \in Deliveries |-> "none"]
    /\ attempts = [d \in Deliveries |-> 0]
    /\ waiting  = [d \in Deliveries |-> FALSE]
    /\ pc = "idle" /\ todo = {} /\ current = None /\ missing = {}
    /\ due = {} /\ usable = {} /\ flight = None
    /\ calls = [d \in Deliveries |-> 0]
    /\ interrupts = 0

----------------------------------------------------------------------------
(* Producers: emit_signal under the lock, which the router keeps while it   *)
(* inserts the deliveries of one event.                                    *)
Emit(e) ==
    /\ current = None
    /\ event[e] = "absent"
    /\ event' = [event EXCEPT ![e] = "new"]
    /\ UNCHANGED <<status, attempts, waiting, tick, calls, interrupts>>

----------------------------------------------------------------------------
(* materialize_deliveries.                                                 *)

\* The sinks are built anew, and the new events are read.
StartTick ==
    /\ pc = "idle"
    /\ \E configured \in SUBSET Remote : usable' = configured \cup (Channels \ Remote)
    /\ todo' = {e \in Events : event[e] = "new"}
    /\ pc'   = "dispatch"
    /\ UNCHANGED <<tables, current, missing, due, flight, calls, interrupts>>

TakeEvent(e) ==
    /\ pc = "dispatch" /\ current = None
    /\ e \in todo
    /\ current' = e
    /\ missing' = Channels
    /\ todo'    = todo \ {e}
    /\ UNCHANGED <<tables, pc, due, usable, flight, calls, interrupts>>

\* INSERT OR IGNORE, as pending or, if the user's filter says so, as skipped.
\* Each statement commits on its own.
InsertDelivery(c) ==
    /\ c \in missing
    /\ LET d == <<current, c>>
       IN  IF status[d] = "none"
           THEN \E s \in {"pending", "skipped"} : status' = [status EXCEPT ![d] = s]
           ELSE UNCHANGED status
    /\ missing' = missing \ {c}
    /\ UNCHANGED <<event, attempts, waiting, pc, todo, current, due, usable, flight,
                   calls, interrupts>>

\* Mutated: dispatched_at is set before the deliveries are inserted.
MarkDispatchedFirst ==
    /\ current # None /\ missing \in {Channels, {}}
    /\ event'   = [event EXCEPT ![current] = "dispatched"]
    /\ current' = IF missing = {} THEN None ELSE current
    /\ UNCHANGED <<status, attempts, waiting, pc, todo, missing, due, usable, flight,
                   calls, interrupts>>

MarkDispatched ==
    /\ current # None /\ missing = {}
    /\ event'   = [event EXCEPT ![current] = "dispatched"]
    /\ current' = None
    /\ UNCHANGED <<status, attempts, waiting, pc, todo, missing, due, usable, flight,
                   calls, interrupts>>

----------------------------------------------------------------------------
(* process_pending.                                                        *)

\* Mutated: only the pending ones are read.
ReadDuePending ==
    /\ pc = "dispatch" /\ todo = {} /\ current = None
    /\ due' = {d \in Deliveries : status[d] = "pending" /\ ~waiting[d]}
    /\ pc'  = "deliver"
    /\ UNCHANGED <<tables, todo, current, missing, usable, flight, calls, interrupts>>

\* The query has no ORDER BY; attempts are read with it, and nobody else
\* writes them before they are used.
ReadDue ==
    /\ pc = "dispatch" /\ todo = {} /\ current = None
    /\ due' = {d \in Deliveries : /\ status[d] \in {"pending", "failed"}
                                  /\ attempts[d] < MaxAttempts
                                  /\ ~waiting[d]}
    /\ pc'  = "deliver"
    /\ UNCHANGED <<tables, todo, current, missing, usable, flight, calls, interrupts>>

\* The sink is not configured: skipped, without an attempt.
SkipDelivery(d) ==
    /\ pc = "deliver" /\ flight = None
    /\ d \in due
    /\ d[2] \notin usable
    /\ status' = [status EXCEPT ![d] = "skipped"]
    /\ due'    = due \ {d}
    /\ UNCHANGED <<event, attempts, waiting, pc, todo, current, missing, usable, flight,
                   calls, interrupts>>

\* The sink is called; what it answers comes later.
CallSink(d) ==
    /\ pc = "deliver" /\ flight = None
    /\ d \in due
    /\ d[2] \in usable
    /\ flight' = d
    /\ due'    = due \ {d}
    /\ calls'  = [calls EXCEPT ![d] = @ + 1]
    /\ UNCHANGED <<tables, pc, todo, current, missing, usable, interrupts>>

\* Mutated: the row of a sent delivery is not written.
SinkAcceptsUnrecorded ==
    /\ flight # None
    /\ flight' = None
    /\ UNCHANGED <<tables, pc, todo, current, missing, due, usable, calls, interrupts>>

SinkAccepts ==
    /\ flight # None
    /\ status'   = [status EXCEPT ![flight] = "sent"]
    /\ attempts' = [attempts EXCEPT ![flight] = @ + 1]
    /\ waiting'  = [waiting EXCEPT ![flight] = FALSE]
    /\ flight'   = None
    /\ UNCHANGED <<event, pc, todo, current, missing, due, usable, calls, interrupts>>

\* An error or the sink's timeout: backoff, until the attempts are used up.
SinkFails ==
    /\ flight # None
    /\ flight[2] \in Remote
    /\ status'   = [status EXCEPT ![flight] = "failed"]
    /\ attempts' = [attempts EXCEPT ![flight] = @ + 1]
    /\ waiting'  = [waiting EXCEPT ![flight] = attempts[flight] + 1 < MaxAttempts]
    /\ flight'   = None
    /\ UNCHANGED <<event, pc, todo, current, missing, due, usable, calls, interrupts>>

EndTick ==
    /\ pc = "deliver" /\ due = {} /\ flight = None
    /\ pc' = "idle"
    /\ UNCHANGED <<tables, todo, current, missing, due, usable, flight, calls, interrupts>>

----------------------------------------------------------------------------
BackoffEnds(d) ==
    /\ waiting[d]
    /\ waiting' = [waiting EXCEPT ![d] = FALSE]
    /\ UNCHANGED <<event, status, attempts, tick, calls, interrupts>>

Interrupt ==
    /\ pc # "idle"
    /\ interrupts < MaxInterrupts
    /\ interrupts' = interrupts + 1
    /\ pc' = "idle" /\ todo' = {} /\ current' = None /\ missing' = {}
    /\ due' = {} /\ usable' = {} /\ flight' = None
    /\ UNCHANGED <<tables, calls>>

Dispatch ==
    \/ StartTick
    \/ \E e \in Events : TakeEvent(e)
    \/ \E c \in Channels : InsertDelivery(c)
    \/ MarkDispatched
Deliver ==
    \/ ReadDue
    \/ \E d \in Deliveries : SkipDelivery(d) \/ CallSink(d)
    \/ SinkAccepts \/ SinkFails
    \/ EndTick

Next ==
    \/ \E e \in Events : Emit(e)
    \/ Dispatch \/ Deliver
    \/ \E d \in Deliveries : BackoffEnds(d)
    \/ Interrupt

Spec == Init /\ [][Next]_vars

\* The worker ticks every five seconds, sinks have timeouts, and time passes.
Fairness == WF_vars(Dispatch \/ Deliver) /\ \A d \in Deliveries : WF_vars(BackoffEnds(d))
FairSpec == Spec /\ Fairness

----------------------------------------------------------------------------
\* Every variable keeps its type; only a failed delivery waits for a retry.
TypeOK ==
    /\ event \in [Events -> {"absent", "new", "dispatched"}]
    /\ status \in [Deliveries -> {"none", "pending", "sent", "skipped", "failed"}]
    /\ attempts \in [Deliveries -> 0 .. MaxAttempts]
    /\ waiting \in [Deliveries -> BOOLEAN]
    /\ \A d \in Deliveries : waiting[d] => status[d] = "failed" /\ ~Exhausted(d)
    /\ pc \in {"idle", "dispatch", "deliver"}
    /\ todo \subseteq Events
    /\ current \in Events \cup {None}
    /\ missing \subseteq Channels
    /\ due \subseteq Deliveries
    /\ usable \subseteq Channels
    /\ flight \in Deliveries \cup {None}
    /\ calls \in [Deliveries -> Nat]
    /\ interrupts \in 0 .. MaxInterrupts

\* The mark dispatched_at is written last: an event that has it owns a delivery
\* in every channel, wherever a tick was interrupted, so that none is lost.
DispatchedIsComplete ==
    \A e \in Events : event[e] = "dispatched" =>
        \A c \in Channels : status[<<e, c>>] # "none"

\* A sink is called once per counted attempt, plus the calls whose result an
\* interrupt lost: the retries of one notification are bounded, and a result
\* on record never comes from a call that was not made.
CallsAreCounted ==
    \A d \in Deliveries :
        LET open == IF flight = d THEN 1 ELSE 0
        IN  /\ attempts[d] + open <= calls[d]
            /\ calls[d] <= attempts[d] + open + interrupts

\* A delivery that was sent, skipped or given up is left alone: no replay of
\* its event and no due list read before brings it back.
SettledStays ==
    [][\A d \in Deliveries : Settled(d) => Settled(d)' /\ calls'[d] = calls[d]]_vars

\* Every emitted event ends with all its deliveries settled, although sinks
\* fail, ticks are interrupted and other events keep the router busy.
EventIsSettled ==
    \A e \in Events : event[e] = "new" ~> \A c \in Channels : Settled(<<e, c>>)
============================================================================
