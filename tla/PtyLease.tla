------------------------------ MODULE PtyLease ------------------------------
(***************************************************************************)
(* The registry that binds a pane to one mounted view of it (pty_lease.rs):*)
(* leases and locks are two maps with a mutex each, and locks holds, per   *)
(* panel, the mutex that makes attach and detach of that panel sequential. *)
(* The mutex of a panel is made on demand, lives as long as somebody has   *)
(* its Arc, and is pruned from the map by the last detach.                 *)
(*                                                                         *)
(* Panels meet nowhere, so this is the registry of one panel.  Only a      *)
(* critical section is one step: a thread may stop between any two of them.*)
(***************************************************************************)
EXTENDS Naturals, FiniteSets

CONSTANTS Threads,   \* threads that call the registry
          Mounts,    \* (window label, mount instance) pairs
          MaxVersion \* bound on the leases made

PtyLeaseAssumption == MaxVersion \in Nat \ {0} /\ IsFiniteSet(Threads)

None == [mount |-> "none", version |-> 0, detaching |-> FALSE]
NoMutex == 0
Mutexes == 1 .. Cardinality(Threads) + 1 \* the map and each thread hold one at most

VARIABLES lease,    \* leases[panel]
          version,  \* LEASE_SEQ, the last version given
          entry,    \* locks[panel]: the mutex in the map
          caller    \* each thread's call: what it does, for which mount, with which Arc

vars == <<lease, version, entry, caller>>

Idle == [pc |-> "idle", op |-> "none", mount |-> "none", arc |-> NoMutex]
Ops == {"attach", "detach", "mark"}

TypeOK ==
  /\ lease \in [mount : Mounts \cup {"none"}, version : 0 .. MaxVersion, detaching : BOOLEAN]
  /\ version \in 0 .. MaxVersion
  /\ entry \in Mutexes \cup {NoMutex}
  /\ caller \in [Threads -> [pc : {"idle", "wait", "in", "done", "check", "prune"},
                             op : Ops \cup {"none"}, mount : Mounts \cup {"none"},
                             arc : Mutexes \cup {NoMutex}]]

Init == lease = None /\ version = 0 /\ entry = NoMutex /\ caller = [t \in Threads |-> Idle]

\* Arc::strong_count, without the map's own.
Owners(m) == {t \in Threads : caller[t].arc = m}
Inside(t) == caller[t].pc \in {"in", "done"}
Locked(m) == \E t \in Owners(m) : Inside(t)
Fresh(m) == m # entry /\ Owners(m) = {}

Goto(t, pc) == caller' = [caller EXCEPT ![t].pc = pc]

\* panel_lock: a clone of the mutex in the map, made if there is none.
PanelLock(t, op, mount) ==
  /\ caller[t] = Idle
  /\ LET m == IF entry # NoMutex THEN entry ELSE CHOOSE f \in Mutexes : Fresh(f) IN
       /\ entry' = m
       /\ caller' = [caller EXCEPT ![t] = [pc |-> "wait", op |-> op, mount |-> mount, arc |-> m]]
  /\ UNCHANGED <<lease, version>>

Lock(t) ==
  /\ caller[t].pc = "wait" /\ ~Locked(caller[t].arc)
  /\ Goto(t, "in")
  /\ UNCHANGED <<lease, version, entry>>

\* attach_panel: a newer lease, whoever holds the present one.
Attach(t) ==
  /\ caller[t].pc = "in" /\ caller[t].op = "attach" /\ version < MaxVersion
  /\ version' = version + 1
  /\ lease' = [mount |-> caller[t].mount, version |-> version + 1, detaching |-> FALSE]
  /\ Goto(t, "done")
  /\ UNCHANGED entry

\* Mutant: whoever detaches frees the panel.
DetachAny(t) ==
  /\ caller[t].pc = "in" /\ caller[t].op = "detach"
  /\ lease' = None
  /\ Goto(t, "done")
  /\ UNCHANGED <<version, entry>>

\* detach_panel_view: only the mount that holds the lease gives it up.
Detach(t) ==
  /\ caller[t].pc = "in" /\ caller[t].op = "detach"
  /\ lease' = IF lease.mount = caller[t].mount THEN None ELSE lease
  /\ Goto(t, "done")
  /\ UNCHANGED <<version, entry>>

\* mark_detaching
MarkDetaching(t) ==
  /\ caller[t].pc = "in" /\ caller[t].op = "mark"
  /\ lease' = IF lease.mount = caller[t].mount THEN [lease EXCEPT !.detaching = TRUE] ELSE lease
  /\ Goto(t, "done")
  /\ UNCHANGED <<version, entry>>

\* The guard goes, then the Arc; only a detach goes on to prune.
Unlock(t) ==
  /\ caller[t].pc = "done"
  /\ Goto(t, "check")
  /\ UNCHANGED <<lease, version, entry>>

DropArc(t) ==
  /\ caller[t].pc = "check" /\ caller[t].arc # NoMutex
  /\ caller' = [caller EXCEPT ![t] = IF @.op = "detach" THEN [@ EXCEPT !.arc = NoMutex] ELSE Idle]
  /\ UNCHANGED <<lease, version, entry>>

\* maybe_prune_lock: the lease is looked up under one mutex, ...
CheckLease(t) ==
  /\ caller[t].pc = "check" /\ caller[t].arc = NoMutex
  /\ caller' = [caller EXCEPT ![t] = IF lease = None THEN [@ EXCEPT !.pc = "prune"] ELSE Idle]
  /\ UNCHANGED <<lease, version, entry>>

\* Mutant: what the first look-up saw is enough.
PruneUncounted(t) ==
  /\ caller[t].pc = "prune"
  /\ entry' = NoMutex
  /\ caller' = [caller EXCEPT ![t] = Idle]
  /\ UNCHANGED <<lease, version>>

\* ... and the mutex goes under the other, if nobody else has its Arc.
Prune(t) ==
  /\ caller[t].pc = "prune"
  /\ entry' = IF Owners(entry) = {} THEN NoMutex ELSE entry
  /\ caller' = [caller EXCEPT ![t] = Idle]
  /\ UNCHANGED <<lease, version>>

Next ==
  \E t \in Threads :
    \/ \E op \in Ops, mount \in Mounts : PanelLock(t, op, mount)
    \/ Lock(t) \/ Attach(t) \/ Detach(t) \/ MarkDetaching(t)
    \/ Unlock(t) \/ DropArc(t) \/ CheckLease(t) \/ Prune(t)

Spec == Init /\ [][Next]_vars
----------------------------------------------------------------------------
\* What the registry promises

\* Calls about one panel are sequential, although its mutex is thrown away and
\* made anew: nobody is inside with a mutex that has left the map while another
\* enters with the new one.
OneInside == \A t, u \in Threads : Inside(t) /\ Inside(u) => t = u

\* A view that lost the panel can neither take the lease from its successor
\* nor silence it: the lease changes hands by a newer attach, and ends or turns
\* silent by a call of the mount that holds it.
LeaseIsItsMounts ==
  [][lease' # lease =>
       \/ lease'.version > lease.version
       \/ \E t \in Threads : Inside(t) /\ caller[t].op # "attach"
                             /\ caller[t].mount = lease.mount]_vars
=============================================================================
