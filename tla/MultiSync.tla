------------------------------ MODULE MultiSync ------------------------------
(***************************************************************************)
(* The machines of one user synchronise preferences through a relay        *)
(* (services/multi_sync.rs, sync_now of cloud_commands.rs): the last write *)
(* wins, by the pair of its second and its machine.                        *)
(*                                                                         *)
(* The pair of an item lives in sync_meta, which only a completed cycle    *)
(* writes; an item without one is as old as its own row.  A value is known *)
(* by the edit that made it.  Nothing in the code writes a tombstone, so   *)
(* there is none: an item removed here is an item that is not sent.        *)
(***************************************************************************)
EXTENDS Naturals, FiniteSets

CONSTANTS Machines, \* installations, numbers so that they have an order
          Items,    \* overrides, monitors, lessons
          Calls,    \* sync_now calls that may be under way: <<machine, number>>
          MaxTime   \* bound: seconds that pass

SyncAssumption ==
  Machines \subseteq Nat \ {0} /\ Calls \subseteq Machines \X Nat /\ MaxTime \in Nat \ {0}

VARIABLES row,    \* machine -> item -> the edit it holds
          meta,   \* sync_meta: machine -> item -> the stamp it was applied with
          edited, \* items a machine has changed since they were applied
          cycle,  \* where each call of sync_now is, what it sent and got
          relay,  \* item -> what the relay keeps
          fresh,  \* machines that applied all that the relay keeps now
          now

vars == <<row, meta, edited, cycle, relay, fresh, now>>

\* A stamp: (updated_at, installation_id).
Stamps  == [at : 0 .. MaxTime, by : Machines \cup {0}]
None    == [at |-> 0, by |-> 0]
Content == [value : Stamps, stamp : Stamps]
Absent  == [value |-> None, stamp |-> None]
Idle    == [pc |-> "idle", sent |-> [i \in Items |-> Absent], got |-> [i \in Items |-> Absent]]

TypeOK ==
  /\ row \in [Machines -> [Items -> Stamps]] /\ meta \in [Machines -> [Items -> Stamps]]
  /\ edited \in [Machines -> SUBSET Items]
  /\ cycle \in [Calls -> [pc : {"idle", "sent", "answered"},
                         sent : [Items -> Content], got : [Items -> Content]]]
  /\ relay \in [Items -> Content] /\ fresh \subseteq Machines /\ now \in 1 .. MaxTime

Init ==
  /\ row = [m \in Machines |-> [i \in Items |-> None]] /\ meta = row
  /\ edited = [m \in Machines |-> {}]
  /\ cycle = [c \in Calls |-> Idle]
  /\ relay = [i \in Items |-> Absent] /\ fresh = {} /\ now = 1

Later(s, t) == s.at > t.at \/ (s.at = t.at /\ s.by > t.by)

\* Slip: the tie is not broken by the machine.
WinsUntied(a, b) == a.stamp.at > b.stamp.at

Wins(a, b) == Later(a.stamp, b.stamp)

\* Merge: the first of two equal items stays.
Best(a, b) == IF Wins(b, a) THEN b ELSE a

----------------------------------------------------------------------------
\* The user

\* mcp_overrides.set_enabled, monitors.add: the row only.  One write of an
\* item a second: the stamp has no finer clock.
Edit(m, i) ==
  LET write == [at |-> now, by |-> m] IN
  /\ row[m][i] # write
  /\ row' = [row EXCEPT ![m][i] = write] /\ edited' = [edited EXCEPT ![m] = @ \cup {i}]
  /\ UNCHANGED <<meta, cycle, relay, fresh, now>>

\* monitors.remove, and a lesson that is forgotten.
Drop(m, i) ==
  /\ row[m][i] # None /\ row[m][i].at < now
  /\ row' = [row EXCEPT ![m][i] = None] /\ edited' = [edited EXCEPT ![m] = @ \cup {i}]
  /\ UNCHANGED <<meta, cycle, relay, fresh, now>>

----------------------------------------------------------------------------
\* sync_now

\* build_local_payload: the stamp is sync_meta's, or else the row's own.
LocalItem(m, i) ==
  IF row[m][i] = None THEN Absent
  ELSE [value |-> row[m][i], stamp |-> IF meta[m][i] = None THEN row[m][i] ELSE meta[m][i]]

Build(c) ==
  /\ cycle[c].pc = "idle"
  /\ cycle' = [cycle EXCEPT ![c] = [Idle EXCEPT !.pc = "sent",
                                            !.sent = [i \in Items |-> LocalItem(c[1], i)]]]
  /\ UNCHANGED <<row, meta, edited, relay, fresh, now>>

\* sync_exchange: the relay merges by the same rule and answers with all it
\* keeps; the answer may be lost, or be no payload.
Exchange(c) ==
  LET kept == [i \in Items |-> Best(relay[i], cycle[c].sent[i])] IN
  /\ cycle[c].pc = "sent"
  /\ relay' = kept /\ fresh' = IF kept = relay THEN fresh ELSE {}
  /\ \/ cycle' = [cycle EXCEPT ![c].pc = "answered", ![c].got = kept]
     \/ cycle' = [cycle EXCEPT ![c] = Idle]
  /\ UNCHANGED <<row, meta, edited, now>>

\* No session, no relay: nothing is sent and nothing is applied.
Fail(c) ==
  /\ cycle[c].pc = "sent" /\ cycle' = [cycle EXCEPT ![c] = Idle]
  /\ UNCHANGED <<row, meta, edited, relay, fresh, now>>

\* Slip: what is applied is not compared with sync_meta again.
ApplicableBlindly(m, merged) == {i \in Items : merged[i] # Absent}

\* What beats sync_meta, which may have changed since the payload was built.
Applicable(m, merged) ==
  {i \in Items : merged[i] # Absent /\ Wins(merged[i], [value |-> None, stamp |-> meta[m][i]])}

\* merge_payloads and apply_merged, in one transaction.
Apply(c) ==
  LET m == c[1]
      merged == [i \in Items |-> Best(cycle[c].sent[i], cycle[c].got[i])]
      won    == Applicable(m, merged)
  IN
  /\ cycle[c].pc = "answered"
  /\ row'  = [row EXCEPT ![m] = [i \in Items |-> IF i \in won THEN merged[i].value ELSE @[i]]]
  /\ meta' = [meta EXCEPT ![m] = [i \in Items |-> IF i \in won THEN merged[i].stamp ELSE @[i]]]
  /\ edited' = [edited EXCEPT ![m] = @ \ won]
  /\ fresh' = IF cycle[c].got = relay THEN fresh \cup {m} ELSE fresh
  /\ cycle' = [cycle EXCEPT ![c] = Idle]
  /\ UNCHANGED <<relay, now>>

Tick == now < MaxTime /\ now' = now + 1
        /\ UNCHANGED <<row, meta, edited, cycle, relay, fresh>>

Next ==
  \/ \E m \in Machines, i \in Items : Edit(m, i) \/ Drop(m, i)
  \/ \E c \in Calls : Build(c) \/ Exchange(c) \/ Fail(c) \/ Apply(c)
  \/ Tick

Spec == Init /\ [][Next]_vars

----------------------------------------------------------------------------
(***************************************************************************)
(* A machine that has applied all the relay keeps holds what the relay     *)
(* holds, but for what its user has changed since, in whatever order       *)
(* cycles of two machines, and of one, were sent, answered and applied     *)
(* (wins, merge_payloads, apply_merged).                                   *)
(***************************************************************************)
FreshMatchesRelay ==
  \A m \in fresh, i \in Items :
    relay[i] # Absent /\ i \notin edited[m] => row[m][i] = relay[i].value

(***************************************************************************)
(* Last write wins (multi_sync.rs:10-12): the relay does not answer a      *)
(* machine with a write that is earlier than the one the machine sent.     *)
(* The code does not keep this: an item edited after its first cycle is    *)
(* sent with the stamp of that cycle, and loses.                           *)
(***************************************************************************)
LastWriteWins ==
  \A c \in Calls, i \in Items :
    cycle[c].pc = "answered" => ~Later(cycle[c].sent[i].value, cycle[c].got[i].value)

=============================================================================
