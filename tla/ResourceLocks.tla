---------------------------- MODULE ResourceLocks ----------------------------
(***************************************************************************)
(* The advisory lock registry of services/orchestration.rs: tasks share a  *)
(* port, a database or the repository's index.  A lock may have a time to  *)
(* live; locks past it are collected by whoever asks for any lock next.    *)
(* A discarded variant and a task whose worktree is cleaned up (workspace  *)
(* .rs) lose their locks; a task that ends on its own keeps them.          *)
(***************************************************************************)
EXTENDS Naturals

CONSTANTS Tasks,  \* variants of one group
          Keys,   \* resources: "port:5432", a repository
          TTLs,   \* times to live a caller may ask for
          MaxTime \* bound: seconds that pass

Forever == MaxTime + 100 \* expires_at IS NULL
Nobody  == "nobody"

LocksAssumption == MaxTime \in Nat \ {0} /\ TTLs \subseteq Nat /\ Nobody \notin Tasks

VARIABLES lock,     \* orch_resource_locks: key -> owner and expires_at
          now,      \* datetime('now')
          grant,    \* what each task was told: key -> it is mine until
          task,     \* orchestration_tasks.state, and whether it has a worktree
          dropping  \* tasks discarded or cleaned up, their locks not yet released

vars == <<lock, now, grant, task, dropping>>

Free == [owner |-> Nobody, expires |-> 0]
NoGrant == 0

TypeOK ==
  /\ lock \in [Keys -> [owner : Tasks \cup {Nobody}, expires : Nat]]
  /\ now \in 1 .. MaxTime /\ grant \in [Tasks -> [Keys -> Nat]]
  /\ task \in [Tasks -> [state : {"open", "ended", "canceled"}, worktree : BOOLEAN]]
  /\ dropping \subseteq Tasks

Init ==
  /\ lock = [k \in Keys |-> Free] /\ now = 1
  /\ grant = [t \in Tasks |-> [k \in Keys |-> NoGrant]]
  /\ task = [t \in Tasks |-> [state |-> "open", worktree |-> TRUE]] /\ dropping = {}

Until(ttl) == IF ttl = Forever THEN Forever ELSE now + ttl

\* Every call of try_acquire_lock collects what has expired, of all keys.
Expired(row) == row.owner # Nobody /\ row.expires # Forever /\ row.expires < now

Collected == [k \in Keys |-> IF Expired(lock[k]) THEN Free ELSE lock[k]]

\* The caller inserts the row, or renews the one it owns.
Mine(t, k) == Collected[k].owner \in {Nobody, t}

\* Slip: a second call of the holder answers "yours" and leaves expires_at alone.
AcquireUnrenewed(t, k, ttl) ==
  /\ lock' = [Collected EXCEPT ![k] = IF @.owner = Nobody
                                      THEN [owner |-> t, expires |-> Until(ttl)] ELSE @]
  /\ grant' = [grant EXCEPT ![t][k] = IF Mine(t, k) THEN Until(ttl) ELSE NoGrant]
  /\ UNCHANGED <<now, task, dropping>>

Acquire(t, k, ttl) ==
  /\ IF Mine(t, k)
     THEN /\ lock' = [Collected EXCEPT ![k] = [owner |-> t, expires |-> Until(ttl)]]
          /\ grant' = [grant EXCEPT ![t][k] = Until(ttl)]
     ELSE /\ lock' = Collected
          /\ grant' = [grant EXCEPT ![t][k] = NoGrant]
  /\ UNCHANGED <<now, task, dropping>>

\* Slip: release_lock does not look at the owner.
DeletesAny(t, k) == TRUE

\* release_lock deletes the caller's row and no other.
Deletes(t, k) == lock[k].owner = t

Release(t, k) ==
  /\ grant[t][k] # NoGrant
  /\ lock' = [lock EXCEPT ![k] = IF Deletes(t, k) THEN Free ELSE @]
  /\ grant' = [grant EXCEPT ![t][k] = NoGrant]
  /\ UNCHANGED <<now, task, dropping>>

\* The task ends on its own: nothing releases its locks, nor does its agent
\* stop using what they stand for before it is told.
End(t) ==
  /\ task[t].state = "open" /\ task' = [task EXCEPT ![t].state = "ended"]
  /\ UNCHANGED <<lock, now, grant, dropping>>

\* discard_variant, then, after the audit, release_all_locks.
Discard(t) ==
  /\ task[t].state = "open" /\ task' = [task EXCEPT ![t].state = "canceled"]
  /\ dropping' = dropping \cup {t}
  /\ UNCHANGED <<lock, now, grant>>

\* cleanup_terminal_worktrees: git has removed the clean worktree of a task
\* that is over; the row forgets it, then the locks go.
Cleanup(t) ==
  /\ task[t].state # "open" /\ task[t].worktree
  /\ task' = [task EXCEPT ![t].worktree = FALSE]
  /\ dropping' = dropping \cup {t}
  /\ UNCHANGED <<lock, now, grant>>

ReleaseAll(t) ==
  /\ t \in dropping /\ dropping' = dropping \ {t}
  /\ lock' = [k \in Keys |-> IF lock[k].owner = t THEN Free ELSE lock[k]]
  /\ grant' = [grant EXCEPT ![t] = [k \in Keys |-> NoGrant]]
  /\ UNCHANGED <<now, task>>

Tick == now < MaxTime /\ now' = now + 1 /\ UNCHANGED <<lock, grant, task, dropping>>

Next ==
  \/ \E t \in Tasks, k \in Keys :
       (\E ttl \in TTLs \cup {Forever} : Acquire(t, k, ttl)) \/ Release(t, k)
  \/ \E t \in Tasks : End(t) \/ Discard(t) \/ Cleanup(t) \/ ReleaseAll(t)
  \/ Tick

Spec == Init /\ [][Next]_vars

----------------------------------------------------------------------------
(***************************************************************************)
(* The resource is one task's: two tasks that were told a key is theirs    *)
(* never both have it, up to the second the last answer promised, however  *)
(* often either asked again, let go late of what it had lost, or was       *)
(* discarded meanwhile (try_acquire_lock, release_lock, release_all_locks). *)
(***************************************************************************)
Has(t, k) == grant[t][k] >= now

GrantIsExclusive == \A k \in Keys, t, u \in Tasks : Has(t, k) /\ Has(u, k) => t = u

=============================================================================
