---------------------------- MODULE AttemptKill ----------------------------
(***************************************************************************)
(* kill_attempt of services/attempt_checkpoint.rs: the checkpoint row with *)
(* its fencing token, the advisory file lock around the destructive git,   *)
(* the stale re-claim after STALE_KILLING_SECS, and killers that die or    *)
(* stall anywhere.                                                         *)
(*                                                                         *)
(* A token is fresh for every claim and only ever compared with the        *)
(* caller's own: the row's token is modelled by the killer that wrote it.  *)
(* A killer that dies starts over at "idle", where it compares nothing.    *)
(***************************************************************************)
CONSTANTS Killers,   \* concurrent calls of kill_attempt for one attempt
          NoOne,
          Created,   \* created_worktree: discard the worktree, else restore it
          Slow       \* killers whose kill may outlive STALE_KILLING_SECS

ASSUME NoOneIsNoKiller == NoOne \notin Killers
ASSUME CreatedType == Created \in BOOLEAN

VARIABLES status,  \* attempt_checkpoints.status, "none" without a row
          token,   \* attempt_checkpoints.kill_token
          stale,   \* killing_at is older than STALE_KILLING_SECS
          flock,   \* holder of the file lock of the worktree
          tree,    \* the worktree: "dirty", "half" cleaned, "clean"
          pc

vars == <<status, token, stale, flock, tree, pc>>

\* Types; a claimed row always carries the token of its claim, and only a
\* claim can be an orphan.
TypeOK == /\ status \in {"none", "open", "killing", "killed"}
          /\ token \in Killers \cup {NoOne}
          /\ stale \in BOOLEAN
          /\ flock \in Killers \cup {NoOne}
          /\ tree \in {"dirty", "half", "clean"}
          /\ pc \in [Killers -> {"idle", "won", "held", "locked", "owner",
                                 "git", "gitOk", "failed", "leave"}]
          /\ status = "killing" => token \in Killers
          /\ stale => status = "killing"

Goto(k, from, to) == pc[k] = from /\ pc' = [pc EXCEPT ![k] = to]

Owns(k) == status = "killing" /\ token = k

----------------------------------------------------------------------------
Init == /\ status = "none" /\ token = NoOne /\ stale = FALSE
        /\ flock = NoOne /\ tree = "dirty"
        /\ pc = [k \in Killers |-> "idle"]

\* register: INSERT OR IGNORE, the first checkpoint stays.
Register ==
  /\ status = "none"
  /\ status' = "open"
  /\ UNCHANGED <<token, stale, flock, tree, pc>>

\* Time passes until a claim counts as an orphan.
GrowStale ==
  /\ status = "killing" /\ ~stale
  /\ token \in Slow \/ pc[token] = "idle"
  /\ stale' = TRUE
  /\ UNCHANGED <<status, token, flock, tree, pc>>

\* Mutant: a claim never becomes an orphan.
ClaimKillingOpenOnly(k) ==
  /\ Goto(k, "idle", "won")
  /\ status = "open"
  /\ status' = "killing" /\ token' = k /\ stale' = FALSE
  /\ UNCHANGED <<flock, tree>>

\* claim_killing: one conditional UPDATE; the losers report KillInFlight or
\* AlreadyKilled and change nothing.
ClaimKilling(k) ==
  /\ Goto(k, "idle", "won")
  /\ status = "open" \/ (status = "killing" /\ stale)
  /\ status' = "killing" /\ token' = k /\ stale' = FALSE
  /\ UNCHANGED <<flock, tree>>

\* try_acquire_kill_lock does not block.
TryLock(k) ==
  /\ IF flock = NoOne
     THEN Goto(k, "won", "locked") /\ flock' = k
     ELSE Goto(k, "won", "held") /\ UNCHANGED flock
  /\ UNCHANGED <<status, token, stale, tree>>

\* release_killing: back to open if the claim is still the caller's.
ReleaseRow(k) ==
  IF Owns(k)
  THEN status' = "open" /\ token' = NoOne /\ stale' = FALSE
  ELSE UNCHANGED <<status, token, stale>>

\* Another killer's git runs on the worktree: revert the claim.
BackOff(k) ==
  /\ Goto(k, "held", "idle")
  /\ ReleaseRow(k)
  /\ UNCHANGED <<flock, tree>>

\* Mutant: no revalidation between the lock and the git.
StillOwnerSkipped(k) ==
  /\ Goto(k, "locked", "owner")
  /\ UNCHANGED <<status, token, stale, flock, tree>>

\* still_owner: revalidate the claim once the file lock is held.
StillOwner(k) ==
  /\ Goto(k, "locked", IF Owns(k) THEN "owner" ELSE "leave")
  /\ UNCHANGED <<status, token, stale, flock, tree>>

\* discard_worktree or restore_worktree starts to change the worktree; a
\* worktree that is gone already is left alone.
GitBegin(k) ==
  /\ Goto(k, "owner", "git")
  /\ tree' = IF Created /\ tree = "clean" THEN tree ELSE "half"
  /\ UNCHANGED <<status, token, stale, flock>>

\* validate_owned_worktree refuses before anything is changed.
ValidateFails(k) ==
  /\ Goto(k, "owner", "failed")
  /\ UNCHANGED <<status, token, stale, flock, tree>>

GitOk(k) ==
  /\ Goto(k, "git", "gitOk")
  /\ tree' = "clean"
  /\ UNCHANGED <<status, token, stale, flock>>

\* Mutant: the exit status of git is not looked at.
GitFailsUnnoticed(k) ==
  /\ Goto(k, "git", "gitOk")
  /\ UNCHANGED <<status, token, stale, flock, tree>>

GitFails(k) ==
  /\ Goto(k, "git", "failed")
  /\ UNCHANGED <<status, token, stale, flock, tree>>

\* The git failed: the checkpoint can be tried again.
GiveUp(k) ==
  /\ Goto(k, "failed", "leave")
  /\ ReleaseRow(k)
  /\ UNCHANGED <<flock, tree>>

\* mark_killed, presenting the token; without it the kill reports an error.
MarkKilled(k) ==
  /\ Goto(k, "gitOk", "leave")
  /\ IF Owns(k)
     THEN status' = "killed" /\ stale' = FALSE
     ELSE UNCHANGED <<status, stale>>
  /\ UNCHANGED <<token, flock, tree>>

\* The guard of the file lock is dropped on return.
Leave(k) ==
  /\ Goto(k, "leave", "idle")
  /\ flock' = IF flock = k THEN NoOne ELSE flock
  /\ UNCHANGED <<status, token, stale, tree>>

\* The killer's process dies, or an error of the database or of the lock file
\* is returned half way; either way the file lock is released.
Die(k) ==
  /\ pc[k] # "idle"
  /\ pc' = [pc EXCEPT ![k] = "idle"]
  /\ flock' = IF flock = k THEN NoOne ELSE flock
  /\ UNCHANGED <<status, token, stale, tree>>

Step(k) == \/ TryLock(k) \/ BackOff(k) \/ StillOwner(k) \/ GitBegin(k) \/ ValidateFails(k)
           \/ GitOk(k) \/ GitFails(k) \/ GiveUp(k) \/ MarkKilled(k) \/ Leave(k)

Next == \/ Register \/ GrowStale
        \/ \E k \in Killers : ClaimKilling(k) \/ Step(k) \/ Die(k)

Spec == Init /\ [][Next]_vars

\* A call once started goes on, the claim of a dead killer ages, git does not
\* fail for ever, and the user or the next cancel tries again.
Fairness ==
  /\ WF_vars(GrowStale /\ pc[token] = "idle")
  /\ \A k \in Killers : /\ WF_vars(Step(k)) /\ SF_vars(ClaimKilling(k))
                        /\ SF_vars(GitBegin(k)) /\ SF_vars(GitOk(k)) /\ SF_vars(MarkKilled(k))

FairSpec == Spec /\ Fairness

----------------------------------------------------------------------------
\* Properties

\* Two killers never run a destructive git on the same worktree, also when one
\* of them took the claim of another that was only slow (audit r3).
OneGitAtATime == \A j, k \in Killers : pc[j] = "git" /\ pc[k] = "git" => j = k

\* A kill on record as killed left a clean worktree, and no git runs on it any
\* more: never DB = killed with a dirty worktree (audit-3 H3, audit r4).
KilledIsClean ==
  status = "killed" => tree = "clean" /\ \A k \in Killers : pc[k] \notin {"owner", "git"}

\* A killer that lost its claim never changes the row of the new owner: the row
\* leaves killing only by the hand of the one whose token it carries (audit r2).
FencedRow ==
  [][status = "killing" /\ status' # "killing" =>
       pc[token] \in {"held", "failed", "gitOk"} /\ pc'[token] # pc[token]]_vars

\* The whole protocol implements the transactional kill of AtomicKill.
Cutter == IF \E k \in Killers : pc[k] = "git"
          THEN CHOOSE k \in Killers : pc[k] = "git" ELSE NoOne

Atomic == INSTANCE AtomicKill WITH cutter <- Cutter, recorded <- (status = "killed")

ImplementsAtomicKill == Atomic!Spec

\* Once killers neither die nor outlive the timeout any more, a kill that was
\* started is completed: no checkpoint is a zombie.
KillersBehave ==
  <>[][/\ \A k \in Killers : ~Die(k)
       /\ GrowStale => pc[token] = "idle"]_vars

KillCompletes == KillersBehave => (status = "killing" ~> status = "killed")
=============================================================================
