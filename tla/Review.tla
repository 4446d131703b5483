-------------------------------- MODULE Review --------------------------------
(***************************************************************************)
(* The review of a best-of-N group, hunk by hunk (services/review.rs, the  *)
(* review_* commands, DiffReview.tsx): windows open it, decide hunks of    *)
(* several variants and apply the approved ones to the repository.  The    *)
(* commands run one at a time on the main thread; what a window knows is   *)
(* what its last answers said.  An apply calls git again and again, and    *)
(* the user's own git and editor wait for none of it.                      *)
(***************************************************************************)
EXTENDS Naturals, FiniteSets

CONSTANTS Windows,
          Variants,
          Hunks,    \* pieces of the variants' diffs
          Of,       \* Hunks -> Variants
          Overlaps, \* sets of two hunks that touch the same lines of a file
          MayFall,  \* variants whose worktree may be as its base when it is diffed
          Bases,    \* what the group's base may be: "commit" or "branch"
          MaxRev,   \* bound: decisions
          MaxHead   \* bound: commits on the repository's branch

ReviewAssumption ==
  /\ Of \in [Hunks -> Variants] /\ Overlaps \subseteq SUBSET Hunks /\ MayFall \subseteq Variants
  /\ Bases \subseteq {"commit", "branch"} /\ MaxRev \in Nat /\ MaxHead \in Nat

VARIABLES base,     \* orchestration_batches: base_commit, or else base_branch
          ready,    \* variants that have a worktree
          hunk,     \* review_hunks.state, "none" before its variant is projected
          derived,  \* the commit against which each hunk was computed, or OwnHead
          revision, \* review_groups.revision
          shown,    \* the review each window shows
          conflict, \* whether each window's last review_conflicts found any
          head,     \* HEAD of the repository, a commit of its branch
          clean,    \* its working copy has no change
          apply,    \* the review_apply under way
          applied   \* the last apply: what it wrote, what was confirmed, and HEAD as it
                    \* was compared with the base and as it was when git wrote

vars == <<base, ready, hunk, derived, revision, shown, conflict, head, clean, apply, applied>>

States == {"none", "pending", "approved", "rejected"}
Nothing == [open |-> FALSE, revision |-> 0, hunk |-> [h \in Hunks |-> "none"]]
NoCall == [pc |-> "idle", by |-> "none", hunks |-> {}, confirmed |-> {}, head |-> 0]
NoApply == [wrote |-> {}, confirmed |-> {}, compared |-> 0, at |-> 0]

\* The HEAD of a variant's own worktree, a commit the repository's branch has not.
OwnHead == MaxHead + 1

TypeOK ==
  /\ base \in Bases /\ ready \subseteq Variants
  /\ hunk \in [Hunks -> States] /\ derived \in [Hunks -> 0 .. OwnHead]
  /\ revision \in 0 .. MaxRev
  /\ shown \in [Windows -> [open : BOOLEAN, revision : 0 .. MaxRev, hunk : [Hunks -> States]]]
  /\ conflict \in [Windows -> BOOLEAN] /\ head \in 0 .. MaxHead /\ clean \in BOOLEAN
  /\ apply \in [pc : {"idle", "head", "base", "write"}, by : Windows \cup {"none"},
                 hunks : SUBSET Hunks, confirmed : SUBSET Hunks, head : 0 .. MaxHead]
  /\ applied \in [wrote : SUBSET Hunks, confirmed : SUBSET Hunks,
                   compared : 0 .. MaxHead, at : 0 .. MaxHead]

Init ==
  /\ base \in Bases /\ ready = {}
  /\ hunk = [h \in Hunks |-> "none"] /\ derived = [h \in Hunks |-> 0]
  /\ revision = 0 /\ shown = [w \in Windows |-> Nothing]
  /\ conflict = [w \in Windows |-> FALSE]
  /\ head = 0 /\ clean = TRUE /\ apply = NoCall /\ applied = NoApply

ApprovedIn(states) == {h \in Hunks : states[h] = "approved"}

\* detect_conflicts: approved hunks of different variants.
Conflicts(states) ==
  {p \in SUBSET ApprovedIn(states) : p \in Overlaps /\ \E g, h \in p : Of[g] # Of[h]}

\* group_base, resolved: a branch is wherever it is now.
Resolved == IF base = "commit" THEN 0 ELSE head

----------------------------------------------------------------------------
\* A window

\* init_group: variants that have no hunk yet are projected, and the revision stays.
Projected == {v \in ready : \A h \in Hunks : Of[h] = v => hunk[h] = "none"}

Load(w, states) ==
  shown' = [shown EXCEPT ![w] = [open |-> TRUE, revision |-> revision, hunk |-> states]]

\* The main thread runs no other command of the review.
Free == apply.pc = "idle"

\* review_open.  Where the diff against the base is empty or fails, it is made
\* against the worktree's own HEAD, or of what is not staged there.
Open(w) ==
  LET new == {h \in Hunks : Of[h] \in Projected}
      states == [h \in Hunks |-> IF h \in new THEN "pending" ELSE hunk[h]]
  IN
  /\ Free /\ ready # {}
  /\ hunk' = states
  /\ \E fellBack \in SUBSET (Projected \cap MayFall) :
       derived' = [h \in Hunks |-> IF h \notin new THEN derived[h]
                                   ELSE IF Of[h] \in fellBack THEN OwnHead ELSE Resolved]
  /\ Load(w, states)
  /\ UNCHANGED <<base, ready, revision, conflict, head, clean, apply, applied>>

RefreshConflicts(w) ==
  /\ Free /\ shown[w].open
  /\ conflict' = [conflict EXCEPT ![w] = Conflicts(hunk) # {}]
  /\ UNCHANGED <<base, ready, hunk, derived, revision, shown, head, clean, apply, applied>>

\* Slip: taking a decision back does not count as one.
SavedUncounted(decision) == IF decision = "pending" THEN revision ELSE revision + 1

\* The revision a saved decision makes.
Saved(decision) == revision + 1

\* save_decision, and the window's own copy; a stale window opens the review again.
Decide(w, h, decision) ==
  /\ Free /\ shown[w].open /\ shown[w].hunk[h] # "none"
  /\ shown[w].revision = revision /\ revision < MaxRev
  /\ hunk' = [hunk EXCEPT ![h] = decision] /\ revision' = Saved(decision)
  /\ shown' = [shown EXCEPT ![w] = [open |-> TRUE, revision |-> revision',
                                    hunk |-> [@.hunk EXCEPT ![h] = decision]]]
  /\ UNCHANGED <<base, ready, derived, conflict, head, clean, apply, applied>>

\* Its user closes the dialog, also while it applies.
Close(w) ==
  /\ shown[w].open /\ shown' = [shown EXCEPT ![w] = Nothing]
  /\ UNCHANGED <<base, ready, hunk, derived, revision, conflict, head, clean, apply, applied>>

----------------------------------------------------------------------------
\* review_apply

\* The guards of the window, then those of the command, the patch of the stored
\* bodies, and git status.
Confirm(w) ==
  /\ Free /\ shown[w].open /\ ApprovedIn(shown[w].hunk) # {} /\ ~conflict[w]
  /\ shown[w].revision = revision /\ Conflicts(hunk) = {} /\ ApprovedIn(hunk) # {}
  /\ clean
  /\ apply' = [pc |-> "head", by |-> w, hunks |-> ApprovedIn(hunk),
               confirmed |-> ApprovedIn(shown[w].hunk), head |-> 0]
  /\ applied' = NoApply
  /\ UNCHANGED <<base, ready, hunk, derived, revision, shown, conflict, head, clean>>

ReadHead ==
  /\ apply.pc = "head" /\ apply' = [apply EXCEPT !.pc = "base", !.head = head]
  /\ UNCHANGED <<base, ready, hunk, derived, revision, shown, conflict, head, clean, applied>>

\* Slip: the base is looked up and HEAD is not compared with it.
OnBaseUnchecked == TRUE

OnBase == apply.head = Resolved

Compare ==
  /\ apply.pc = "base" /\ OnBase /\ apply' = [apply EXCEPT !.pc = "write"]
  /\ UNCHANGED <<base, ready, hunk, derived, revision, shown, conflict, head, clean, applied>>

\* git apply writes all of the patch to the working copy as that is by now.
Write ==
  /\ apply.pc = "write" /\ apply' = NoCall
  /\ applied' = [wrote |-> apply.hunks, confirmed |-> apply.confirmed,
                 compared |-> apply.head, at |-> head]
  /\ clean' = FALSE /\ shown' = [shown EXCEPT ![apply.by] = Nothing]
  /\ UNCHANGED <<base, ready, hunk, derived, revision, conflict, head>>

\* HEAD is not the base, a git fails, or the patch does not fit and nothing of it
\* is written.
Refuse ==
  /\ ~Free /\ apply' = NoCall
  /\ UNCHANGED <<base, ready, hunk, derived, revision, shown, conflict, head, clean, applied>>

----------------------------------------------------------------------------
\* The launcher and the user's own terminal

Launched(v) ==
  /\ v \notin ready /\ ready' = ready \cup {v}
  /\ UNCHANGED <<base, hunk, derived, revision, shown, conflict, head, clean, apply, applied>>

\* The user changes the working copy, commits, or discards.
EditTree == clean /\ clean' = FALSE
            /\ UNCHANGED <<base, ready, hunk, derived, revision, shown, conflict, head, apply, applied>>

Commit == ~clean /\ head < MaxHead /\ head' = head + 1 /\ clean' = TRUE
          /\ UNCHANGED <<base, ready, hunk, derived, revision, shown, conflict, apply, applied>>

Discard == ~clean /\ clean' = TRUE
           /\ UNCHANGED <<base, ready, hunk, derived, revision, shown, conflict, head, apply, applied>>

Checkout == clean /\ head > 0 /\ base = "commit" /\ head' = 0
            /\ UNCHANGED <<base, ready, hunk, derived, revision, shown, conflict, clean, apply, applied>>

Next ==
  \/ \E w \in Windows :
       \/ Open(w) \/ RefreshConflicts(w) \/ Close(w) \/ Confirm(w)
       \/ \E h \in Hunks, d \in States \ {"none"} : Decide(w, h, d)
  \/ ReadHead \/ Compare \/ Write \/ Refuse
  \/ \E v \in Variants : Launched(v)
  \/ EditTree \/ Commit \/ Discard \/ Checkout

Spec == Init /\ [][Next]_vars

----------------------------------------------------------------------------
(***************************************************************************)
(* What is written is exactly what the window that confirmed it showed as  *)
(* approved, although other windows decide and open meanwhile, and no two  *)
(* of its hunks touch the same lines (review_apply: "aplica EXACTAMENTE el *)
(* set que confirmó").                                                     *)
(***************************************************************************)
AppliedIsConfirmed ==
  /\ applied.wrote = applied.confirmed
  /\ \A p \in Overlaps : p \subseteq applied.wrote => \A g, h \in p : Of[g] = Of[h]

(***************************************************************************)
(* A hunk is applied to the commit it was computed against (review_apply:  *)
(* the patch was derived against that base), unless the user moves HEAD    *)
(* after it was compared, or the diff of the variant fell back to its own  *)
(* worktree.  The code keeps this when the base is a commit; a branch      *)
(* moves, and HEAD moves with it.                                          *)
(***************************************************************************)
AppliedOnItsBase ==
  applied.at = applied.compared =>
    \A h \in applied.wrote : derived[h] \in {applied.at, OwnHead}

\* What review_apply writes was confirmed and fits; checked for groups whose
\* base is a commit.
AppliedIsReviewed == AppliedIsConfirmed /\ AppliedOnItsBase

=============================================================================
