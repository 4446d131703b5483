------------------------- MODULE AttemptKillProofs -------------------------
(***************************************************************************)
(* Proofs about AttemptKill, for any number of killers, any worktree and   *)
(* any set of slow killers.  The inductive invariant adds to the checked   *)
(* ones what the file lock and the revalidation after it give: whoever is  *)
(* past the lock holds it, so the worktree a git has just cleaned stays    *)
(* clean until its killer leaves.                                          *)
(***************************************************************************)
EXTENDS AttemptKill, TLAPS

\* Whoever is past the file lock holds it.
PastLockHolds ==
  \A k \in Killers :
    pc[k] \in {"locked", "owner", "git", "gitOk", "failed", "leave"} => flock = k

\* What a git has cleaned stays clean while its killer is about to say so.
CleanedStaysClean == \A k \in Killers : pc[k] = "gitOk" => tree = "clean"

IInv == TypeOK /\ PastLockHolds /\ CleanedStaysClean /\ KilledIsClean

----------------------------------------------------------------------------
\* Every state of AttemptKill's specification satisfies the invariant at first.
LEMMA InitIInv == Init => IInv
BY NoOneIsNoKiller DEF Init, IInv, TypeOK, PastLockHolds, CleanedStaysClean, KilledIsClean

\* Types are kept by every step, and a claimed row keeps the token of a claim.
LEMMA TypingStep == TypeOK /\ [Next]_vars => TypeOK'
<1> SUFFICES ASSUME TypeOK, [Next]_vars PROVE TypeOK'
  OBVIOUS
<1> USE NoOneIsNoKiller DEF TypeOK
<1>1. CASE Register
  BY <1>1 DEF Register
<1>2. CASE GrowStale
  BY <1>2 DEF GrowStale
<1>3. ASSUME NEW k \in Killers, ClaimKilling(k) PROVE TypeOK'
  BY <1>3 DEF ClaimKilling, Goto
<1>4. ASSUME NEW k \in Killers, Step(k) PROVE TypeOK'
  <2>1. CASE TryLock(k)
    BY <2>1 DEF TryLock, Goto
  <2>2. CASE BackOff(k)
    BY <2>2 DEF BackOff, ReleaseRow, Goto
  <2>3. CASE StillOwner(k)
    BY <2>3 DEF StillOwner, Goto
  <2>4. CASE GitBegin(k)
    BY <2>4 DEF GitBegin, Goto
  <2>5. CASE ValidateFails(k) \/ GitFails(k)
    BY <2>5 DEF ValidateFails, GitFails, Goto
  <2>6. CASE GitOk(k)
    BY <2>6 DEF GitOk, Goto
  <2>7. CASE GiveUp(k)
    BY <2>7 DEF GiveUp, ReleaseRow, Goto
  <2>8. CASE MarkKilled(k)
    BY <2>8 DEF MarkKilled, Goto
  <2>9. CASE Leave(k)
    BY <2>9 DEF Leave, Goto
  <2> QED
    BY <1>4, <2>1, <2>2, <2>3, <2>4, <2>5, <2>6, <2>7, <2>8, <2>9 DEF Step
<1>5. ASSUME NEW k \in Killers, Die(k) PROVE TypeOK'
  BY <1>5 DEF Die
<1>6. CASE UNCHANGED vars
  BY <1>6 DEF vars
<1> QED
  BY <1>1, <1>2, <1>3, <1>4, <1>5, <1>6 DEF Next

\* The file lock is the caller's from the moment it is taken until it returns.
LEMMA LockStep == IInv /\ [Next]_vars => PastLockHolds'
<1> SUFFICES ASSUME IInv, [Next]_vars PROVE PastLockHolds'
  OBVIOUS
<1> USE NoOneIsNoKiller DEF IInv, TypeOK, PastLockHolds
<1>1. CASE Register \/ GrowStale \/ UNCHANGED vars
  BY <1>1 DEF Register, GrowStale, vars
<1>2. ASSUME NEW k \in Killers, ClaimKilling(k) PROVE PastLockHolds'
  BY <1>2 DEF ClaimKilling, Goto
<1>3. ASSUME NEW k \in Killers, Step(k) PROVE PastLockHolds'
  <2>1. CASE TryLock(k)
    BY <2>1 DEF TryLock, Goto
  <2>2. CASE BackOff(k)
    BY <2>2 DEF BackOff, Goto
  <2>3. CASE StillOwner(k) \/ GitBegin(k) \/ ValidateFails(k)
    BY <2>3 DEF StillOwner, GitBegin, ValidateFails, Goto
  <2>4. CASE GitOk(k) \/ GitFails(k) \/ GiveUp(k) \/ MarkKilled(k)
    BY <2>4 DEF GitOk, GitFails, GiveUp, MarkKilled, Goto
  <2>5. CASE Leave(k)
    BY <2>5 DEF Leave, Goto
  <2> QED
    BY <1>3, <2>1, <2>2, <2>3, <2>4, <2>5 DEF Step
<1>4. ASSUME NEW k \in Killers, Die(k) PROVE PastLockHolds'
  BY <1>4 DEF Die
<1> QED
  BY <1>1, <1>2, <1>3, <1>4 DEF Next

\* The worktree stays clean from the end of a git to its MarkKilled and after
\* it, because only the holder of the file lock, with its claim revalidated,
\* starts a git.
LEMMA CleanStep == IInv /\ [Next]_vars => CleanedStaysClean' /\ KilledIsClean'
<1> SUFFICES ASSUME IInv, [Next]_vars PROVE CleanedStaysClean' /\ KilledIsClean'
  OBVIOUS
<1> USE DEF IInv, TypeOK, PastLockHolds, CleanedStaysClean, KilledIsClean
<1>1. CASE Register \/ GrowStale \/ UNCHANGED vars
  BY <1>1 DEF Register, GrowStale, vars
<1>2. ASSUME NEW k \in Killers, ClaimKilling(k) PROVE CleanedStaysClean' /\ KilledIsClean'
  BY <1>2 DEF ClaimKilling, Goto
<1>3. ASSUME NEW k \in Killers, Step(k) PROVE CleanedStaysClean' /\ KilledIsClean'
  <2>1. CASE TryLock(k) \/ Leave(k)
    BY <2>1 DEF TryLock, Leave, Goto
  <2>2. CASE BackOff(k) \/ GiveUp(k)
    BY <2>2 DEF BackOff, GiveUp, ReleaseRow, Owns, Goto
  <2>3. CASE StillOwner(k)
    BY <2>3 DEF StillOwner, Owns, Goto
  <2>4. CASE GitBegin(k)
    BY <2>4 DEF GitBegin, Goto
  <2>5. CASE ValidateFails(k) \/ GitFails(k)
    BY <2>5 DEF ValidateFails, GitFails, Goto
  <2>6. CASE GitOk(k)
    BY <2>6 DEF GitOk, Goto
  <2>7. CASE MarkKilled(k)
    BY <2>7 DEF MarkKilled, Goto
  <2> QED
    BY <1>3, <2>1, <2>2, <2>3, <2>4, <2>5, <2>6, <2>7 DEF Step
<1>4. ASSUME NEW k \in Killers, Die(k) PROVE CleanedStaysClean' /\ KilledIsClean'
  BY <1>4 DEF Die
<1> QED
  BY <1>1, <1>2, <1>3, <1>4 DEF Next

\* Every step of the protocol keeps the inductive invariant.
LEMMA IInvStep == IInv /\ [Next]_vars => IInv'
BY TypingStep, LockStep, CleanStep DEF IInv

\* The inductive invariant holds in every reachable state.
LEMMA IInvHolds == Spec => []IInv
BY InitIInv, IInvStep, PTL DEF Spec

----------------------------------------------------------------------------
\* Every state is well typed; a claimed row carries the token of its claim.
THEOREM Typing == Spec => []TypeOK
<1>1. IInv => TypeOK
  BY DEF IInv
<1> QED
  BY <1>1, IInvHolds, PTL

\* The file lock has one holder, so there is one git.
LEMMA IInvOneGit == IInv => OneGitAtATime
BY DEF IInv, PastLockHolds, OneGitAtATime

\* Two killers never run a destructive git on the same worktree.
THEOREM OneGit == Spec => []OneGitAtATime
BY IInvOneGit, IInvHolds, PTL

\* A checkpoint on record as killed has a clean worktree and no git left.
THEOREM Killed == Spec => []KilledIsClean
<1>1. IInv => KilledIsClean
  BY DEF IInv
<1> QED
  BY <1>1, IInvHolds, PTL

\* The row leaves killing only by the hand of the owner of its token.
THEOREM Fenced == Spec => FencedRow
<1>1. IInv /\ [Next]_vars =>
        [status = "killing" /\ status' # "killing" =>
           pc[token] \in {"held", "failed", "gitOk"} /\ pc'[token] # pc[token]]_vars
  <2> SUFFICES ASSUME IInv, Next, status = "killing", status' # "killing"
               PROVE pc[token] \in {"held", "failed", "gitOk"} /\ pc'[token] # pc[token]
    OBVIOUS
  <2> USE DEF IInv, TypeOK
  <2>1. PICK k \in Killers : Step(k)
    BY DEF Next, Register, GrowStale, ClaimKilling, Die
  <2>2. BackOff(k) \/ GiveUp(k) \/ MarkKilled(k)
    BY <2>1 DEF Step, TryLock, StillOwner, GitBegin, ValidateFails, GitOk, GitFails, Leave
  <2>3. token = k
    BY <2>2 DEF BackOff, GiveUp, MarkKilled, ReleaseRow, Owns
  <2> QED
    BY <2>2, <2>3 DEF BackOff, GiveUp, MarkKilled, Goto
<1> QED
  BY <1>1, IInvHolds, PTL DEF Spec, FencedRow

----------------------------------------------------------------------------
\* The refinement: every step of the protocol is a step of AtomicKill.

\* The cutter of the mapping is the killer whose git runs ...
LEMMA CutterIs == ASSUME IInv, NEW k \in Killers, pc[k] = "git" PROVE Cutter = k
BY IInvOneGit DEF OneGitAtATime, Cutter

\* ... and nobody if none does.
LEMMA CutterNone == ASSUME \A k \in Killers : pc[k] # "git" PROVE Cutter = NoOne
BY DEF Cutter

\* A step that leaves and enters no git leaves the cutter alone.
LEMMA CutterSame ==
  ASSUME IInv, IInv',
         \A k \in Killers : pc[k] = "git" <=> pc'[k] = "git"
  PROVE  Cutter' = Cutter
<1>1. CASE \E k \in Killers : pc[k] = "git"
  <2> PICK k \in Killers : pc[k] = "git"
    BY <1>1
  <2>1. Cutter = k
    BY CutterIs
  <2>2. \A j \in Killers : pc'[j] = "git" => j = k
    BY IInvOneGit DEF OneGitAtATime
  <2>3. Cutter' = k
    BY <2>2 DEF Cutter
  <2> QED
    BY <2>1, <2>3
<1>2. CASE \A k \in Killers : pc[k] # "git"
  BY <1>2 DEF Cutter
<1> QED
  BY <1>1, <1>2

\* Initial states of the protocol are initial states of AtomicKill.
LEMMA RefinesInit == Init => Atomic!Init
BY CutterNone DEF Init, Atomic!Init

\* Every step of the protocol is a step of AtomicKill, or leaves it unchanged.
LEMMA RefinesStep == IInv /\ IInv' /\ [Next]_vars => [Atomic!Next]_(Atomic!vars)
<1> SUFFICES ASSUME IInv, IInv', [Next]_vars PROVE [Atomic!Next]_(Atomic!vars)
  OBVIOUS
<1> DEFINE Stutter == /\ tree' = tree /\ Cutter' = Cutter
                      /\ (status' = "killed") = (status = "killed")
<1>0. Stutter => UNCHANGED Atomic!vars
  BY DEF Atomic!vars
<1>1. CASE Register \/ GrowStale \/ UNCHANGED vars
  <2>1. tree' = tree /\ pc' = pc /\ (status' = "killed") = (status = "killed")
    BY <1>1 DEF Register, GrowStale, vars
  <2>2. Cutter' = Cutter
    BY <2>1, CutterSame
  <2> QED
    BY <2>1, <2>2, <1>0
<1>2. ASSUME NEW k \in Killers, ClaimKilling(k) PROVE Stutter
  <2>1. Cutter' = Cutter
    BY <1>2, CutterSame DEF ClaimKilling, Goto, IInv, TypeOK
  <2> QED
    BY <1>2, <2>1 DEF ClaimKilling
<1>3. ASSUME NEW k \in Killers,
             \/ TryLock(k) \/ BackOff(k) \/ StillOwner(k) \/ ValidateFails(k)
             \/ GiveUp(k) \/ Leave(k)
      PROVE Stutter
  <2> USE DEF TryLock, BackOff, StillOwner, ValidateFails, GiveUp, Leave, ReleaseRow, Goto
  <2>1. Cutter' = Cutter
    BY <1>3, CutterSame DEF IInv, TypeOK
  <2>2. tree' = tree /\ (status' = "killed") = (status = "killed")
    BY <1>3 DEF Owns
  <2> QED
    BY <2>1, <2>2
<1>4. ASSUME NEW k \in Killers, GitBegin(k) PROVE Atomic!Begin(k)
  <2>1. pc[k] = "owner" /\ pc'[k] = "git"
    BY <1>4 DEF GitBegin, Goto, IInv, TypeOK
  <2>2. \A j \in Killers : pc[j] # "git"
    BY <2>1 DEF IInv, PastLockHolds
  <2>3. Cutter = NoOne /\ Cutter' = k
    <3>1. \A j \in Killers : pc'[j] = "git" => j = k
      BY <1>4, <2>2 DEF GitBegin, Goto, IInv, TypeOK
    <3> QED
      BY <2>1, <2>2, <3>1, CutterNone DEF Cutter
  <2>4. status # "killed" /\ status' = status
    BY <1>4, <2>1 DEF IInv, KilledIsClean, GitBegin
  <2> QED
    BY <1>4, <2>3, <2>4 DEF GitBegin, Atomic!Begin
<1>5. ASSUME NEW k \in Killers, GitOk(k) \/ GitFails(k) \/ (Die(k) /\ pc[k] = "git")
      PROVE Cutter = k /\ Cutter' = NoOne /\ status' = status
  <2>1. pc[k] = "git" /\ status' = status
    BY <1>5 DEF GitOk, GitFails, Goto, Die
  <2>2. Cutter = k
    BY <2>1, CutterIs
  <2>3. \A j \in Killers : pc'[j] # "git"
    BY <1>5, <2>1, IInvOneGit DEF OneGitAtATime, GitOk, GitFails, Goto, Die, IInv, TypeOK
  <2>4. Cutter' = NoOne
    BY <2>3 DEF Cutter
  <2> QED
    BY <2>1, <2>2, <2>4
<1>6. ASSUME NEW k \in Killers, GitOk(k) PROVE Atomic!Finish(k)
  BY <1>5, <1>6 DEF GitOk, Atomic!Finish
<1>7. ASSUME NEW k \in Killers, GitFails(k) \/ (Die(k) /\ pc[k] = "git") PROVE Atomic!Stop(k)
  BY <1>5, <1>7 DEF GitFails, Die, Atomic!Stop
<1>8. ASSUME NEW k \in Killers, Die(k), pc[k] # "git" PROVE Stutter
  <2>1. Cutter' = Cutter
    BY <1>8, CutterSame DEF Die, IInv, TypeOK
  <2> QED
    BY <1>8, <2>1 DEF Die
<1>9. ASSUME NEW k \in Killers, MarkKilled(k) PROVE Stutter \/ Atomic!Record
  <2>1. pc[k] = "gitOk" /\ tree' = tree
    BY <1>9 DEF MarkKilled, Goto
  <2>2. Cutter' = Cutter
    BY <1>9, CutterSame DEF MarkKilled, Goto, IInv, TypeOK
  <2>3. CASE Owns(k)
    <3>1. tree = "clean" /\ \A j \in Killers : pc[j] # "git"
      BY <2>1 DEF IInv, PastLockHolds, CleanedStaysClean
    <3>2. Cutter = NoOne
      BY <3>1, CutterNone
    <3>3. status' = "killed"
      BY <1>9, <2>3 DEF MarkKilled
    <3> QED
      BY <2>1, <2>2, <3>1, <3>2, <3>3 DEF Atomic!Record
  <2>4. CASE ~Owns(k)
    BY <1>9, <2>1, <2>2, <2>4 DEF MarkKilled
  <2> QED
    BY <2>3, <2>4
<1> QED
  <2>1. (\E k \in Killers : Atomic!Begin(k) \/ Atomic!Finish(k) \/ Atomic!Stop(k))
          \/ Atomic!Record \/ Stutter
        => [Atomic!Next]_(Atomic!vars)
    BY <1>0 DEF Atomic!Next
  <2> HIDE DEF Stutter
  <2> QED
    BY <1>1, <1>2, <1>3, <1>4, <1>6, <1>7, <1>8, <1>9, <2>1 DEF Next, Step

\* The kill protocol, with its claims, orphans, deaths and slow killers,
\* implements the transactional kill AtomicKill describes.
THEOREM Implements == Spec => ImplementsAtomicKill
<1>1. Spec => []IInv
  BY IInvHolds
<1>2. Init => Atomic!Init
  BY RefinesInit
<1>3. IInv /\ IInv' /\ [Next]_vars => [Atomic!Next]_(Atomic!vars)
  BY RefinesStep
<1> QED
  BY <1>1, <1>2, <1>3, PTL DEF Spec, ImplementsAtomicKill, Atomic!Spec
=============================================================================
