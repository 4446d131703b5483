----------------------------- MODULE AtomicKill -----------------------------
(***************************************************************************)
(* What the kill switch of an attempt promises, whoever asks for it and    *)
(* however often (header of services/attempt_checkpoint.rs): at most one   *)
(* destructive git runs on the worktree, the kill is recorded only once    *)
(* the worktree is clean, and nothing touches it after that.               *)
(***************************************************************************)
CONSTANTS Killers, NoOne

VARIABLES tree,     \* "dirty" (the attempt's work), "half" or "clean"
          cutter,   \* who is running a destructive git
          recorded  \* the kill is on record as complete

vars == <<tree, cutter, recorded>>

Init == tree = "dirty" /\ cutter = NoOne /\ recorded = FALSE

Begin(k) == /\ cutter = NoOne /\ ~recorded
            /\ cutter' = k
            /\ tree' \in {tree, "half"}
            /\ UNCHANGED recorded

Finish(k) == /\ cutter = k
             /\ cutter' = NoOne
             /\ tree' = "clean"
             /\ UNCHANGED recorded

\* The git fails or its process dies: the worktree is left as it is.
Stop(k) == /\ cutter = k
           /\ cutter' = NoOne
           /\ UNCHANGED <<tree, recorded>>

Record == /\ tree = "clean" /\ cutter = NoOne
          /\ recorded' = TRUE
          /\ UNCHANGED <<tree, cutter>>

Next == (\E k \in Killers : Begin(k) \/ Finish(k) \/ Stop(k)) \/ Record

Spec == Init /\ [][Next]_vars
=============================================================================
