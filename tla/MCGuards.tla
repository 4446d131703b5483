------------------------------ MODULE MCGuards ------------------------------
(***************************************************************************)
(* The scheduler of a pipeline and the components of Guards and Reports,   *)
(* each on an instance of its own.  They share nothing: part says which of *)
(* them a behaviour is about, and the others stay as they began, so that   *)
(* one run explores each one alone.                                        *)
(***************************************************************************)
EXTENDS PipelineDag, Guards, Reports

\* A <- B blocking, B <- C continue on error; the poller or Telegram races with
\* the commands.
ChainBlock == {<<"b", "a">>}
ChainContinue == {<<"c", "b">>}
ChainTopo == [a |-> 0, b |-> 1, c |-> 2]

\* Two of the tokens happen to have the same short code.
SameShort == [p |-> 1, q |-> 2, r |-> 1]

\* One hunk of each variant, on the same lines.
HunkOf == [a1 |-> "a", b1 |-> "b"]
SameLines == {{"a1", "b1"}}

\* The bridge of the phone asks for approvals, the main thread does the rest.
TellsOf == [main |-> {"approval", "layout"}, bridge |-> {"approval"}]

\* Machine 1 may have two calls of sync_now under way.
TwoAndOne == {<<1, 1>>, <<1, 2>>, <<2, 1>>}

VARIABLE part

----------------------------------------------------------------------------
guardVars  == <<leaseVars, lockVars, hubVars, pairVars, diffVars>>
reportVars == <<soundVars, busVars, auditVars, syncVars>>

MCInit ==
  /\ part \in {"dag", "lease", "locks", "memory", "pair", "diff", "sound", "bus", "audit", "sync"}
  /\ Init /\ Lease!Init /\ Locks!Init /\ Memory!Init /\ Pair!Init /\ Diff!Init
  /\ Sound!Init /\ Bus!Init /\ Audit!Init /\ Sync!Init

MCNext ==
  \/ /\ part \in {"lease", "locks", "memory", "pair", "diff"}
     /\ \/ part = "lease" /\ Lease!Next /\ UNCHANGED <<lockVars, hubVars, pairVars, diffVars>>
        \/ part = "locks" /\ Locks!Next /\ UNCHANGED <<leaseVars, hubVars, pairVars, diffVars>>
        \/ part = "memory" /\ Memory!Next /\ UNCHANGED <<leaseVars, lockVars, pairVars, diffVars>>
        \/ part = "pair" /\ Pair!Next /\ UNCHANGED <<leaseVars, lockVars, hubVars, diffVars>>
        \/ part = "diff" /\ Diff!Next /\ UNCHANGED <<leaseVars, lockVars, hubVars, pairVars>>
     /\ UNCHANGED <<part, vars, reportVars>>
  \/ /\ part \in {"sound", "bus", "audit", "sync"}
     /\ \/ part = "sound" /\ Sound!Next /\ UNCHANGED <<busVars, auditVars, syncVars>>
        \/ part = "bus" /\ Bus!Next /\ UNCHANGED <<soundVars, auditVars, syncVars>>
        \/ part = "audit" /\ Audit!Next /\ UNCHANGED <<soundVars, busVars, syncVars>>
        \/ part = "sync" /\ Sync!Next /\ UNCHANGED <<soundVars, busVars, auditVars>>
     /\ UNCHANGED <<part, vars, guardVars>>
  \/ part = "dag" /\ Next /\ UNCHANGED <<part, guardVars, reportVars>>

MCSpec == MCInit /\ [][MCNext]_<<part, vars, guardVars, reportVars>>
=============================================================================
