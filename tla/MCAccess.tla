------------------------------ MODULE MCAccess ------------------------------
(***************************************************************************)
(* The process of a pane under two threads and the components of Access.   *)
(* They share nothing: part says which of them a behaviour is about, and   *)
(* the others stay as they began, so that one run explores each one alone. *)
(***************************************************************************)
EXTENDS PaneProcess, Access

\* "open" is allowed by default, "wipe" needs an approval.
Levels2 == [open |-> 0, wipe |-> 1]

\* The third source has the scripts of the first, and not its signature.
HashOf == [s1 |-> "h1", s2 |-> "h2", s3 |-> "h1"]

\* Two runs at once, one of them quick, of voices that share a credential.
PlanOfRound == [app |-> {"a", "b"}, web |-> {"a"}]
SharedCred == [a |-> "k", b |-> "k"]
SameModel == [a |-> "a", b |-> "b"]

VARIABLE part

----------------------------------------------------------------------------
MCInit ==
  /\ part \in {"pane", "gate", "inbox", "skill", "council"}
  /\ Init /\ Gate!Init /\ Inbox!Init /\ Skill!Init /\ Council!Init
  \* What does not matter to a part is as it may be in one way only.
  /\ part # "inbox" => \A f \in Frames : frame[f].decision = "approved"
  \* The frames differ in nothing but their names: one of each kind, and a third.
  /\ part = "inbox" => frame["f1"].decision = "approved" /\ frame["f2"].decision = "snoozed"

MCNext ==
  \/ part = "pane" /\ Next /\ UNCHANGED <<part, gateVars, cardVars, skillVars, councilVars>>
  \/ part = "gate" /\ Gate!Next /\ UNCHANGED <<part, vars, cardVars, skillVars, councilVars>>
  \/ part = "inbox" /\ Inbox!Next /\ UNCHANGED <<part, vars, gateVars, skillVars, councilVars>>
  \/ part = "skill" /\ Skill!Next /\ UNCHANGED <<part, vars, gateVars, cardVars, councilVars>>
  \/ part = "council" /\ Council!Next /\ UNCHANGED <<part, vars, gateVars, cardVars, skillVars>>

MCSpec == MCInit /\ [][MCNext]_<<part, vars, gateVars, cardVars, skillVars, councilVars>>
=============================================================================
