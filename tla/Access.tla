------------------------------- MODULE Access -------------------------------
(***************************************************************************)
(* What lets a command, a decision, a skill or a voice in, side by side:   *)
(* the gate of the commands, the decisions of the inbox's cards, the       *)
(* skills on disk and the council over the health of its providers.  They  *)
(* share nothing; a name that another composition uses is renamed in the   *)
(* INSTANCE.                                                               *)
(*                                                                         *)
(* MCAccess checks them on small instances, and AccessProofs proves them   *)
(* for all: both speak of the definitions at the end of this module.       *)
(***************************************************************************)

CONSTANTS Commands, Default, Eligible, Args, NoArgs, RuleIds, Levels, Matched, Views, MaxRows,
          Approved \* how long an approval may be used
VARIABLES rules, custom, approval, view, runs
Gate == INSTANCE ApprovalGate WITH Windows <- Views, TTL <- Approved, window <- view
ASSUME GateAssumption == Gate!ApprovalAssumption

CONSTANTS CardIds, CardKeys, Closing, Frames, Skew, CacheSize, SnoozeTicks
VARIABLES card, log, frame, cache, update
Inbox == INSTANCE Cards WITH Keys <- CardKeys
ASSUME InboxAssumption == Inbox!CardsAssumption

CONSTANTS Sources, Hash, Signed, Keep
VARIABLES flat, row, dirs, slot, vrows, job, edited, refused
Skill == INSTANCE Skills WITH link <- slot
ASSUME SkillAssumption == Skill!SkillsAssumption

CONSTANTS Rounds, Quick, Voices, PlanOf, Pinned, Cred, ServedAs, Threshold, Internal
VARIABLES used, blocked, health, round, voice, traced, streak
Council == INSTANCE Council WITH status <- health, run <- round
ASSUME VoicesAssumption == Council!CouncilAssumption

gateVars  == <<rules, custom, approval, view, runs>>
cardVars  == <<card, log, frame, cache, update>>
skillVars == <<flat, row, dirs, slot, vrows, job, edited, refused>>
councilVars == <<used, blocked, health, round, voice, traced, streak>>

----------------------------------------------------------------------------
\* What each of them promises, under its own name.
GateIsKept       == Gate!GateIsKept
DecisionsAreKept == Inbox!DecisionsAreKept
InstalledIsWhole == Skill!InstalledIsWhole
CouncilIsKept    == Council!CouncilIsKept
=============================================================================
