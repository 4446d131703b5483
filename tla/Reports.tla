------------------------------- MODULE Reports -------------------------------
(***************************************************************************)
(* The components that tell somebody what happens, side by side: the sound *)
(* of the attention queue, the event bus to windows and phones, the audit  *)
(* of the reviews and the sync of a user's machines.  They share nothing;  *)
(* a name that another composition uses is renamed in the INSTANCE.        *)
(*                                                                         *)
(* MCGuards checks them on small instances, and ReportProofs proves them   *)
(* for all: both speak of the definitions at the end of this module.       *)
(***************************************************************************)

CONSTANTS Events, Urgent, QueueCap, MaxVoices
VARIABLES dedup, queue, gen, pump, said, speaking, voices, played, muted
Sound == INSTANCE Audio
ASSUME SoundAssumption == Sound!AudioAssumption

CONSTANTS Senders, PhoneFirst, Items, Tells, Viewers, RingCap, MaxSeq, MaxResets
VARIABLES store, sender, seq, channel, cursor, deaf, due, view, ring, newest, resets,
          heard, unheard, overtaken
Bus == INSTANCE EventBus WITH Threads <- Senders, Windows <- Viewers
ASSUME BusAssumption == Bus!BusAssumption

CONSTANTS Auditors, Ids, MaxAgeDays, MaxEvents, MaxFiles, MaxDay
VARIABLES links, orphans, sealing, files, manifest, sealed, day
Audit == INSTANCE Retention WITH Callers <- Auditors, MaxTime <- MaxDay, now <- day
ASSUME AuditAssumption == Audit!RetentionAssumption

CONSTANTS Machines, Prefs, Calls, MaxSecond
VARIABLES row, meta, edited, cycle, relay, fresh, clock
Sync == INSTANCE MultiSync WITH Items <- Prefs, MaxTime <- MaxSecond, now <- clock
ASSUME SyncAssumption == Sync!SyncAssumption

soundVars == <<dedup, queue, gen, pump, said, speaking, voices, played, muted>>
busVars   == <<store, sender, seq, channel, cursor, deaf, due, view, ring, newest, resets,
               heard, unheard, overtaken>>
auditVars == <<links, orphans, sealing, files, manifest, sealed, day>>
syncVars  == <<row, meta, edited, cycle, relay, fresh, clock>>

----------------------------------------------------------------------------
\* What each of them promises, under its own name.
SoundIsAccounted       == Sound!SoundIsAccounted
QuietViewersAreCurrent == Bus!QuietViewersAreCurrent
ManifestIsEvidence     == Audit!ManifestIsEvidence
FreshMatchesRelay      == Sync!FreshMatchesRelay
=============================================================================
