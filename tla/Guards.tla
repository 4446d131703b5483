------------------------------- MODULE Guards -------------------------------
(***************************************************************************)
(* The registries and stores whose safety is proved, side by side: the     *)
(* lease of a panel, the locks of the resources, the inbox of the memory,  *)
(* the pairing of a phone and the review of a group.  They share nothing;  *)
(* a name that two of them use is renamed in the INSTANCE of the later.    *)
(*                                                                         *)
(* MCGuards checks them on small instances, and GuardProofs and            *)
(* MemoryHubProofs prove them for all: both speak of the definitions at    *)
(* the end of this module.                                                 *)
(***************************************************************************)

CONSTANTS Callers, Mounts, MaxVersion
VARIABLES lease, version, mutex, caller
Lease == INSTANCE PtyLease WITH Threads <- Callers, entry <- mutex
ASSUME LeaseAssumption == Lease!PtyLeaseAssumption

CONSTANTS Holders, Keys, TTLs, MaxTime
VARIABLES lock, now, grant, task, dropping
Locks == INSTANCE ResourceLocks WITH Tasks <- Holders
ASSUME LocksAssumption == Locks!LocksAssumption

CONSTANTS Sessions, Contents, Window, TTL, Fails, MaxRow, MaxProposals, MaxHour
VARIABLES entry, fts, prop, stored, decide, open, saved, capture, hour
Memory == INSTANCE MemoryHub WITH MaxTime <- MaxHour, now <- hour
ASSUME HubAssumption == Memory!MemoryAssumption

CONSTANTS Tokens, Devices, Short, MaxSessions, Life, ResendGrace, InflightGrace, DoneGrace, MaxSecret
VARIABLES session, byShort, bySession, minted, secret, link, granted
Pair == INSTANCE MobilePairing
ASSUME PairAssumption == Pair!PairingAssumption

CONSTANTS Windows, Variants, Hunks, Of, Overlaps, MayFall, Bases, MaxRev, MaxHead
VARIABLES base, ready, hunk, derived, revision, shown, conflict, head, clean, apply, applied
Diff == INSTANCE Review
ASSUME DiffAssumption == Diff!ReviewAssumption

leaseVars == <<lease, version, mutex, caller>>
lockVars  == <<lock, now, grant, task, dropping>>
hubVars   == <<entry, fts, prop, stored, decide, open, saved, capture, hour>>
pairVars  == <<session, byShort, bySession, minted, secret, link, granted>>
diffVars  == <<base, ready, hunk, derived, revision, shown, conflict, head, clean, apply, applied>>

----------------------------------------------------------------------------
\* What each of them promises, under its own name.
OneInside         == Lease!OneInside
LeaseIsItsMounts  == Lease!LeaseIsItsMounts
GrantIsExclusive  == Locks!GrantIsExclusive
ProposalsAreKept  == Memory!ProposalsAreKept
PairingIsKept     == Pair!PairingIsKept
AppliedIsReviewed == Diff!AppliedIsReviewed
=============================================================================
