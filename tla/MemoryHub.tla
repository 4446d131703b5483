----------------------------- MODULE MemoryHub -----------------------------
(***************************************************************************)
(* The memory of the agents: the entries of the hub and their text index   *)
(* (services/memory_daemon.rs), the inbox of proposals and the capture of  *)
(* the sessions that end (services/memory_autocapture.rs and               *)
(* procedural_gotchas.rs), the commands that decide on a proposal          *)
(* (commands.rs), and the sync of the lessons (services/multi_sync.rs).    *)
(*                                                                         *)
(* Every write is one hold of the mutex of the database; what lies between *)
(* two of them is open to the other threads and to the end of the process. *)
(***************************************************************************)
EXTENDS FiniteSetsExt, Functions, Sequences, TLC

CONSTANTS Sessions,     \* sessions of agents whose output is buffered
          Contents,     \* texts of memories
          Window,       \* the hour within which a repeated proposal is dropped
          TTL,          \* INCOMPLETE_TTL_MINS
          Fails,        \* TRUE: a write whose error is ignored or handled may fail
          MaxRow, MaxProposals, MaxTime \* bounds

\* What the bounds are, for the checks and the proofs alike.
MemoryAssumption ==
  /\ Window \in Nat /\ TTL \in Nat /\ Fails \in BOOLEAN
  /\ MaxRow \in Nat /\ MaxProposals \in Nat /\ MaxTime \in Nat

VARIABLES entry,    \* memory_entries: the content of each rowid
          fts,      \* memory_fts: the text indexed at each rowid
          prop,     \* memory_proposals, in the order of their creation
          stored,   \* history: entries made of each proposal
          decide,   \* memory_proposal_decide, on the main thread
          open,     \* sessions whose SessionBuffer is in the map
          saved,    \* incomplete_sessions
          capture,  \* the tasks that a session which ended has spawned
          now

vars == <<entry, fts, prop, stored, decide, open, saved, capture, now>>

hub   == <<entry, fts>>
inbox == <<prop, stored>>
tasks == <<open, saved, capture>>

Proposals == 1 .. MaxProposals
Decided == {"accepted", "edited", "rejected"}
NoDecision == [pc |-> "idle", p |-> 0, edited |-> FALSE]
NoCapture == [pc |-> "none", todo |-> {}, lesson |-> FALSE]

TypeOK ==
  /\ \A t \in {entry, fts} : DOMAIN t \subseteq 1 .. MaxRow /\ Range(t) \subseteq Contents
  /\ prop \in Seq([session : Sessions, content : Contents, at : 0 .. MaxTime,
                   status : {"proposed", "accepting"} \cup Decided])
  /\ stored \in [Proposals -> Nat]
  /\ decide \in [pc : {"idle", "store", "revert", "finalize"}, p : {0} \cup Proposals,
                 edited : BOOLEAN]
  /\ open \subseteq Sessions
  /\ saved \subseteq [session : Sessions, expires : Nat]
  /\ capture \in [Sessions -> [pc : {"none", "drain", "work", "done"}, todo : SUBSET Sessions,
                               lesson : BOOLEAN]]
  /\ now \in 0 .. MaxTime

Init ==
  /\ entry = <<>> /\ fts = <<>>
  /\ prop = <<>> /\ stored = [p \in Proposals |-> 0] /\ decide = NoDecision
  /\ open = Sessions /\ saved = {} /\ capture = [s \in Sessions |-> NoCapture]
  /\ now = 0

----------------------------------------------------------------------------
(* The hub.  Neither table names its rowid in an INSERT, and the join of a *)
(* recall is on it: the two must be given the same one.                    *)

\* SQLite gives a new row the rowid after the largest.
NextRow(t) == IF DOMAIN t = {} THEN 1 ELSE Max(DOMAIN t) + 1
Insert(t, c) == t @@ (NextRow(t) :> c)

Room == NextRow(entry) <= MaxRow /\ NextRow(fts) <= MaxRow

\* store_memory_full, and the insertion of handle_store: both rows or none.
Store(c) ==
  /\ Room
  /\ entry' = Insert(entry, c)
  /\ fts' = Insert(fts, c)

\* The error of the second insertion of store_memory is ignored.
StorePlain(c) ==
  /\ Room
  /\ entry' = Insert(entry, c)
  /\ \/ fts' = Insert(fts, c)
     \/ Fails /\ UNCHANGED fts

Write ==
  /\ \E c \in Contents : Store(c) \/ StorePlain(c)
  /\ UNCHANGED <<inbox, decide, tasks, now>>

\* The rows of the index that have no entry go with the entries.
Prune(t, rows) == Restrict(t, DOMAIN t \cap rows)

\* forget_entry, of one row, and forget_project, of the rows of a project.
Forget ==
  /\ \E rows \in SUBSET DOMAIN entry \ {{}} :
       /\ entry' = Restrict(entry, DOMAIN entry \ rows)
       /\ fts' = Prune(fts, DOMAIN entry')
  /\ UNCHANGED <<inbox, decide, tasks, now>>

\* apply_upsert of multi_sync.rs for a lesson the hub does not have.  One it has is
\* written again as it is: no command changes the content of an entry.
SyncLesson ==
  /\ Room
  /\ \E c \in Contents : entry' = Insert(entry, c)
  /\ UNCHANGED <<fts, inbox, decide, tasks, now>>

\* apply_delete of multi_sync.rs.
SyncDelete ==
  /\ \E r \in DOMAIN entry : entry' = Restrict(entry, DOMAIN entry \ {r})
  /\ UNCHANGED <<fts, inbox, decide, tasks, now>>

----------------------------------------------------------------------------
(* The decision on a proposal: a claim, a write to the hub, and the end of *)
(* the claim, each under its own hold of the mutex.                        *)

SetStatus(p, st) == prop' = [prop EXCEPT ![p].status = st]

Reject(p) ==
  /\ decide.pc = "idle"
  /\ prop[p].status = "proposed"
  /\ SetStatus(p, "rejected")
  /\ UNCHANGED <<hub, stored, decide, tasks, now>>

\* Mutant: the UPDATE of the claim has no condition on the status.
ClaimableAny(p) == prop[p].status \notin Decided
Claimable(p) == prop[p].status = "proposed"

\* claim_proposal_for_accept; a proposal that is not there to claim is refused.
Claim(p) ==
  /\ decide.pc = "idle"
  /\ Claimable(p)
  /\ SetStatus(p, "accepting")
  /\ \E ed \in BOOLEAN : decide' = [pc |-> "store", p |-> p, edited |-> ed]
  /\ UNCHANGED <<hub, stored, tasks, now>>

\* An accept may bring a content of its own as well as an edit.
StoreClaimed ==
  /\ decide.pc = "store"
  /\ \E c \in Contents : Store(c)
  /\ stored' = [stored EXCEPT ![decide.p] = @ + 1]
  /\ decide' = [decide EXCEPT !.pc = "finalize"]
  /\ UNCHANGED <<prop, tasks, now>>

\* Mutant: the claim is given back whatever became of the entry.
StoreFailsLate ==
  /\ Fails /\ decide.pc \in {"store", "finalize"}
  /\ decide' = [decide EXCEPT !.pc = "revert"]
  /\ UNCHANGED <<hub, inbox, tasks, now>>
StoreFails ==
  /\ Fails /\ decide.pc = "store"
  /\ decide' = [decide EXCEPT !.pc = "revert"]
  /\ UNCHANGED <<hub, inbox, tasks, now>>

\* revert_claim and finalize_claim; either may fail, and the row stays claimed.
EndClaim(from, st) ==
  /\ decide.pc = from
  /\ \/ SetStatus(decide.p, st)
     \/ Fails /\ UNCHANGED prop
  /\ decide' = NoDecision
  /\ UNCHANGED <<hub, stored, tasks, now>>

Revert == EndClaim("revert", "proposed")
Finalize == EndClaim("finalize", IF decide.edited THEN "edited" ELSE "accepted")

----------------------------------------------------------------------------
(* The capture of a session: its buffer is taken once, by the cancel that  *)
(* kills the pane or by the wait thread that sees it end.                  *)

\* save_abrupt_close_buffer, before the kill; a trivial session is not saved.
CloseAbruptly(s) ==
  /\ s \in open
  /\ open' = open \ {s}
  /\ saved' \in {saved, saved \cup {[session |-> s, expires |-> now + TTL]}}
  /\ UNCHANGED <<hub, inbox, decide, capture, now>>

\* dispatch_session_capture: with the setting on it spawns run_capture, and
\* run_procedural_capture if that is on too.
SessionEnds(s) ==
  /\ s \in open
  /\ open' = open \ {s}
  /\ \E on, learn \in BOOLEAN :
       capture' = IF on THEN [capture EXCEPT ![s] = [@ EXCEPT !.pc = "drain", !.lesson = learn]]
                  ELSE capture
  /\ UNCHANGED <<hub, inbox, decide, saved, now>>

\* drain_incomplete_sessions drops what has expired and lists the rest, which
\* stays in the table while it is distilled.
Drain(s) ==
  /\ capture[s].pc = "drain"
  /\ saved' = {row \in saved : row.expires >= now}
  /\ capture' = [capture EXCEPT ![s].pc = "work", ![s].todo = {row.session : row \in saved'}]
  /\ UNCHANGED <<hub, inbox, decide, open, now>>

\* Mutant: a proposal that was decided no longer counts.
DuplicateOpen(s, c) ==
  \E i \in DOMAIN prop : /\ prop[i].session = s /\ prop[i].content = c
                         /\ prop[i].status = "proposed" /\ prop[i].at + Window >= now
\* proposal_is_dup.
Duplicate(s, c) ==
  \E i \in DOMAIN prop : /\ prop[i].session = s /\ prop[i].content = c
                         /\ prop[i].at + Window >= now

\* insert_proposal: the look and the insertion under one hold.
InsertProposal(s, c) ==
  /\ ~Duplicate(s, c)
  /\ Len(prop) < MaxProposals
  /\ prop' = Append(prop, [session |-> s, content |-> c, at |-> now, status |-> "proposed"])
  /\ UNCHANGED hub

\* A candidate goes to the inbox, or to the hub with memory.autocapture_auto_accept.
Persist(s, c) == /\ InsertProposal(s, c) \/ (Store(c) /\ UNCHANGED prop)
                 /\ UNCHANGED <<stored, decide, open, saved, now>>

\* What a capture distils: the sessions it drained, whose order no property is
\* about, and then its own.
Distilled(s) == IF capture[s].todo = {} THEN {s} ELSE capture[s].todo

\* distill_and_persist, once for each candidate of the answer.
Candidate(s) ==
  /\ capture[s].pc = "work"
  /\ \E x \in Distilled(s), c \in Contents : Persist(x, c)
  /\ UNCHANGED capture

\* The candidates are all there, or the AIE did not answer: in either case the
\* saved session is deleted ...
NextSession(s) ==
  /\ capture[s].pc = "work"
  /\ \E x \in capture[s].todo :
       /\ saved' = {row \in saved : row.session # x}
       /\ capture' = [capture EXCEPT ![s].todo = @ \ {x}]
  /\ UNCHANGED <<hub, inbox, decide, open, now>>

\* ... and the task ends with its own.
CaptureEnds(s) ==
  /\ capture[s].pc = "work" /\ capture[s].todo = {}
  /\ capture' = [capture EXCEPT ![s].pc = "done"]
  /\ UNCHANGED <<hub, inbox, decide, open, saved, now>>

\* run_procedural_capture, beside the capture of the same session: at most one
\* lesson, which goes the same way as a candidate.
Lesson(s) ==
  /\ capture[s].lesson
  /\ capture' = [capture EXCEPT ![s].lesson = FALSE]
  /\ \/ \E c \in Contents : Persist(s, c)
     \/ UNCHANGED <<hub, inbox, decide, open, saved, now>>

----------------------------------------------------------------------------
Ended(k) == IF k.pc = "none" THEN k ELSE [k EXCEPT !.pc = "done", !.todo = {}, !.lesson = FALSE]

\* The application dies: the buffers, the tasks and the decision go with it.
Lost ==
  /\ decide' = NoDecision
  /\ open' = {}
  /\ capture' = [s \in Sessions |-> Ended(capture[s])]
  /\ UNCHANGED <<inbox, saved, now>>

Restart == Lost /\ UNCHANGED hub

\* It dies between the two statements of memory_forget, which has no transaction.
ForgetDies ==
  /\ \E r \in DOMAIN entry : entry' = Restrict(entry, DOMAIN entry \ {r})
  /\ UNCHANGED fts
  /\ Lost

Tick ==
  /\ now < MaxTime
  /\ now' = now + 1
  /\ UNCHANGED <<hub, inbox, decide, tasks>>

Deciding == \/ \E p \in DOMAIN prop : Reject(p) \/ Claim(p)
            \/ StoreClaimed \/ StoreFails \/ Revert \/ Finalize

Capturing(s) == \/ CloseAbruptly(s) \/ SessionEnds(s)
                \/ Drain(s) \/ Candidate(s) \/ NextSession(s) \/ CaptureEnds(s)
                \/ Lesson(s)

Next == \/ Write \/ Forget \/ SyncLesson \/ SyncDelete
        \/ Deciding
        \/ \E s \in Sessions : Capturing(s)
        \/ Restart \/ ForgetDies \/ Tick

Spec == Init /\ [][Next]_vars

----------------------------------------------------------------------------
\* Properties

\* An entry is made of a proposal at most once, never of one that is rejected
\* or still to be decided, and an accepted one has had its entry, whatever
\* fails or dies between the claim, the entry and the end of the claim
\* (migrations/041: one entry per id).
DecisionIsStored ==
  \A p \in DOMAIN prop :
    /\ stored[p] <= 1
    /\ prop[p].status \in {"proposed", "rejected"} => stored[p] = 0
    /\ prop[p].status \in {"accepted", "edited"} => stored[p] = 1

\* The tasks of one session and of those that took up the same saved session
\* do not propose the same memory twice within the hour.
ProposedOnce ==
  \A i, j \in DOMAIN prop :
    i < j /\ prop[i].session = prop[j].session /\ prop[i].content = prop[j].content
      => prop[i].at + Window < prop[j].at

ProposalsAreKept == DecisionIsStored /\ ProposedOnce

\* The index and the entries are in lock-step, as the comment of handle_store
\* has it: the entry that a recall finds by a row of the index is the one whose
\* content the row holds.
LockStep == \A r \in DOMAIN entry \cap DOMAIN fts : fts[r] = entry[r]
=============================================================================
