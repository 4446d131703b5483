-------------------------- MODULE MemoryHubProofs --------------------------
(***************************************************************************)
(* Proofs about the inbox of MemoryHub, for any sessions, contents and     *)
(* bounds.  What makes ProposalsAreKept inductive: the row that the main   *)
(* thread decides on says accepting until the decision ends, its entry is  *)
(* made in between, and no row is dated later than now.                    *)
(***************************************************************************)
EXTENDS Guards, Integers, Sequences, TLAPS

Statuses == {"proposed", "accepting"} \cup Memory!Decided
Row == [session : Sessions, content : Contents, at : Nat, status : Statuses]
Decisions == [pc : {"idle", "store", "revert", "finalize"}, p : {0} \cup Memory!Proposals,
              edited : BOOLEAN]

InboxType ==
  /\ prop \in Seq(Row) /\ Len(prop) <= MaxProposals
  /\ stored \in [Memory!Proposals -> Nat]
  /\ decide \in Decisions
  /\ hour \in Nat

\* The row being decided on is claimed, and its entry is made in between.
ClaimIsHeld ==
  decide.pc # "idle" =>
    /\ decide.p \in DOMAIN prop
    /\ prop[decide.p].status = "accepting"
    /\ stored[decide.p] = IF decide.pc = "finalize" THEN 1 ELSE 0

\* No entry was made of a proposal that is still to come.
NoneForeseen == \A p \in Memory!Proposals : p > Len(prop) => stored[p] = 0

NotLaterThanNow == \A i \in DOMAIN prop : prop[i].at <= hour

\* What a task distils are sessions.
Captures == [pc : {"none", "drain", "work", "done"}, todo : SUBSET Sessions, lesson : BOOLEAN]

CaptureType ==
  /\ open \subseteq Sessions
  /\ saved \subseteq [session : Sessions, expires : Nat]
  /\ capture \in [Sessions -> Captures]

IInv == InboxType /\ ClaimIsHeld /\ NoneForeseen /\ NotLaterThanNow /\ Memory!ProposalsAreKept

inboxVars == <<prop, stored, decide, hour>>

----------------------------------------------------------------------------
\* The rows of the inbox have the type of a row.
LEMMA RowsAreTyped ==
  ASSUME Memory!MemoryAssumption, InboxType, NEW i \in DOMAIN prop
  PROVE  prop[i] \in Row /\ prop[i].at \in Nat /\ i \in Memory!Proposals
<1>1. prop[i] \in Row
  BY DEF InboxType
<1>2. i \in Memory!Proposals
  BY DEF InboxType, Memory!Proposals, Memory!MemoryAssumption
<1> QED
  BY <1>1, <1>2 DEF Row

\* The inbox starts empty.
LEMMA InitIInv == ASSUME Memory!MemoryAssumption, Memory!Init PROVE IInv
<1>1. InboxType
  BY DEF Memory!Init, InboxType, Decisions, Memory!NoDecision, Memory!MemoryAssumption
<1>2. ClaimIsHeld /\ NoneForeseen /\ NotLaterThanNow
  BY DEF Memory!Init, ClaimIsHeld, NoneForeseen, NotLaterThanNow, Memory!NoDecision
<1>3. Memory!ProposalsAreKept
  BY DEF Memory!Init, Memory!ProposalsAreKept, Memory!DecisionIsStored, Memory!ProposedOnce
<1> QED
  BY <1>1, <1>2, <1>3 DEF IInv

\* A step that leaves the inbox alone keeps its invariant.
LEMMA UntouchedIInv == IInv /\ UNCHANGED inboxVars => IInv'
BY DEF IInv, InboxType, ClaimIsHeld, NoneForeseen, NotLaterThanNow, Memory!ProposalsAreKept,
       Memory!DecisionIsStored, Memory!ProposedOnce, inboxVars

\* A new proposal is of today, and a repetition of none within the window.
LEMMA ProposalIInv ==
  ASSUME Memory!MemoryAssumption, IInv, NEW s \in Sessions, NEW c \in Contents,
         Memory!InsertProposal(s, c), UNCHANGED <<stored, decide, hour>>
  PROVE  IInv'
<1> USE DEF IInv, InboxType, Memory!MemoryAssumption
<1> DEFINE row == [session |-> s, content |-> c, at |-> hour, status |-> "proposed"]
<1>1. row \in Row /\ prop' = Append(prop, row) /\ Len(prop) < MaxProposals
  BY DEF Memory!InsertProposal, Row, Statuses
<1>2. /\ prop' \in Seq(Row) /\ Len(prop') = Len(prop) + 1
      /\ \A i \in DOMAIN prop : prop'[i] = prop[i]
      /\ prop'[Len(prop) + 1] = row
      /\ DOMAIN prop = 1 .. Len(prop) /\ DOMAIN prop' = 1 .. (Len(prop) + 1)
  <2> HIDE DEF row
  <2> QED
    BY <1>1
<1>3. InboxType'
  BY <1>1, <1>2
<1>4. ClaimIsHeld'
  BY <1>2 DEF ClaimIsHeld
<1>5. NoneForeseen'
  <2>1. Memory!Proposals \subseteq Nat /\ Len(prop) \in Nat
    BY DEF Memory!Proposals
  <2> QED
    BY <1>2, <2>1 DEF NoneForeseen
<1>6. NotLaterThanNow'
  BY <1>2 DEF NotLaterThanNow
<1>7. Memory!DecisionIsStored'
  <2>1. stored[Len(prop) + 1] = 0
    BY <1>1 DEF NoneForeseen, Memory!Proposals
  <2> QED
    BY <1>2, <2>1 DEF Memory!ProposalsAreKept, Memory!DecisionIsStored
<1>8. Memory!ProposedOnce'
  <2> SUFFICES ASSUME NEW i \in DOMAIN prop', NEW j \in DOMAIN prop', i < j,
                      prop'[i].session = prop'[j].session, prop'[i].content = prop'[j].content
               PROVE  prop'[i].at + Window < prop'[j].at
    BY DEF Memory!ProposedOnce
  <2>1. i \in DOMAIN prop
    BY <1>2
  <2>2. CASE j \in DOMAIN prop
    BY <1>2, <2>1, <2>2 DEF Memory!ProposalsAreKept, Memory!ProposedOnce
  <2>3. CASE j = Len(prop) + 1
    <3>1. ~(prop[i].at + Window >= hour)
      BY <1>2, <2>1, <2>3 DEF Memory!InsertProposal, Memory!Duplicate
    <3>2. prop[i].at \in Nat /\ prop'[i].at = prop[i].at /\ prop'[j].at = hour
      BY <1>2, <2>1, <2>3, RowsAreTyped
    <3> QED
      BY <3>1, <3>2
  <2> QED
    BY <1>2, <2>2, <2>3
<1> QED
  BY <1>3, <1>4, <1>5, <1>6, <1>7, <1>8 DEF Memory!ProposalsAreKept

\* A candidate or a lesson becomes a proposal or an entry of its own.
LEMMA PersistIInv ==
  ASSUME Memory!MemoryAssumption, IInv, NEW s \in Sessions, NEW c \in Contents, Memory!Persist(s, c)
  PROVE  IInv'
BY ProposalIInv, UntouchedIInv DEF Memory!Persist, inboxVars

\* The status of one proposal changes: what is left to show.
LEMMA StatusIInv ==
  ASSUME Memory!MemoryAssumption, IInv,
         NEW p \in DOMAIN prop, NEW st \in Statuses, Memory!SetStatus(p, st),
         decide' \in Decisions, UNCHANGED <<stored, hour>>, ClaimIsHeld',
         st \in {"proposed", "rejected"} => stored[p] = 0,
         st \in {"accepted", "edited"} => stored[p] = 1
  PROVE  IInv'
<1> USE DEF IInv, InboxType, Memory!MemoryAssumption
<1>1. /\ prop' \in Seq(Row) /\ Len(prop') = Len(prop) /\ DOMAIN prop' = DOMAIN prop
      /\ \A i \in DOMAIN prop : /\ prop'[i].session = prop[i].session
                                /\ prop'[i].content = prop[i].content
                                /\ prop'[i].at = prop[i].at
                                /\ prop'[i].status = IF i = p THEN st ELSE prop[i].status
  <2> DEFINE row == [prop[p] EXCEPT !.status = st]
  <2>1. prop[p] \in Row
    BY RowsAreTyped
  <2>2. /\ row \in Row /\ row.status = st /\ row.at = prop[p].at
        /\ row.session = prop[p].session /\ row.content = prop[p].content
    BY <2>1 DEF Row
  <2>3. prop' = [prop EXCEPT ![p] = row]
    BY DEF Memory!SetStatus
  <2> QED
    <3> HIDE DEF row
    <3> QED
      BY <2>2, <2>3
<1>2. InboxType' /\ NoneForeseen' /\ NotLaterThanNow'
  BY <1>1 DEF NoneForeseen, NotLaterThanNow
<1>3. Memory!DecisionIsStored'
  BY <1>1 DEF Memory!ProposalsAreKept, Memory!DecisionIsStored
<1>4. Memory!ProposedOnce'
  BY <1>1 DEF Memory!ProposalsAreKept, Memory!ProposedOnce
<1> QED
  BY <1>2, <1>3, <1>4 DEF Memory!ProposalsAreKept

----------------------------------------------------------------------------
\* The steps of a decision.
LEMMA DecidingIInv == ASSUME Memory!MemoryAssumption, IInv, Memory!Deciding PROVE IInv'
<1> USE DEF IInv, InboxType, Memory!MemoryAssumption
<1>0. \A p \in DOMAIN prop : prop[p] \in Row /\ p \in Memory!Proposals
  BY DEF Memory!Proposals
<1>1. ASSUME NEW p \in DOMAIN prop, Memory!Reject(p) PROVE IInv'
  <2>1. stored[p] = 0
    BY <1>1 DEF Memory!Reject, Memory!ProposalsAreKept, Memory!DecisionIsStored
  <2>2. ClaimIsHeld'
    BY <1>1 DEF Memory!Reject, ClaimIsHeld
  <2> QED
    BY <1>1, <2>1, <2>2, StatusIInv DEF Memory!Reject, Statuses, Memory!Decided
<1>2. ASSUME NEW p \in DOMAIN prop, Memory!Claim(p) PROVE IInv'
  <2>1. stored[p] = 0
    BY <1>2 DEF Memory!Claim, Memory!Claimable, Memory!ProposalsAreKept, Memory!DecisionIsStored
  <2>2. prop'[p].status = "accepting" /\ DOMAIN prop' = DOMAIN prop
    BY <1>0, <1>2 DEF Memory!Claim, Memory!SetStatus, Row
  <2>3. decide' \in Decisions /\ decide'.p = p /\ decide'.pc = "store"
    BY <1>0, <1>2 DEF Memory!Claim, Decisions
  <2>4. ClaimIsHeld'
    BY <1>2, <2>1, <2>2, <2>3 DEF Memory!Claim, ClaimIsHeld
  <2> QED
    BY <1>2, <2>3, <2>4, StatusIInv DEF Memory!Claim, Statuses
<1>3. ASSUME Memory!StoreClaimed PROVE IInv'
  <2>1. /\ decide.p \in DOMAIN prop /\ prop[decide.p].status = "accepting" /\ stored[decide.p] = 0
        /\ decide.p \in Memory!Proposals
    BY <1>0, <1>3 DEF Memory!StoreClaimed, ClaimIsHeld
  <2>2. /\ decide' \in Decisions /\ decide'.p = decide.p /\ decide'.pc = "finalize"
        /\ stored' \in [Memory!Proposals -> Nat] /\ stored'[decide.p] = 1
        /\ \A p \in Memory!Proposals : p # decide.p => stored'[p] = stored[p]
    BY <1>3, <2>1 DEF Memory!StoreClaimed, Decisions
  <2>3. InboxType' /\ ClaimIsHeld' /\ NoneForeseen' /\ NotLaterThanNow'
    BY <1>3, <2>1, <2>2 DEF Memory!StoreClaimed, ClaimIsHeld, NoneForeseen, NotLaterThanNow
  <2>4. Memory!ProposalsAreKept'
    BY <1>0, <1>3, <2>1, <2>2 DEF Memory!StoreClaimed, Memory!ProposalsAreKept,
        Memory!DecisionIsStored, Memory!ProposedOnce
  <2> QED
    BY <2>3, <2>4
<1>4. ASSUME Memory!StoreFails PROVE IInv'
  <2>1. decide' \in Decisions /\ decide'.p = decide.p /\ decide'.pc = "revert"
    BY <1>4 DEF Memory!StoreFails, Decisions
  <2>2. InboxType' /\ ClaimIsHeld' /\ NoneForeseen' /\ NotLaterThanNow'
    BY <1>4, <2>1 DEF Memory!StoreFails, Memory!inbox, ClaimIsHeld, NoneForeseen, NotLaterThanNow
  <2>3. Memory!ProposalsAreKept'
    BY <1>4 DEF Memory!StoreFails, Memory!inbox, Memory!ProposalsAreKept,
        Memory!DecisionIsStored, Memory!ProposedOnce
  <2> QED
    BY <2>2, <2>3
<1>5. ASSUME NEW from \in {"revert", "finalize"}, NEW st \in Statuses, Memory!EndClaim(from, st),
             from = "revert" => st = "proposed", from = "finalize" => st \in {"accepted", "edited"}
      PROVE  IInv'
  <2>1. /\ decide.p \in DOMAIN prop
        /\ stored[decide.p] = IF from = "finalize" THEN 1 ELSE 0
    BY <1>5 DEF Memory!EndClaim, ClaimIsHeld
  <2>2. decide' \in Decisions /\ decide'.pc = "idle"
    BY <1>5 DEF Memory!EndClaim, Memory!NoDecision, Decisions
  <2>3. ClaimIsHeld'
    BY <2>2 DEF ClaimIsHeld
  <2>4. CASE Memory!SetStatus(decide.p, st)
    BY <1>5, <2>1, <2>2, <2>3, <2>4, StatusIInv DEF Memory!EndClaim
  <2>5. CASE UNCHANGED prop
    <3>1. InboxType' /\ NoneForeseen' /\ NotLaterThanNow'
      BY <1>5, <2>2, <2>5 DEF Memory!EndClaim, NoneForeseen, NotLaterThanNow
    <3>2. Memory!ProposalsAreKept'
      BY <1>5, <2>5 DEF Memory!EndClaim, Memory!ProposalsAreKept, Memory!DecisionIsStored,
          Memory!ProposedOnce
    <3> QED
      BY <2>3, <3>1, <3>2
  <2> QED
    BY <1>5, <2>4, <2>5 DEF Memory!EndClaim
<1>6. CASE Memory!Revert
  BY <1>5, <1>6 DEF Memory!Revert, Statuses
<1>7. CASE Memory!Finalize
  BY <1>5, <1>7 DEF Memory!Finalize, Statuses, Memory!Decided
<1> QED
  BY <1>1, <1>2, <1>3, <1>4, <1>6, <1>7 DEF Memory!Deciding

\* A step that leaves the tasks of the sessions alone keeps their type.
LEMMA UntouchedTasks == CaptureType /\ UNCHANGED Memory!tasks => CaptureType'
BY DEF CaptureType, Memory!tasks

\* The steps of a capture: a proposal, an entry, or neither.
LEMMA CapturingIInv ==
  ASSUME Memory!MemoryAssumption, IInv, CaptureType, NEW s \in Sessions, Memory!Capturing(s)
  PROVE  IInv'
<1>1. CASE Memory!CloseAbruptly(s)
  BY <1>1, UntouchedIInv DEF Memory!CloseAbruptly, Memory!inbox, inboxVars
<1>2. CASE Memory!SessionEnds(s)
  BY <1>2, UntouchedIInv DEF Memory!SessionEnds, Memory!inbox, inboxVars
<1>3. CASE Memory!Drain(s)
  BY <1>3, UntouchedIInv DEF Memory!Drain, Memory!inbox, inboxVars
<1>4. CASE Memory!NextSession(s) \/ Memory!CaptureEnds(s)
  BY <1>4, UntouchedIInv DEF Memory!NextSession, Memory!CaptureEnds, Memory!inbox, inboxVars
<1>5. CASE Memory!Candidate(s)
  <2>1. PICK x \in Memory!Distilled(s), c \in Contents : Memory!Persist(x, c)
    BY <1>5 DEF Memory!Candidate
  <2>2. x \in Sessions
    BY DEF Memory!Distilled, CaptureType, Captures
  <2> QED
    BY <2>1, <2>2, PersistIInv
<1>6. CASE Memory!Lesson(s)
  BY <1>6, PersistIInv, UntouchedIInv DEF Memory!Lesson, Memory!inbox, inboxVars
<1> QED
  BY <1>1, <1>2, <1>3, <1>4, <1>5, <1>6 DEF Memory!Capturing

\* ... and its type.
LEMMA CapturingTypes ==
  ASSUME Memory!MemoryAssumption, InboxType, CaptureType, NEW s \in Sessions, Memory!Capturing(s)
  PROVE  CaptureType'
<1> USE DEF CaptureType, Memory!MemoryAssumption
<1>typed. capture[s] \in Captures
  OBVIOUS
<1>update. ASSUME NEW k \in Captures, capture' = [capture EXCEPT ![s] = k]
      PROVE  capture' \in [Sessions -> Captures]
  BY <1>update
<1>1. CASE Memory!CloseAbruptly(s)
  BY <1>1 DEF Memory!CloseAbruptly, InboxType
<1>2. CASE Memory!SessionEnds(s)
  <2>1. PICK learn \in BOOLEAN :
          \/ capture' = [capture EXCEPT ![s] = [@ EXCEPT !.pc = "drain", !.lesson = learn]]
          \/ capture' = capture
    BY <1>2 DEF Memory!SessionEnds
  <2>2. [capture[s] EXCEPT !.pc = "drain", !.lesson = learn] \in Captures
    BY <1>typed DEF Captures
  <2>3. capture' \in [Sessions -> Captures]
    BY <2>1, <2>2
  <2> QED
    BY <1>2, <2>3 DEF Memory!SessionEnds
<1>3. CASE Memory!Drain(s)
  <2>1. saved' \subseteq [session : Sessions, expires : Nat]
    BY <1>3 DEF Memory!Drain
  <2>2. {row.session : row \in saved'} \subseteq Sessions
    BY <2>1
  <2>3. [capture[s] EXCEPT !.pc = "work", !.todo = {row.session : row \in saved'}] \in Captures
    BY <1>typed, <2>2 DEF Captures
  <2>4. capture' = [capture EXCEPT ![s] = [capture[s] EXCEPT !.pc = "work",
                                             !.todo = {row.session : row \in saved'}]]
    BY <1>3 DEF Memory!Drain
  <2>5. capture' \in [Sessions -> Captures]
    BY <1>update, <2>3, <2>4
  <2> QED
    BY <1>3, <2>1, <2>5 DEF Memory!Drain
<1>4. CASE Memory!NextSession(s)
  BY <1>4 DEF Memory!NextSession, Captures
<1>5. CASE Memory!CaptureEnds(s)
  BY <1>5 DEF Memory!CaptureEnds, Captures
<1>6. CASE Memory!Candidate(s)
  BY <1>6 DEF Memory!Candidate, Memory!Persist
<1>7. CASE Memory!Lesson(s)
  <2>1. open' = open /\ saved' = saved
    BY <1>7 DEF Memory!Lesson, Memory!Persist
  <2>2. [capture[s] EXCEPT !.lesson = FALSE] \in Captures
    BY <1>typed DEF Captures
  <2> QED
    BY <1>7, <2>1, <2>2 DEF Memory!Lesson
<1> QED
  BY <1>1, <1>2, <1>3, <1>4, <1>5, <1>6, <1>7 DEF Memory!Capturing

\* The end of the process ends the decision, and leaves its row claimed.
LEMMA LostIInv == ASSUME IInv, Memory!Lost PROVE IInv'
<1> USE DEF IInv, Memory!Lost, Memory!inbox
<1>1. InboxType' /\ ClaimIsHeld'
  BY DEF InboxType, Decisions, Memory!NoDecision, ClaimIsHeld
<1>2. NoneForeseen' /\ NotLaterThanNow'
  BY DEF NoneForeseen, NotLaterThanNow
<1>3. Memory!ProposalsAreKept'
  BY DEF Memory!ProposalsAreKept, Memory!DecisionIsStored, Memory!ProposedOnce
<1> QED
  BY <1>1, <1>2, <1>3

\* ... and every task that was under way.
LEMMA LostTypes == ASSUME CaptureType, Memory!Lost PROVE CaptureType'
<1>1. \A k \in Captures : Memory!Ended(k) \in Captures
  BY DEF Memory!Ended, Captures
<1> QED
  BY <1>1 DEF CaptureType, Memory!Lost

----------------------------------------------------------------------------
\* The sessions and tasks start with their types.
LEMMA InitTypes == Memory!Init => CaptureType
BY DEF Memory!Init, CaptureType, Captures, Memory!NoCapture

\* Every step keeps the inductive invariant.
LEMMA StepIInv ==
  ASSUME Memory!MemoryAssumption, IInv, CaptureType, [Memory!Next]_(Memory!vars)
  PROVE  IInv' /\ CaptureType'
<1>1. CASE Memory!Write \/ Memory!Forget \/ Memory!SyncLesson \/ Memory!SyncDelete
  BY <1>1, UntouchedIInv, UntouchedTasks DEF Memory!Write, Memory!Forget, Memory!SyncLesson,
      Memory!SyncDelete, Memory!inbox, inboxVars
<1>2. CASE Memory!Deciding
  <2>1. UNCHANGED Memory!tasks
    BY <1>2 DEF Memory!Deciding, Memory!Reject, Memory!Claim, Memory!StoreClaimed,
        Memory!StoreFails, Memory!Revert, Memory!Finalize, Memory!EndClaim
  <2> QED
    BY <1>2, <2>1, DecidingIInv, UntouchedTasks
<1>3. ASSUME NEW s \in Sessions, Memory!Capturing(s) PROVE IInv' /\ CaptureType'
  BY <1>3, CapturingIInv, CapturingTypes DEF IInv
<1>4. CASE Memory!Restart \/ Memory!ForgetDies
  BY <1>4, LostIInv, LostTypes DEF Memory!Restart, Memory!ForgetDies
<1>5. CASE Memory!Tick
  <2>1. InboxType' /\ ClaimIsHeld' /\ NoneForeseen'
    BY <1>5 DEF Memory!Tick, Memory!inbox, IInv, InboxType, ClaimIsHeld, NoneForeseen
  <2>2. NotLaterThanNow'
    BY <1>5, RowsAreTyped DEF Memory!Tick, Memory!inbox, IInv, InboxType, NotLaterThanNow
  <2>3. Memory!ProposalsAreKept'
    BY <1>5 DEF Memory!Tick, Memory!inbox, IInv, Memory!ProposalsAreKept,
        Memory!DecisionIsStored, Memory!ProposedOnce
  <2> QED
    BY <1>5, <2>1, <2>2, <2>3, UntouchedTasks DEF Memory!Tick, IInv
<1>6. CASE UNCHANGED Memory!vars
  BY <1>6, UntouchedIInv, UntouchedTasks DEF Memory!vars, inboxVars, Memory!tasks
<1> QED
  BY <1>1, <1>2, <1>3, <1>4, <1>5, <1>6 DEF Memory!Next

\* Whatever fails or dies between its claim, its entry and the end of its claim,
\* a proposal makes one entry at most, and none while it is open or rejected;
\* and no memory of a session is proposed twice within the window.
THEOREM InboxIsKept == Memory!Spec => []ProposalsAreKept
<1>1. IInv => ProposalsAreKept
  BY DEF IInv, ProposalsAreKept
<1>2. Memory!Init => IInv /\ CaptureType
  BY HubAssumption, InitIInv, InitTypes
<1>3. IInv /\ CaptureType /\ [Memory!Next]_(Memory!vars) => IInv' /\ CaptureType'
  BY HubAssumption, StepIInv
<1> QED
  BY <1>1, <1>2, <1>3, PTL DEF Memory!Spec
=============================================================================
