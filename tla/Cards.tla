-------------------------------- MODULE Cards --------------------------------
(***************************************************************************)
(* The cards of the inbox and everybody who decides them: the dashboard    *)
(* (decide_card, list_cards, card_record_activity of commands.rs), signed  *)
(* frames of the phone (mobile_bridge.rs) and signed callbacks of Telegram *)
(* (telegram_inbound.rs), and the activity the merge watcher reports.      *)
(* A frame may be delayed, duplicated and reordered on its way; it carries *)
(* a nonce and the sender's time, which may be ahead of ours.  The nonces  *)
(* that were seen are in memory: a restart forgets them.                   *)
(*                                                                         *)
(* Time is relative: a frame has an age, a snooze a rest.  The dashboard   *)
(* writes a decision and its audit event in one transaction; a frame's     *)
(* decision and its event are two writes, between which we may crash.      *)
(***************************************************************************)
EXTENDS Integers, Sequences, SequencesExt, FiniteSets

CONSTANTS CardIds, Keys, \* cards; idempotency keys of decisions of the dashboard
          Closing,       \* decisions that close a card, "approved" among them
          Frames,        \* frames and callbacks that may be sent, by nonce
          Skew,          \* MAX_SKEW_SECS in ticks
          CacheSize,     \* NONCE_CACHE_SIZE
          SnoozeTicks    \* how long a snooze of the dashboard lasts

Awake == SnoozeTicks + 1 \* snooze_until is null; else the ticks that are left, 0 when it is past
Unsent == 3 * Skew + 2
NoFrame == "none"

CardsAssumption ==
  Skew \in Nat \ {0} /\ {CacheSize, SnoozeTicks} \subseteq Nat \ {0} /\ NoFrame \notin Frames

VARIABLES card,   \* cards: [status, decision, snooze, reopened]
          log,    \* events: card.decided, as <<card, key, decision>>
          frame,  \* each frame: [age, card, decision, acted]
          cache,  \* the nonces seen since the start, the latest first
          update  \* the frame whose decision is being written, by its handler

cardVars == <<card, log, frame, cache, update>>

\* When a frame acted: before the last start, once since, or more than once since.
Acts == {"never", "before", "now", "again"}

\* What the user may do with a card in the dashboard.
Decisions == Closing \cup {"snoozed", "dismissed", "read"}

Undecided == [status |-> "open", decision |-> "none", snooze |-> Awake, reopened |-> FALSE]

TypeOK ==
  /\ card \in [CardIds -> [status : {"open", "closed"}, decision : Decisions \cup {"none"},
                           snooze : 0 .. SnoozeTicks \cup {Awake}, reopened : BOOLEAN]]
  /\ log \subseteq CardIds \X Keys \X Decisions
  /\ \A f \in Frames : frame[f].age \in -Skew .. 3 * Skew + 1 \cup {Unsent} /\ frame[f].acted \in Acts
  /\ cache \in Seq(Frames) /\ Len(cache) <= CacheSize
  /\ update \in Frames \cup {NoFrame}

Init == /\ card = [c \in CardIds |-> Undecided]
        /\ log = {} /\ cache = <<>> /\ update = NoFrame
        /\ frame \in [Frames -> [age : {Unsent}, card : CardIds,
                                 decision : {"approved", "snoozed"}, acted : {"never"}]]

----------------------------------------------------------------------------
\* The dashboard

\* What a decision makes of a card: "read" and "dismissed" take it out of the
\* list only, and leave its snooze; the first is no decision of the card's.
Decided(c, decision) ==
  CASE decision = "read" -> c
    [] decision = "dismissed" -> [c EXCEPT !.decision = decision, !.status = "open"]
    [] decision = "snoozed" ->
         [c EXCEPT !.decision = decision, !.status = "open", !.snooze = SnoozeTicks, !.reopened = FALSE]
    [] OTHER -> [c EXCEPT !.decision = decision, !.status = "closed", !.snooze = Awake]

\* Mutant: the event is written after the transaction, and may fail alone.
DecideUnlogged(c, key, decision) ==
  /\ ~\E l \in log : l[1] = c /\ l[2] = key
  /\ card' = [card EXCEPT ![c] = Decided(@, decision)]
  /\ log' \in {log, log \cup {<<c, key, decision>>}}
  /\ UNCHANGED <<frame, cache, update>>

\* decide_card: a key that was seen for this card changes nothing.
Decide(c, key, decision) ==
  /\ ~\E l \in log : l[1] = c /\ l[2] = key
  /\ card' = [card EXCEPT ![c] = Decided(@, decision)]
  /\ log' = log \cup {<<c, key, decision>>}
  /\ UNCHANGED <<frame, cache, update>>

\* Mutant: only a card without a decision wakes.
ListCardsUndecided ==
  /\ card' = [c \in CardIds |-> IF card[c].snooze = 0 /\ card[c].decision = "none"
                                THEN [card[c] EXCEPT !.snooze = Awake] ELSE card[c]]
  /\ UNCHANGED <<log, frame, cache, update>>

\* list_cards: a snooze that is past is taken away.
ListCards ==
  /\ card' = [c \in CardIds |-> IF card[c].snooze = 0 /\ card[c].status = "open"
                                THEN [card[c] EXCEPT !.snooze = Awake] ELSE card[c]]
  /\ UNCHANGED <<log, frame, cache, update>>

\* card_record_activity, and the merge watcher for its open cards: a snooze
\* that is not past ends, with a badge.
RecordActivity(c) ==
  /\ card[c].snooze \notin {0, Awake}
  /\ card' = [card EXCEPT ![c].snooze = Awake, ![c].reopened = TRUE]
  /\ UNCHANGED <<log, frame, cache, update>>

----------------------------------------------------------------------------
\* Frames.  A frame whose sender's clock is ahead is good for twice the skew.  The
\* senders make no more of them than the cache holds while one may be good and
\* those received meanwhile may have been under way: 8192 in four minutes.

Recent(f) == frame[f].age <= 3 * Skew

Send(f, age) ==
  /\ frame[f].age = Unsent
  /\ Cardinality({g \in Frames : Recent(g)}) < CacheSize
  /\ frame' = [frame EXCEPT ![f].age = age]
  /\ UNCHANGED <<card, log, cache, update>>

\* Mutant: the time of a frame is not looked at.
VerifyUndated(f) == frame[f].age # Unsent /\ f \notin ToSet(cache)

\* verify_frame, verify_signed: first the time, then the signature, then the nonce.
Verify(f) == frame[f].age \in -Skew .. Skew /\ f \notin ToSet(cache)

\* A frame arrives, for the first time or again: its nonce is put in front, and
\* the last one falls out.
Receive(f) ==
  /\ update = NoFrame /\ Verify(f)
  /\ cache' = SubSeq(<<f>> \o cache, 1, IF Len(cache) < CacheSize THEN Len(cache) + 1 ELSE CacheSize)
  /\ update' = f
  /\ UNCHANGED <<card, log, frame>>

\* apply_approval, handle_callback: whatever the card's present decision is.
ApplyApproval ==
  /\ update # NoFrame
  /\ LET f == frame[update] IN
       card' = [card EXCEPT ![f.card].decision = f.decision,
                            ![f.card].status = IF f.decision = "snoozed" THEN "open" ELSE "closed"]
  /\ frame' = [frame EXCEPT ![update].acted = IF @ \in {"never", "before"} THEN "now" ELSE "again"]
  /\ update' = NoFrame
  /\ UNCHANGED <<log, cache>>

\* The database refuses: the nonce is spent, the decision is not made.
UpdateFails ==
  /\ update # NoFrame
  /\ update' = NoFrame
  /\ UNCHANGED <<card, log, frame, cache>>

\* The application crashes and starts again, the bridge and the inbound with it:
\* their nonces were in memory.
Restart ==
  /\ cache' = <<>> /\ update' = NoFrame
  /\ frame' = [f \in Frames |-> IF frame[f].acted = "never"
                                THEN frame[f] ELSE [frame[f] EXCEPT !.acted = "before"]]
  /\ UNCHANGED <<card, log>>

Tick ==
  /\ frame' = [f \in Frames |-> IF Recent(f) THEN [frame[f] EXCEPT !.age = @ + 1] ELSE frame[f]]
  /\ card' = [c \in CardIds |-> IF card[c].snooze \in 1 .. SnoozeTicks
                                THEN [card[c] EXCEPT !.snooze = @ - 1] ELSE card[c]]
  /\ UNCHANGED <<log, cache, update>>

Next ==
  \/ \E c \in CardIds : \/ \E k \in Keys, d \in Decisions : Decide(c, k, d)
                        \/ RecordActivity(c)
  \/ \E f \in Frames : Receive(f) \/ \E age \in -Skew .. 0 : Send(f, age)
  \/ ListCards \/ ApplyApproval \/ UpdateFails \/ Restart \/ Tick

\* The inbox polls list_cards, and time goes on.
Fairness == WF_cardVars(ListCards) /\ WF_cardVars(Tick)

Spec == Init /\ [][Next]_cardVars /\ Fairness
----------------------------------------------------------------------------
\* What the inbox promises

\* However often the network delivers a frame, and however late, it decides at
\* most once between two starts: without a restart an old approval never comes
\* back over a later decision.  (After one, while its time is good, it may.)
FrameActsOnce == \A f \in Frames : frame[f].acted # "again"

\* A decision no frame made is on the audit trail: the two are one transaction.
DecisionIsLogged ==
  \A c \in CardIds : card[c].decision # "none" =>
    \/ \E k \in Keys : <<c, k, card[c].decision>> \in log
    \/ \E f \in Frames : /\ frame[f].acted # "never" /\ frame[f].card = c
                        /\ frame[f].decision = card[c].decision

\* A frame decides once between two starts, and every decision is on record.
DecisionsAreKept == FrameActsOnce /\ DecisionIsLogged

\* A card that was put to sleep comes back by itself, unless it is closed.
SnoozeEnds ==
  \A c \in CardIds : []<>(card[c].snooze = Awake \/ card[c].status = "closed")
=============================================================================
