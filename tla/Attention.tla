------------------------------ MODULE Attention ------------------------------
(***************************************************************************)
(* The poller that watches the screens of the running tasks (tick and      *)
(* process_task, done_detection.rs) and the queue of panes that claim the  *)
(* human (attention.rs), with the dismissals kept on record.  A tick lists *)
(* the running rows, then takes one task after the other: it reads the     *)
(* screen, classifies it, writes the row and asks for attention.           *)
(*                                                                         *)
(* Stamps are compared, never shown: late[p] says that the dismissal of p  *)
(* is younger than the row's updated_at, seen[p].late that it is younger   *)
(* than the updated_at of the row the tick has listed.                     *)
(***************************************************************************)
EXTENDS Naturals, FiniteSets

CONSTANTS Panes,   \* one task in each
          Debounce \* IDLE_DEBOUNCE_TICKS

AttentionAssumption == Debounce \in Nat \ {0} /\ IsFiniteSet(Panes)

Prompts == {"trust", "danger"} \* a prompt that may be confirmed unattended, and one that may not
Screens == Prompts \cup {"work", "idle"}
Quiet == 0
HasResult == 1
NeedsInput == 2
NotListed == [pc |-> "no", needs |-> FALSE, late |-> FALSE, moved |-> FALSE,
              tail |-> "work"]

VARIABLES screen,  \* what each pane shows
          moved,   \* panes whose screen changed since the poller last read it, or has no fingerprint
          row,     \* orchestration_tasks: state and needs_input
          streak,  \* PollerState.idle_streak
          seen,    \* what the tick under way knows of each task
          on,      \* panes with a row in attention_dismissed
          late,    \* panes whose dismissal is younger than their row
          claim,   \* AttentionQueue: the priority of the pane's unattended entry
          hushed,  \* panes that show what they showed when they were dismissed
          entered  \* Enters sent to what each pane shows

vars == <<screen, moved, row, streak, seen, on, late, claim, hushed, entered>>

TypeOK ==
  /\ screen \in [Panes -> Screens]
  /\ {moved, on, late, hushed} \subseteq SUBSET Panes
  /\ row \in [Panes -> [state : {"running", "awaiting_review", "canceled"}, needs : BOOLEAN]]
  /\ streak \in [Panes -> 0 .. Debounce]
  /\ seen \in [Panes -> [pc : {"no", "listed", "read"}, needs : BOOLEAN, late : BOOLEAN,
                         moved : BOOLEAN, tail : Screens]]
  /\ claim \in [Panes -> {Quiet, HasResult, NeedsInput}]
  /\ entered \in [Panes -> 0 .. 2]

Init == /\ screen = [p \in Panes |-> "work"]
        /\ moved = Panes
        /\ row = [p \in Panes |-> [state |-> "running", needs |-> FALSE]]
        /\ streak = [p \in Panes |-> 0]
        /\ seen = [p \in Panes |-> NotListed]
        /\ on = {} /\ late = {} /\ hushed = {}
        /\ claim = [p \in Panes |-> Quiet]
        /\ entered = [p \in Panes |-> 0]

Running(p) == row[p].state = "running"

----------------------------------------------------------------------------
\* The agents and the human

\* The agent goes on, asks, or waits; an idle screen may still grow.
Show(p, s) ==
  /\ Running(p)
  /\ \/ s # screen[p]
     \/ s = "idle" /\ p \notin moved
  /\ screen' = [screen EXCEPT ![p] = s]
  /\ moved' = moved \cup {p}
  /\ hushed' = hushed \ {p}
  /\ entered' = [entered EXCEPT ![p] = 0]
  /\ UNCHANGED <<row, streak, seen, on, late, claim>>

\* attention_ack: the entry is attended and the dismissal is put on record.
Dismiss(p) ==
  /\ claim[p] # Quiet
  /\ claim' = [claim EXCEPT ![p] = Quiet]
  /\ on' = on \cup {p} /\ late' = late \cup {p}
  /\ seen' = [seen EXCEPT ![p].late = @ \/ seen[p].pc # "no"]
  /\ hushed' = hushed \cup {p}
  /\ UNCHANGED <<screen, moved, row, streak, entered>>

\* attention_command, "next": the most urgent entry is attended.
NextByPriority(p) ==
  /\ claim[p] # Quiet /\ \A q \in Panes : claim[q] <= claim[p]
  /\ claim' = [claim EXCEPT ![p] = Quiet]
  /\ UNCHANGED <<screen, moved, row, streak, seen, on, late, hushed, entered>>

\* The task is canceled, and its row with it.
Cancel(p) ==
  /\ Running(p)
  /\ row' = [row EXCEPT ![p].state = "canceled"]
  /\ late' = late \ {p}
  /\ UNCHANGED <<screen, moved, streak, seen, on, claim, hushed, entered>>

----------------------------------------------------------------------------
\* The poller

\* list_tasks, at the head of the tick.
ListTasks ==
  /\ \A p \in Panes : seen[p].pc = "no"
  /\ \E p \in Panes : Running(p)
  /\ seen' = [p \in Panes |->
                IF Running(p)
                THEN [NotListed EXCEPT !.pc = "listed", !.needs = row[p].needs, !.late = p \in late]
                ELSE NotListed]
  /\ UNCHANGED <<screen, moved, row, streak, on, late, claim, hushed, entered>>

ReadTail(p) ==
  /\ seen[p].pc = "listed" /\ \A q \in Panes : seen[q].pc # "read"
  /\ seen' = [seen EXCEPT ![p].pc = "read", ![p].tail = screen[p], ![p].moved = p \in moved]
  /\ moved' = moved \ {p}
  /\ UNCHANGED <<screen, row, streak, on, late, claim, hushed, entered>>

\* Mutant: any dismissal on record counts, however old.
SuppressedForEver(p) == p \in on

\* is_dismissed, against the row as it was listed.
Suppressed(p) == p \in on /\ seen[p].late

\* tick: a claim is suppressed, or it erases the dismissal and is enqueued.
Ask(p, priority) ==
  IF Suppressed(p)
  THEN UNCHANGED <<on, claim>>
  ELSE /\ on' = on \ {p}
       /\ claim' = [claim EXCEPT ![p] = IF @ < priority THEN priority ELSE @]

\* Every write of the row stamps it.
Write(p, new) == row' = [row EXCEPT ![p] = new] /\ late' = late \ {p}
Leave(p) == seen' = [seen EXCEPT ![p] = NotListed]

\* Mutant: a prompt that stays is confirmed again at every tick.
MayConfirmAgain(p) == seen[p].tail = "trust"

\* handle_needs_input: only a trust prompt, and only when it is new.
MayConfirm(p) == seen[p].tail = "trust" /\ ~seen[p].needs

NeedInput(p) ==
  /\ Write(p, [row[p] EXCEPT !.needs = TRUE])
  /\ \/ Ask(p, NeedsInput) \* not to be confirmed, or auto-confirm is off or throttled
        /\ UNCHANGED entered
     \/ /\ MayConfirm(p)
        /\ entered' = [entered EXCEPT ![p] = IF Running(p) /\ @ < 2 THEN @ + 1 ELSE @]
        /\ UNCHANGED <<on, claim>>

Work(p) ==
  /\ IF seen[p].needs THEN Write(p, [row[p] EXCEPT !.needs = FALSE]) ELSE UNCHANGED <<row, late>>
  /\ UNCHANGED <<on, claim, entered>>

\* handle_idle_transition, if the task is still running.
Finish(p) ==
  /\ IF Running(p)
     THEN Write(p, [state |-> "awaiting_review", needs |-> FALSE]) /\ Ask(p, HasResult)
     ELSE UNCHANGED <<row, late, on, claim>>
  /\ UNCHANGED entered

\* process_task: a working screen ...
ProcessWork(p) ==
  /\ seen[p].pc = "read" /\ seen[p].tail = "work"
  /\ streak' = [streak EXCEPT ![p] = 0]
  /\ moved' = moved \cup {p}
  /\ Work(p) /\ Leave(p)
  /\ UNCHANGED <<screen, hushed>>

\* ... a prompt ...
ProcessPrompt(p) ==
  /\ seen[p].pc = "read" /\ seen[p].tail \in Prompts
  /\ streak' = [streak EXCEPT ![p] = 0]
  /\ moved' = moved \cup {p}
  /\ NeedInput(p) /\ Leave(p)
  /\ UNCHANGED <<screen, hushed>>

\* ... an idle screen that has not been still for long enough ...
ProcessDebounce(p) ==
  /\ seen[p].pc = "read" /\ seen[p].tail = "idle"
  /\ seen[p].moved \/ streak[p] + 1 < Debounce
  /\ streak' = [streak EXCEPT ![p] = IF seen[p].moved THEN 1 ELSE @ + 1]
  /\ Leave(p)
  /\ UNCHANGED <<screen, moved, row, on, late, claim, hushed, entered>>

\* ... and one that has; the meta engine may take it for something else.
ProcessIdle(p) ==
  /\ seen[p].pc = "read" /\ seen[p].tail = "idle"
  /\ ~seen[p].moved /\ streak[p] + 1 >= Debounce
  /\ streak' = [streak EXCEPT ![p] = 0]
  /\ moved' = moved \cup {p}
  /\ Finish(p) \/ Work(p) \/ NeedInput(p)
  /\ Leave(p)
  /\ UNCHANGED <<screen, hushed>>

Process(p) == ProcessWork(p) \/ ProcessPrompt(p) \/ ProcessDebounce(p) \/ ProcessIdle(p)

Next ==
  \/ ListTasks
  \/ \E p \in Panes :
       \/ ReadTail(p) \/ ProcessWork(p) \/ ProcessPrompt(p) \/ ProcessDebounce(p) \/ ProcessIdle(p)
       \/ Dismiss(p) \/ NextByPriority(p) \/ Cancel(p)
       \/ \E s \in Screens : Show(p, s)

\* run_poller_loop: the ticks go on, and so does each tick.
Fairness == WF_vars(ListTasks) /\ \A p \in Panes : WF_vars(ReadTail(p)) /\ WF_vars(Process(p))

Spec == Init /\ [][Next]_vars /\ Fairness
----------------------------------------------------------------------------
\* What the human may rely on

Asking(p) == Running(p) /\ screen[p] \in Prompts

\* Auto-confirm sends one Enter to a prompt, however many ticks it stays on the
\* screen, and whatever the human and the agent do between the ticks.
OneEnterPerPrompt == \A p \in Panes : entered[p] <= 1

\* A dismissal hushes what was on the screen, not what comes next: an agent that
\* asks something new reaches the queue, or its prompt goes away.
PromptClaimsAttention ==
  \A p \in Panes : []<>(Asking(p) /\ p \notin hushed => claim[p] = NeedsInput)

\* Every prompt is answered at most once and gets through to somebody.
PromptsAreHandled == []OneEnterPerPrompt /\ PromptClaimsAttention

\* attention.rs: to dismiss is "do not disturb until there is new activity".
\* The poller stamps the row at every tick that sees the prompt, so that the
\* next tick takes its own stamp for activity.
DismissalLasts == [][\A p \in Panes : p \in hushed /\ p \in hushed' => claim'[p] = Quiet]_vars

\* done_detection.rs: a destructive prompt is never confirmed unattended.  The
\* Enter goes to what the pane shows when it is written, not to what was read.
DestructiveNeverConfirmed ==
  [][\A p \in Panes : entered'[p] > entered[p] => screen[p] # "danger"]_vars
=============================================================================
