------------------------------- MODULE Windows -------------------------------
(***************************************************************************)
(* Detached windows: the layout on record (layout_config.rs), the registry *)
(* of live windows with its settling marks (window_registry.rs), and the   *)
(* webviews of the desktop.  A pane leaves Main for a window of its own by *)
(* window_open_detached and comes back by window_close, the re-attach      *)
(* button, or by the X of the window, whose handler (lib.rs) prevents the  *)
(* close and lets a task of the async runtime settle the window first.     *)
(*                                                                         *)
(* Commands and window events share the main thread; the tasks do not.     *)
(* window_tx_lock makes a settle exclude another settle and an opening,    *)
(* but not the handler of the X.  Every writer modelled here holds that    *)
(* lock, so that the compare-and-swap of save never finds it stale; the    *)
(* command layout_config_save does not, and nothing in the front end calls *)
(* it.  Trees of panes are sets (LayoutTree has them as trees).            *)
(***************************************************************************)
EXTENDS Naturals

CONSTANTS Panes,       \* ids of panes
          MaxDetached, \* bound on the detached windows
          Tasks,       \* settle tasks that may be under way at once
          DbFails,     \* TRUE: the layout may fail to be saved
          Restarts     \* TRUE: the application may end and start again

WindowsAssumption ==
  /\ MaxDetached \in Nat
  /\ {DbFails, Restarts} \subseteq BOOLEAN

Main == 0
Labels == 1 .. MaxDetached
Idle == [pc |-> "idle", label |-> Main]

VARIABLES layout,   \* layout_config: the panes of each window on record
          reg,      \* WindowRegistry.by_label, without Main
          settling, \* WindowRegistry.settling
          open,     \* webviews of detached windows
          closeReq, \* CloseRequested events on their way to the main thread
          task      \* what each settle task is about to do, and to which label

vars == <<layout, reg, settling, open, closeReq, task>>

TypeOK ==
  /\ \E D \in SUBSET Labels : layout \in [D \cup {Main} -> SUBSET Panes]
  /\ {reg, settling, open, closeReq} \subseteq SUBSET Labels
  /\ task \in [Tasks -> [pc : {"idle", "begin", "persist", "remove", "close", "end"},
                         label : Labels \cup {Main}]]

Init == /\ layout = [w \in {Main} |-> Panes]
        /\ reg = {} /\ settling = {} /\ open = {} /\ closeReq = {}
        /\ task = [t \in Tasks |-> Idle]

\* window_tx_lock: nobody is inside settle_detached_window.
TxFree == \A t \in Tasks : task[t].pc \notin {"persist", "remove"}

Detached == DOMAIN layout \ {Main}

\* next_detached_key: the least number that is free in the layout.
NextKey(l) == l \notin Detached /\ \A k \in 1 .. l - 1 : k \in Detached

----------------------------------------------------------------------------
\* window_open_detached: a dry run, the webview, then the layout and the
\* registry.  Nothing happens if a webview of that name is still there.

DetachPane(p, l) ==
  layout' = [w \in DOMAIN layout \cup {l} |->
               IF w = l THEN {p} ELSE IF w = Main THEN layout[w] \ {p} ELSE layout[w]]

OpenDetached(p) ==
  \E l \in Labels :
    /\ TxFree /\ p \in layout[Main] /\ NextKey(l) /\ l \notin open
    /\ DetachPane(p, l)
    /\ open' = open \cup {l}
    /\ reg' = reg \cup {l}
    /\ UNCHANGED <<settling, closeReq, task>>

\* The layout could not be saved: the new webview is told to close.
OpenDetachedFails(p) ==
  \E l \in Labels :
    /\ DbFails
    /\ TxFree /\ p \in layout[Main] /\ NextKey(l) /\ l \notin open
    /\ open' = open \cup {l}
    /\ closeReq' = closeReq \cup {l}
    /\ UNCHANGED <<layout, reg, settling, task>>

----------------------------------------------------------------------------
\* settle_detached_window, in a task of the X

\* Mutant: a second settle of a marked window goes on.
SettleBeginUnmarked(t) ==
  LET l == task[t].label IN
    /\ task[t].pc = "begin" /\ TxFree
    /\ IF l \in reg
       THEN /\ settling' = settling \cup {l}
            /\ task' = [task EXCEPT ![t].pc = "persist"]
       ELSE task' = [task EXCEPT ![t] = Idle] /\ UNCHANGED settling
    /\ UNCHANGED <<layout, reg, open, closeReq>>

\* The mark is taken; a window that is not live any more gives it back.
SettleBegin(t) ==
  LET l == task[t].label IN
    /\ task[t].pc = "begin" /\ TxFree
    /\ IF l \in reg /\ l \notin settling
       THEN /\ settling' = settling \cup {l}
            /\ task' = [task EXCEPT ![t].pc = "persist"]
       ELSE task' = [task EXCEPT ![t] = Idle] /\ UNCHANGED settling
    /\ UNCHANGED <<layout, reg, open, closeReq>>

\* Mutant: the window goes and its panes with it.
ReattachDropsPanes(l) == layout' = [w \in DOMAIN layout \ {l} |-> layout[w]]

\* reattach_window_to_main
Reattach(l) ==
  layout' = [w \in DOMAIN layout \ {l} |->
               IF w = Main /\ l \in Detached THEN layout[w] \cup layout[l] ELSE layout[w]]

SettlePersist(t) ==
  /\ task[t].pc = "persist"
  /\ Reattach(task[t].label)
  /\ task' = [task EXCEPT ![t].pc = "remove"]
  /\ UNCHANGED <<reg, settling, open, closeReq>>

\* The save fails: the mark is given back and the window is left open.
SettleFails(t) ==
  /\ DbFails
  /\ task[t].pc = "persist"
  /\ settling' = settling \ {task[t].label}
  /\ task' = [task EXCEPT ![t] = Idle]
  /\ UNCHANGED <<layout, reg, open, closeReq>>

\* Mutant: the window stays live, and its X is prevented for ever.
SettleRemoveForgets(t) ==
  /\ task[t].pc = "remove"
  /\ task' = [task EXCEPT ![t].pc = "close"]
  /\ UNCHANGED <<layout, reg, settling, open, closeReq>>

SettleRemove(t) ==
  /\ task[t].pc = "remove"
  /\ reg' = reg \ {task[t].label}
  /\ task' = [task EXCEPT ![t].pc = "close"]
  /\ UNCHANGED <<layout, settling, open, closeReq>>

\* Mutant: the window is settled and nobody closes its webview.
TaskCloseNothing(t) ==
  /\ task[t].pc = "close"
  /\ task' = [task EXCEPT ![t].pc = "end"]
  /\ UNCHANGED <<layout, reg, settling, open, closeReq>>

\* The task tells the webview of that label, if there is one, to close.
TaskClose(t) ==
  /\ task[t].pc = "close"
  /\ closeReq' = IF task[t].label \in open THEN closeReq \cup {task[t].label} ELSE closeReq
  /\ task' = [task EXCEPT ![t].pc = "end"]
  /\ UNCHANGED <<layout, reg, settling, open>>

TaskEnd(t) ==
  /\ task[t].pc = "end"
  /\ settling' = settling \ {task[t].label}
  /\ task' = [task EXCEPT ![t] = Idle]
  /\ UNCHANGED <<layout, reg, open, closeReq>>

\* window_close: settle, close and end_settle in one command of the main
\* thread.  A window that somebody else settles is left to them.
WindowClose(l) ==
  /\ TxFree /\ l \in open
  /\ l \in reg /\ l \notin settling
  /\ Reattach(l)
  /\ reg' = reg \ {l}
  /\ closeReq' = closeReq \cup {l}
  /\ UNCHANGED <<settling, open, task>>

----------------------------------------------------------------------------
\* The main thread

PressX(l) ==
  /\ l \in open
  /\ closeReq' = closeReq \cup {l}
  /\ UNCHANGED <<layout, reg, settling, open, task>>

\* CloseRequested of a live window: prevented, and left to a task.
CloseRequestedLive(l) ==
  /\ l \in closeReq /\ l \in reg /\ l \notin settling
  /\ \E t \in Tasks :
       /\ task[t] = Idle
       /\ task' = [task EXCEPT ![t] = [pc |-> "begin", label |-> l]]
  /\ closeReq' = closeReq \ {l}
  /\ UNCHANGED <<layout, reg, settling, open>>

\* CloseRequested of a window that is settling, or is not registered: it closes.
CloseRequestedGone(l) ==
  /\ l \in closeReq /\ (l \notin reg \/ l \in settling)
  /\ open' = open \ {l}
  /\ closeReq' = closeReq \ {l}
  /\ UNCHANGED <<layout, reg, settling, task>>

\* The application ends and starts: the layout is all that is left.
Restart ==
  /\ Restarts
  /\ reg' = {} /\ settling' = {} /\ open' = {} /\ closeReq' = {}
  /\ task' = [t \in Tasks |-> Idle]
  /\ UNCHANGED layout

TaskStep(t) ==
  \/ SettleBegin(t) \/ SettlePersist(t) \/ SettleFails(t) \/ SettleRemove(t)
  \/ TaskClose(t) \/ TaskEnd(t)

CloseRequested(l) == CloseRequestedLive(l) \/ CloseRequestedGone(l)

Next ==
  \/ \E p \in Panes : OpenDetached(p) \/ OpenDetachedFails(p)
  \/ \E l \in Labels : WindowClose(l) \/ PressX(l) \/ CloseRequested(l)
  \/ \E t \in Tasks : TaskStep(t)
  \/ Restart

Fairness ==
  /\ \A t \in Tasks : WF_vars(TaskStep(t))
  /\ \A l \in Labels : WF_vars(CloseRequested(l))

Spec == Init /\ [][Next]_vars /\ Fairness
----------------------------------------------------------------------------
\* What the windows promise

\* Whatever is opened, closed, retried, lost or restarted, each pane is in
\* exactly one window on record: a detach or a re-attach that stops half way
\* neither drops a pane nor shows it twice (window_reattach.rs, rule 1 of
\* LayoutConfigV1::validate).
PaneInOneWindow ==
  \A p \in Panes : \E w \in DOMAIN layout :
    /\ p \in layout[w]
    /\ \A v \in DOMAIN layout \ {w} : p \notin layout[v]

\* A live window is on record, but for the moment between the two halves of
\* its settle.  Otherwise reattach_window_to_main would change nothing, save
\* would call the unchanged revision stale five times, and the X of the window
\* would never close it.
LiveWindowIsOnRecord ==
  \A l \in reg \ Detached :
    \E t \in Tasks : task[t] = [pc |-> "remove", label |-> l]

\* A settling mark belongs to one task that will take it away.  A mark without
\* one would let the next X of a window of that name close it without
\* re-attaching its panes; a mark with two would be taken away under the second.
MarkIsOwned ==
  \A l \in settling :
    \E t \in Tasks :
      /\ task[t].label = l /\ task[t].pc \in {"persist", "remove", "close", "end"}
      /\ \A u \in Tasks \ {t} : task[u].label = l => task[u].pc = "begin"

\* Layout, registry and marks agree at every step of the settles under way.
WindowsAgree == PaneInOneWindow /\ LiveWindowIsOnRecord /\ MarkIsOwned

\* A webview that is no window any more goes away: it shows nothing, and its
\* name cannot be used again while it stays.
DeadWindowCloses == \A l \in Labels : l \in open \ reg ~> l \notin open

\* A window is on record for as long as it is one, and goes when it is not.
WindowsAreKept == []WindowsAgree /\ DeadWindowCloses

\* A pane can be reached: the window it is in is on the screen.  window_close and
\* the handler of the X leave the window open when its re-attach is not saved,
\* so that no living process is left without a window.
PaneCanBeReached == Detached \subseteq open
=============================================================================
