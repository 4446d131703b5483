----------------------------- MODULE MCProgress -----------------------------
(***************************************************************************)
(* The components that promise progress, each on an instance of its own.   *)
(* They share nothing: part says which of them a behaviour is about, and   *)
(* the others stay as they began, so that one run explores each one alone. *)
(*                                                                         *)
(* Fairness is that of the components, of the part a behaviour is about: a *)
(* conjunct of another part would ask for steps that cannot be taken.      *)
(*                                                                         *)
(* The pane is given no thread that cancels: PaneProcess_wrong_kill shows  *)
(* what a cancel does to a respawn.                                        *)
(***************************************************************************)
EXTENDS PaneProcess, Work

VARIABLES part,
          card, log, frame, cache, update \* Cards

cardVars == <<card, log, frame, cache, update>>

Inbox == INSTANCE Cards WITH CardIds <- {"c"}, Keys <- {"k"}, Closing <- {"approved"},
           Frames <- {"f1"}, Skew <- 1, CacheSize <- 1, SnoozeTicks <- 1

ASSUME InboxAssumption == Inbox!CardsAssumption

MCInit ==
  /\ part \in {"signals", "launch", "queue", "windows", "screens", "inbox", "panes",
              "breaker", "uploads"}
  /\ Init /\ Launch!Init /\ Queue!Init /\ Router!Init /\ Window!Init /\ Screen!Init
  /\ Inbox!Init /\ Free!Init /\ Upload!Init
  \* What does not matter to a part is as it may be in one way only.
  /\ part # "inbox" => \A f \in DOMAIN frame : frame[f].decision = "approved"
  /\ part # "launch" => bestOfN

MCNext ==
  \/ /\ part = "panes" /\ Next
     /\ UNCHANGED <<part, launchVars, queueVars, routerVars, windowVars,
                    screenVars, cardVars, routeVars, traceVars>>
  \/ /\ part = "launch" /\ Launch!Next
     /\ UNCHANGED <<part, vars, queueVars, routerVars, windowVars,
                    screenVars, cardVars, routeVars, traceVars>>
  \/ /\ part = "queue" /\ Queue!Next
     /\ UNCHANGED <<part, vars, launchVars, routerVars, windowVars,
                    screenVars, cardVars, routeVars, traceVars>>
  \/ /\ part = "signals" /\ Router!Next
     /\ UNCHANGED <<part, vars, launchVars, queueVars, windowVars,
                    screenVars, cardVars, routeVars, traceVars>>
  \/ /\ part = "windows" /\ Window!Next
     /\ UNCHANGED <<part, vars, launchVars, queueVars, routerVars,
                    screenVars, cardVars, routeVars, traceVars>>
  \/ /\ part = "screens" /\ Screen!Next
     /\ UNCHANGED <<part, vars, launchVars, queueVars, routerVars,
                    windowVars, cardVars, routeVars, traceVars>>
  \/ /\ part = "inbox" /\ Inbox!Next
     /\ UNCHANGED <<part, vars, launchVars, queueVars, routerVars,
                    windowVars, screenVars, routeVars, traceVars>>
  \/ /\ part = "breaker" /\ Free!Next
     /\ UNCHANGED <<part, vars, launchVars, queueVars, routerVars,
                    windowVars, screenVars, cardVars, traceVars>>
  \/ /\ part = "uploads" /\ Upload!Next
     /\ UNCHANGED <<part, vars, launchVars, queueVars, routerVars,
                    windowVars, screenVars, cardVars, routeVars>>

mcVars == <<part, vars, launchVars, queueVars, routerVars, windowVars,
            screenVars, cardVars, routeVars, traceVars>>

\* The Fairness of each component, for its own part.
Of(p, A) == part = p /\ A

MCFairness ==
  /\ WF_routerVars(Of("signals", Router!Dispatch \/ Router!Deliver))
  /\ \A d \in Router!Deliveries : WF_routerVars(Of("signals", Router!BackoffEnds(d)))
  /\ WF_launchVars(Of("launch", Launch!Launching)) /\ WF_launchVars(Of("launch", Launch!Canceling))
  /\ WF_launchVars(Of("launch", Launch!Remoting)) /\ WF_launchVars(Of("launch", Launch!Mount))
  /\ SF_launchVars(Of("launch", Launch!Claim)) /\ SF_launchVars(Of("launch", Launch!CancelRead))
  /\ SF_launchVars(Of("launch", Launch!Abort /\ ckpt' # ckpt))
  /\ WF_queueVars(Of("queue", Queue!Worker))
  /\ \A t \in Tasks : WF_queueVars(Of("queue", Queue!TaskStep(t)))
  /\ \A t \in Settles : WF_windowVars(Of("windows", Window!TaskStep(t)))
  /\ \A l \in Window!Labels : WF_windowVars(Of("windows", Window!CloseRequested(l)))
  /\ WF_screenVars(Of("screens", Screen!ListTasks))
  /\ \A p \in Watched : /\ WF_screenVars(Of("screens", Screen!ReadTail(p)))
                       /\ WF_screenVars(Of("screens", Screen!Process(p)))
  /\ WF_cardVars(Of("inbox", Inbox!ListCards)) /\ WF_cardVars(Of("inbox", Inbox!Tick))
  /\ \A th \in Spawners : WF_vars(Of("panes", Spawning(th)))
  /\ \A g \in Gens : WF_vars(Of("panes", Waiting(g)))
  /\ WF_routeVars(Of("breaker", Free!Tick))
  /\ \A th \in Routing :
       WF_routeVars(Of("breaker", Free!Decide(th) \/ Free!Answer(th) \/ Free!Inside(th)))
  /\ WF_traceVars(Of("uploads", Upload!Notify)) /\ WF_traceVars(Of("uploads", Upload!Loop))

MCSpec == MCInit /\ [][MCNext]_mcVars /\ MCFairness

----------------------------------------------------------------------------
\* A snooze ends: the property of the component that is here only.
SnoozeEnds == Inbox!SnoozeEnds
=============================================================================
